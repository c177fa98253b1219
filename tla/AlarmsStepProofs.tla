-------------------------- MODULE AlarmsStepProofs --------------------------
(***************************************************************************)
(* The inductive invariant of Alarms, and why the calls of the object and  *)
(* the scheduler's side of a delivery keep it.                             *)
(*                                                                         *)
(* An alarm that is over can only come back through a deleteAlarm that     *)
(* still holds its row, so the invariant follows the rows held by such     *)
(* calls; and every copy of a retry count, wherever it is, was paid for by *)
(* failed runs.                                                            *)
(***************************************************************************)
EXTENDS Alarms, TLAPS

USE SMTT(60)

\* Every token in use was drawn.
Drawn ==
    /\ row.token <= issued
    /\ job.alarm.token <= issued
    /\ probe.alarm.token <= issued
    /\ done \subseteq 1 .. issued
    /\ \A s \in Slots : tasks[s].token <= issued /\ runs[s].token <= issued
    /\ \A c \in Callers : calls[c].saved.token <= issued

Paid(k, retry) == k # 0 => retry <= failures[k]

\* Every copy of a retry count.
RetriesPaid ==
    /\ Paid(row.token, row.retry)
    /\ Paid(job.alarm.token, job.alarm.retry)
    /\ Paid(probe.alarm.token, probe.alarm.retry)
    /\ \A s \in Slots : Paid(tasks[s].token, tasks[s].retry)
    /\ \A s \in Slots : Paid(runs[s].token, runs[s].retry)
    /\ \A c \in Callers : Paid(calls[c].saved.token, calls[c].saved.retry)

\* A deleteAlarm in flight holds the only copy of its row.
Holds(c, k) == calls[c].kind = "delete" /\ calls[c].saved.token = k

HeldRows ==
    \A c \in Callers : calls[c].kind = "delete" =>
        /\ calls[c].saved.token # 0
        /\ calls[c].saved.token # row.token
        /\ \A d \in Callers : Holds(d, calls[c].saved.token) => d = c

\* No row of alarm k exists, and none can be restored.
Over(k) == k # 0 /\ row.token # k /\ \A c \in Callers : ~Holds(c, k)

GivenUp(k) == Over(k) /\ failures[k] > MaxRetry

OverIsOver ==
    /\ \A k \in done : Over(k)
    /\ job.state = "discarding" => GivenUp(job.alarm.token)
    /\ \A s \in Slots : runs[s].phase = "exhausted" => GivenUp(runs[s].token)

\* What is scheduled, claimed, running or on its way to the copy is an alarm.
Named ==
    /\ job.state # "absent" => job.alarm.token # 0
    /\ \A s \in Slots : tasks[s].stage # "free" => tasks[s].token # 0
    /\ \A s \in Slots : runs[s].phase # "none" => runs[s].token # 0
    /\ \A c \in Callers :
          calls[c].kind # "free" /\ calls[c].op = "upsert" => calls[c].saved.token # 0

\* A task waits for the run of its own alarm, and a retry call is a run's.
Linked ==
    /\ \A s \in Slots : tasks[s].stage = "dispatched" => runs[s].token = tasks[s].token
    /\ \A s \in Slots : tasks[s].stage \in {"claimed", "authorized"} => runs[s].phase = "none"
    /\ \A c \in Callers :
          calls[c].kind = "retry" => c \in Slots /\ runs[c].phase = "upserting"

IInv ==
    /\ TypeOK
    /\ ClaimHasTask
    /\ Drawn
    /\ RetriesPaid
    /\ HeldRows
    /\ OverIsOver
    /\ Named
    /\ Linked

\* DropJob keeps the type of the tasks it is given ...
LEMMA DropType ==
    ASSUME NEW ts \in [Slots -> Task]
    PROVE  [s \in Slots |->
              [stage |-> ts[s].stage, token |-> ts[s].token, retry |-> ts[s].retry,
               current |-> FALSE]] \in [Slots -> Task]
  BY Zenon DEF Task

\* ... and so does ending a task,
LEMMA EndedType ==
    ASSUME TypeOK, NEW s \in Slots
    PROVE  Ended(s) \in [Slots -> Task]
  BY BoundAssumption DEF TypeOK, Task, Ended, NoTask

\* both at once,
LEMMA DropEndedType ==
    ASSUME TypeOK, NEW s \in Slots
    PROVE  [t \in Slots |->
              [stage |-> Ended(s)[t].stage, token |-> Ended(s)[t].token,
               retry |-> Ended(s)[t].retry, current |-> FALSE]] \in [Slots -> Task]
  BY EndedType, DropType, Zenon

\* and moving a task on.
LEMMA StageType ==
    ASSUME TypeOK, NEW s \in Slots,
           NEW stage \in {"claimed", "authorized", "dispatched", "unknown", "discarding"}
    PROVE  AtStage(s, stage) \in [Slots -> Task]
  BY Zenon DEF TypeOK, Task, AtStage

\* A free caller.
LEMMA NoCallType == NoCall \in Call
<1>1. NoRow \in Row
  BY BoundAssumption DEF NoRow, Row
<1> QED  BY <1>1, Zenon DEF NoCall, Call

\* The row and the run a delivery looks at.
LEMMA SlotTypes ==
    ASSUME TypeOK, NEW s \in Slots
    PROVE  row \in Row /\ runs[s] \in Run
  BY Zenon DEF TypeOK

\* The tasks after each step that ends or moves one.
LEMMA TasksType ==
    ASSUME TypeOK, NEW s \in Slots,
           Authorize(s) \/ Retarget(s) \/ Answer(s) \/ FinishDiscarding(s)
    PROVE  tasks' \in [Slots -> Task]
<1> USE EndedType, DropEndedType, StageType
<1>1. CASE Authorize(s)
  BY <1>1, ZenonT(60) DEF Authorize, FinishDelete, DropJob
<1>2. CASE Retarget(s)
  BY <1>2, Zenon DEF Retarget
<1>3. CASE Answer(s)
  BY <1>3, Zenon DEF Answer, FinishDelete, FinishDiscard, FinishReschedule, DropJob
<1>4. CASE FinishDiscarding(s)
  BY <1>4, Zenon DEF FinishDiscarding, DropJob
<1> QED  BY <1>1, <1>2, <1>3, <1>4, Zenon

\* A write of the index keeps or drops the tasks.
LEMMA ApplyTasksType ==
    ASSUME TypeOK, NEW c \in Callers, ApplyTo(c)
    PROVE  tasks' \in [Slots -> Task]
<1>1. tasks \in [Slots -> Task]
  BY Zenon DEF TypeOK
<1> QED  BY <1>1, DropType, Zenon DEF ApplyTo, UpsertAlarm, DeleteAlarmExact, DropJob

\* One more failure leaves every retry count paid.
LEMMA StillPaid ==
    ASSUME TypeOK, NEW i \in Tokens, failures' = [failures EXCEPT ![i] = failures[i] + 1]
    PROVE  /\ failures'[i] = failures[i] + 1
           /\ \A k \in 0 .. MaxTokens, n \in 0 .. MaxRetry : Paid(k, n) => Paid(k, n)'
<1>1. \A k \in Tokens : failures[k] \in Nat /\ failures[k] <= failures'[k]
  BY BoundAssumption DEF TypeOK
<1>2. \A k \in 0 .. MaxTokens : k # 0 => k \in Tokens
  BY BoundAssumption DEF Tokens
<1>3. \A k \in Tokens : failures'[k] \in Nat
  BY BoundAssumption DEF TypeOK
<1>4. \A k \in 0 .. MaxTokens, n \in 0 .. MaxRetry : Paid(k, n) => Paid(k, n)'
  BY BoundAssumption, <1>1, <1>2, <1>3 DEF Paid
<1>5. failures'[i] = failures[i] + 1
  BY Zenon DEF TypeOK
<1> QED  BY <1>4, <1>5, Zenon

\* A token other than 0 counts its failures.
LEMMA Counted ==
    ASSUME TypeOK, NEW k \in 0 .. MaxTokens, k # 0
    PROVE  k \in Tokens /\ failures[k] \in 0 .. MaxFailures
  BY BoundAssumption DEF TypeOK, Tokens

-----------------------------------------------------------------------------
\* setAlarm draws a token nobody has seen.
LEMMA SetAlarmInv ==
    ASSUME IInv, NEW c \in Clients, NEW wait \in 0 .. 1,
           NEW kind \in {"set", "flush"}, SetAlarm(c, wait, kind)
    PROVE  IInv'
<1> USE CallerAssumption, BoundAssumption
    DEF IInv, Callers, SetAlarm, Post, Owns
<1>1. TypeOK'
  <2>1. row' \in Row
    BY DEF TypeOK, Row
  <2>2. calls' \in [Callers -> Call]
    BY DEF TypeOK, Call, Row
  <2>3. issued' \in 0 .. MaxTokens
    BY DEF TypeOK
  <2> QED  BY <2>1, <2>2, <2>3, Zenon DEF TypeOK
<1>2. ClaimHasTask'
  BY Zenon DEF ClaimHasTask
<1>3. Drawn'
  <2>1. issued \in Nat /\ issued' = issued + 1
    BY DEF TypeOK
  <2>2. row'.token <= issued' /\ done' \subseteq 1 .. issued'
    BY <2>1 DEF Drawn
  <2>3. \A d \in Callers : calls'[d].saved.token <= issued'
    BY <2>1 DEF TypeOK, Call, Row, Drawn
  <2>4. job'.alarm.token <= issued' /\ probe'.alarm.token <= issued'
    BY <2>1 DEF TypeOK, Job, Alarm, Probe, Drawn
  <2>5. \A s \in Slots : tasks'[s].token <= issued' /\ runs'[s].token <= issued'
    BY <2>1 DEF TypeOK, Task, Run, Drawn
  <2> QED  BY <2>2, <2>3, <2>4, <2>5, Zenon DEF Drawn
<1>4. RetriesPaid'
  <2>1. 0 <= failures[issued + 1]
    BY Counted DEF TypeOK
  <2>2. Paid(row.token, row.retry)'
    BY <2>1, Zenon DEF Paid
  <2>3. \A d \in Callers : Paid(calls[d].saved.token, calls[d].saved.retry)'
    BY <2>1, Zenon DEF TypeOK, RetriesPaid, Paid
  <2> QED  BY <2>2, <2>3, Zenon DEF RetriesPaid, Paid
<1>5. HeldRows'
  BY DEF TypeOK, Alarm, Row, Job, Task, Run, Call, Probe, HeldRows, Holds,
    Drawn
<1>6. OverIsOver'
  BY DEF TypeOK, Alarm, Row, Job, Task, Run, Call, Probe, OverIsOver, GivenUp,
    Over, Holds, HeldRows, Drawn
<1>7. Named'
  BY DEF TypeOK, Named
<1>8. Linked'
  BY Zenon DEF TypeOK, Linked
<1> QED  BY <1>1, <1>2, <1>3, <1>4, <1>5, <1>6, <1>7, <1>8, Zenon

\* deleteAlarm takes hold of the row it removes.
LEMMA DeleteAlarmInv ==
    ASSUME IInv, NEW c \in Clients, NEW kind \in {"delete", "flush"}, DeleteAlarm(c, kind)
    PROVE  IInv'
<1> USE CallerAssumption, BoundAssumption
    DEF IInv, Callers, DeleteAlarm, Post, Owns, NoRow
<1>1. TypeOK'
  <2>1. row' \in Row
    BY DEF TypeOK, Row
  <2>2. calls' \in [Callers -> Call]
    BY Zenon DEF TypeOK, Call, Row
  <2> QED  BY <2>1, <2>2, Zenon DEF TypeOK
<1>2. ClaimHasTask'
  BY Zenon DEF ClaimHasTask
<1>3. Drawn'
  BY DEF TypeOK, Drawn
<1>4. RetriesPaid'
  BY Zenon DEF TypeOK, RetriesPaid, Paid
<1>5. HeldRows'
  BY Zenon DEF TypeOK, HeldRows, Holds
<1>6. OverIsOver'
  BY Zenon DEF TypeOK, OverIsOver, GivenUp, Over, Holds
<1>7. Named'
  BY Zenon DEF TypeOK, Named
<1>8. Linked'
  BY Zenon DEF TypeOK, Linked
<1> QED  BY <1>1, <1>2, <1>3, <1>4, <1>5, <1>6, <1>7, <1>8, Zenon

\* getAlarm sends a copy of the row.
LEMMA GetAlarmInv ==
    ASSUME IInv, NEW c \in Clients, GetAlarm(c)
    PROVE  IInv'
<1> USE CallerAssumption, BoundAssumption
    DEF IInv, Callers, GetAlarm, Post, Owns
<1>1. TypeOK'
  <2>1. calls' \in [Callers -> Call]
    BY Zenon DEF TypeOK, Call, Row
  <2> QED  BY <2>1, Zenon DEF TypeOK
<1>2. ClaimHasTask'
  BY Zenon DEF ClaimHasTask
<1>3. Drawn'
  BY Zenon DEF TypeOK, Drawn
<1>4. RetriesPaid'
  BY Zenon DEF TypeOK, RetriesPaid, Paid
<1>5. HeldRows'
  BY Zenon DEF TypeOK, HeldRows, Holds
<1>6. OverIsOver'
  BY Zenon DEF TypeOK, OverIsOver, GivenUp, Over, Holds
<1>7. Named'
  BY Zenon DEF TypeOK, Named
<1>8. Linked'
  BY Zenon DEF TypeOK, Linked
<1> QED  BY <1>1, <1>2, <1>3, <1>4, <1>5, <1>6, <1>7, <1>8, Zenon

\* deleteAll sends a copy of the row.
LEMMA DeleteAllInv ==
    ASSUME IInv, NEW c \in Clients, DeleteAll(c)
    PROVE  IInv'
<1> USE CallerAssumption, BoundAssumption
    DEF IInv, Callers, DeleteAll, Post, Owns
<1>1. TypeOK'
  <2>1. calls' \in [Callers -> Call]
    BY Zenon DEF TypeOK, Call, Row
  <2> QED  BY <2>1, Zenon DEF TypeOK
<1>2. ClaimHasTask'
  BY Zenon DEF ClaimHasTask
<1>3. Drawn'
  BY Zenon DEF TypeOK, Drawn
<1>4. RetriesPaid'
  BY Zenon DEF TypeOK, RetriesPaid, Paid
<1>5. HeldRows'
  BY Zenon DEF TypeOK, HeldRows, Holds
<1>6. OverIsOver'
  BY Zenon DEF TypeOK, OverIsOver, GivenUp, Over, Holds
<1>7. Named'
  BY Zenon DEF TypeOK, Named
<1>8. Linked'
  BY Zenon DEF TypeOK, Linked
<1> QED  BY <1>1, <1>2, <1>3, <1>4, <1>5, <1>6, <1>7, <1>8, Zenon

\* The activation sends a copy of the row.
LEMMA ActivateInv ==
    ASSUME IInv, Activate
    PROVE  IInv'
<1> USE CallerAssumption, BoundAssumption
    DEF IInv, Callers, Activate, Post, Owns
<1>1. TypeOK'
  <2>1. host' \in {"down", "activating", "up"}
    BY Zenon DEF TypeOK
  <2>2. calls' \in [Callers -> Call]
    BY Zenon DEF TypeOK, Call, Row
  <2> QED  BY <2>1, <2>2, Zenon DEF TypeOK
<1>2. ClaimHasTask'
  BY Zenon DEF ClaimHasTask
<1>3. Drawn'
  BY Zenon DEF TypeOK, Drawn
<1>4. RetriesPaid'
  BY Zenon DEF TypeOK, RetriesPaid, Paid
<1>5. HeldRows'
  BY Zenon DEF TypeOK, HeldRows, Holds
<1>6. OverIsOver'
  BY Zenon DEF TypeOK, OverIsOver, GivenUp, Over, Holds
<1>7. Named'
  BY Zenon DEF TypeOK, Named
<1>8. Linked'
  BY Zenon DEF TypeOK, Linked
<1> QED  BY <1>1, <1>2, <1>3, <1>4, <1>5, <1>6, <1>7, <1>8, Zenon

\* The authority check changes no copy.
LEMMA AuthorizeCallInv ==
    ASSUME IInv, NEW c \in Callers, AuthorizeCall(c)
    PROVE  IInv'
<1> USE CallerAssumption, BoundAssumption
    DEF IInv, Callers, AuthorizeCall, CallAt, Owns
<1>1. TypeOK'
  <2>1. calls' \in [Callers -> Call]
    BY ZenonT(60) DEF TypeOK, Call, Row
  <2> QED  BY <2>1, Zenon DEF TypeOK
<1>2. ClaimHasTask'
  BY Zenon DEF ClaimHasTask
<1>3. Drawn'
  BY Zenon DEF TypeOK, Drawn
<1>4. RetriesPaid'
  BY Zenon DEF TypeOK, RetriesPaid, Paid
<1>5. HeldRows'
  BY Zenon DEF TypeOK, HeldRows, Holds
<1>6. OverIsOver'
  BY DEF TypeOK, OverIsOver, GivenUp, Over, Holds
<1>7. Named'
  BY Zenon DEF TypeOK, Named
<1>8. Linked'
  BY Zenon DEF TypeOK, Linked
<1> QED  BY <1>1, <1>2, <1>3, <1>4, <1>5, <1>6, <1>7, <1>8, Zenon

\* A write of the index leaves no claim behind.
LEMMA ApplyCallInv ==
    ASSUME IInv, NEW c \in Callers, ApplyCall(c)
    PROVE  IInv'
<1> USE CallerAssumption, BoundAssumption
    DEF IInv, Callers, ApplyCall, CallAt, NoCall, NoRow, NoJob, NoAlarm, Owns,
      ApplyTo, UpsertAlarm, Projected, DeleteAlarmExact, DropJob
<1>1. TypeOK'
  <2>1. job' \in Job
    BY DEF TypeOK, Alarm, Call, Job, Row
  <2>2. tasks' \in [Slots -> Task]
    BY ApplyTasksType, Zenon
  <2>3. calls' \in [Callers -> Call]
    BY DEF TypeOK, Call, Row
  <2> QED  BY <2>1, <2>2, <2>3, Zenon DEF TypeOK
<1>2. ClaimHasTask'
  BY DEF ClaimHasTask
<1>3. Drawn'
  BY DEF TypeOK, Drawn
<1>4. RetriesPaid'
  BY DEF TypeOK, RetriesPaid, Paid
<1>5. HeldRows'
  BY Zenon DEF TypeOK, HeldRows, Holds
<1>6. OverIsOver'
  BY DEF TypeOK, OverIsOver, GivenUp, Over, Holds
<1>7. Named'
  BY DEF TypeOK, Named
<1>8. Linked'
  BY DEF TypeOK, Linked
<1> QED  BY <1>1, <1>2, <1>3, <1>4, <1>5, <1>6, <1>7, <1>8, Zenon

\* The same write, its caller still waiting.
LEMMA ApplyUnansweredInv ==
    ASSUME IInv, NEW c \in Callers, ApplyUnanswered(c)
    PROVE  IInv'
<1> USE CallerAssumption, BoundAssumption
    DEF IInv, Callers, ApplyUnanswered, Fault, CallAt, NoJob, NoAlarm, Owns,
      ApplyTo, UpsertAlarm, Projected, DeleteAlarmExact, DropJob
<1>1. TypeOK'
  <2>1. job' \in Job
    BY DEF TypeOK, Alarm, Call, Job, Row
  <2>2. tasks' \in [Slots -> Task]
    BY ApplyTasksType, Zenon
  <2>3. calls' \in [Callers -> Call]
    BY Zenon DEF TypeOK, Call, Row
  <2>4. faults' \in 0 .. MaxFaults
    BY DEF TypeOK
  <2> QED  BY <2>1, <2>2, <2>3, <2>4, Zenon DEF TypeOK
<1>2. ClaimHasTask'
  BY DEF ClaimHasTask
<1>3. Drawn'
  BY DEF TypeOK, Drawn
<1>4. RetriesPaid'
  BY DEF TypeOK, RetriesPaid, Paid
<1>5. HeldRows'
  BY ZenonT(60) DEF TypeOK, HeldRows, Holds
<1>6. OverIsOver'
  BY DEF TypeOK, OverIsOver, GivenUp, Over, Holds
<1>7. Named'
  BY DEF TypeOK, Named
<1>8. Linked'
  BY DEF TypeOK, Linked
<1> QED  BY <1>1, <1>2, <1>3, <1>4, <1>5, <1>6, <1>7, <1>8, Zenon

\* A call that ends no longer holds its row.
LEMMA ReturnInv ==
    ASSUME IInv, NEW c \in Callers, Return(c)
    PROVE  IInv'
<1> USE CallerAssumption, BoundAssumption
    DEF IInv, Callers, Return, Resume, NoCall, NoRow, Owns
<1>1. TypeOK'
  <2>1. row' \in Row
    BY DEF TypeOK, Row
  <2>2. runs' \in [Slots -> Run]
    BY Zenon DEF TypeOK, Run
  <2>3. calls' \in [Callers -> Call]
    BY DEF TypeOK, Call, Row
  <2>4. host' \in {"down", "activating", "up"}
    BY Zenon DEF TypeOK
  <2> QED  BY <2>1, <2>2, <2>3, <2>4, Zenon DEF TypeOK
<1>2. ClaimHasTask'
  BY Zenon DEF ClaimHasTask
<1>3. Drawn'
  BY DEF TypeOK, Drawn
<1>4. RetriesPaid'
  BY Zenon DEF TypeOK, RetriesPaid, Paid
<1>5. HeldRows'
  BY ZenonT(60) DEF TypeOK, HeldRows, Holds
<1>6. OverIsOver'
  BY DEF TypeOK, OverIsOver, GivenUp, Over, Holds
<1>7. Named'
  <2>1. \A s \in Slots : runs'[s].token = runs[s].token
    BY Zenon DEF TypeOK
  <2>2. \A s \in Slots : runs'[s].phase # "none" => runs[s].phase # "none"
    BY Zenon DEF TypeOK, Linked
  <2> QED  BY <2>1, <2>2, Zenon DEF TypeOK, Named
<1>8. Linked'
  BY Zenon DEF TypeOK, Linked
<1> QED  BY <1>1, <1>2, <1>3, <1>4, <1>5, <1>6, <1>7, <1>8, Zenon

\* Only the call that held a row restores it.
LEMMA CallFailsInv ==
    ASSUME IInv, NEW c \in Callers, CallFails(c)
    PROVE  IInv'
<1> USE CallerAssumption, BoundAssumption
    DEF IInv, Callers, CallFails, Resume, ExactDelete, RestoreIfAbsent,
      Abandoned, Fault, NoCall, NoRow, Owns
<1>1. TypeOK'
  <2>1. row' \in Row
    BY DEF TypeOK, Call, Row
  <2>2. runs' \in [Slots -> Run]
    BY Zenon DEF TypeOK, Run
  <2>3. calls' \in [Callers -> Call]
    <3>1. CASE calls' = [calls EXCEPT ![c] = NoCall]
      BY <3>1 DEF TypeOK, Call, Row
    <3>2. CASE calls' = [calls EXCEPT ![c] = Abandoned(c)]
      BY <3>2, Zenon DEF TypeOK, Call
    <3> QED  BY <3>1, <3>2, Zenon
  <2>4. host' \in {"down", "activating", "up"}
    BY Zenon DEF TypeOK
  <2>5. faults' \in 0 .. MaxFaults
    BY DEF TypeOK
  <2> QED  BY <2>1, <2>2, <2>3, <2>4, <2>5, Zenon DEF TypeOK
<1>2. ClaimHasTask'
  BY Zenon DEF ClaimHasTask
<1>3. Drawn'
  BY DEF TypeOK, Drawn
<1>4. RetriesPaid'
  BY DEF TypeOK, RetriesPaid, Paid
<1>5. HeldRows'
  BY DEF TypeOK, HeldRows, Holds
<1>6. OverIsOver'
  BY DEF TypeOK, OverIsOver, GivenUp, Over, Holds
<1>7. Named'
  <2>1. \A s \in Slots : runs'[s].token = runs[s].token
    BY Zenon DEF TypeOK
  <2>2. \A s \in Slots : runs'[s].phase # "none" => runs[s].phase # "none"
    BY Zenon DEF TypeOK, Linked
  <2> QED  BY <2>1, <2>2 DEF TypeOK, Named
<1>8. Linked'
  BY DEF TypeOK, Linked
<1> QED  BY <1>1, <1>2, <1>3, <1>4, <1>5, <1>6, <1>7, <1>8, Zenon

\* deleteAll sends back the copy it read.
LEMMA DeleteAllFailsInv ==
    ASSUME IInv, NEW c \in Callers, DeleteAllFails(c)
    PROVE  IInv'
<1> USE CallerAssumption, BoundAssumption
    DEF IInv, Callers, DeleteAllFails, NoCall, NoRow, Owns
<1>1. TypeOK'
  <2>1. calls' \in [Callers -> Call]
    BY DEF TypeOK, Call, Row
  <2> QED  BY <2>1, Zenon DEF TypeOK
<1>2. ClaimHasTask'
  BY Zenon DEF ClaimHasTask
<1>3. Drawn'
  BY Zenon DEF TypeOK, Drawn
<1>4. RetriesPaid'
  BY Zenon DEF TypeOK, RetriesPaid, Paid
<1>5. HeldRows'
  BY Zenon DEF TypeOK, HeldRows, Holds
<1>6. OverIsOver'
  BY ZenonT(60) DEF TypeOK, OverIsOver, GivenUp, Over, Holds
<1>7. Named'
  BY Zenon DEF TypeOK, Named
<1>8. Linked'
  BY Zenon DEF TypeOK, Linked
<1> QED  BY <1>1, <1>2, <1>3, <1>4, <1>5, <1>6, <1>7, <1>8, Zenon

-----------------------------------------------------------------------------
(* The scheduler's side of a delivery: the claim, the request to the object  *)
(* and its admission, the answer, and the ways a task can fail.              *)

\* The new claim has its task.
LEMMA ClaimInv ==
    ASSUME IInv, NEW s \in Slots, Claim(s)
    PROVE  IInv'
<1> USE CallerAssumption, BoundAssumption
    DEF IInv, Callers, Claim, Owns
<1>1. TypeOK'
  <2>1. job' \in Job
    BY Zenon DEF TypeOK, Alarm, Job
  <2>2. tasks' \in [Slots -> Task]
    BY Zenon DEF TypeOK, Alarm, Job, Task
  <2> QED  BY <2>1, <2>2, Zenon DEF TypeOK
<1>2. ClaimHasTask'
  BY Zenon DEF TypeOK, ClaimHasTask
<1>3. Drawn'
  BY Zenon DEF TypeOK, Drawn
<1>4. RetriesPaid'
  BY Zenon DEF TypeOK, RetriesPaid, Paid
<1>5. HeldRows'
  BY Zenon DEF TypeOK, HeldRows, Holds
<1>6. OverIsOver'
  BY Zenon DEF TypeOK, OverIsOver, GivenUp, Over, Holds
<1>7. Named'
  BY Zenon DEF TypeOK, Named
<1>8. Linked'
  BY Zenon DEF TypeOK, Linked
<1> QED  BY <1>1, <1>2, <1>3, <1>4, <1>5, <1>6, <1>7, <1>8, Zenon

\* A task whose object lost its authority takes its claim with it.
LEMMA AuthorizeInv ==
    ASSUME IInv, NEW s \in Slots, Authorize(s)
    PROVE  IInv'
<1> USE CallerAssumption, BoundAssumption
    DEF IInv, Callers, Authorize, FinishDelete, DropJob, Ended, AtStage,
      NoJob, NoAlarm, NoTask, Owns
<1>1. TypeOK'
  <2>1. job' \in Job
    BY DEF TypeOK, Alarm, Job
  <2>2. tasks' \in [Slots -> Task]
    BY TasksType, Zenon
  <2> QED  BY <2>1, <2>2, Zenon DEF TypeOK
<1>2. ClaimHasTask'
  BY DEF TypeOK, ClaimHasTask
<1>3. Drawn'
  BY DEF TypeOK, Drawn
<1>4. RetriesPaid'
  BY DEF TypeOK, RetriesPaid, Paid
<1>5. HeldRows'
  BY Zenon DEF TypeOK, HeldRows, Holds
<1>6. OverIsOver'
  BY DEF TypeOK, OverIsOver, GivenUp, Over, Holds
<1>7. Named'
  BY DEF TypeOK, Named
<1>8. Linked'
  BY DEF TypeOK, Linked
<1> QED  BY <1>1, <1>2, <1>3, <1>4, <1>5, <1>6, <1>7, <1>8, Zenon

\* The request carries the token of its task.
LEMMA RetargetInv ==
    ASSUME IInv, NEW s \in Slots, Retarget(s)
    PROVE  IInv'
<1> USE CallerAssumption, BoundAssumption
    DEF IInv, Callers, Retarget, Ended, AtStage, NoTask, Owns
<1>1. TypeOK'
  <2>1. tasks' \in [Slots -> Task]
    BY TasksType, Zenon
  <2>2. runs' \in [Slots -> Run]
    BY DEF TypeOK, Run, Task
  <2> QED  BY <2>1, <2>2, Zenon DEF TypeOK
<1>2. ClaimHasTask'
  BY DEF TypeOK, ClaimHasTask
<1>3. Drawn'
  <2>1. \A t \in Slots : tasks'[t].token <= issued
    BY DEF TypeOK, Drawn
  <2>2. \A t \in Slots : runs'[t].token <= issued
    BY DEF TypeOK, Drawn
  <2> QED  BY <2>1, <2>2, Zenon DEF Drawn
<1>4. RetriesPaid'
  <2>1. \A t \in Slots : Paid(tasks[t].token, tasks[t].retry)'
    BY DEF TypeOK, RetriesPaid, Paid
  <2>2. \A t \in Slots : Paid(runs[t].token, runs[t].retry)'
    BY DEF TypeOK, RetriesPaid, Paid
  <2> QED  BY <2>1, <2>2, Zenon DEF RetriesPaid, Paid
<1>5. HeldRows'
  BY Zenon DEF TypeOK, HeldRows, Holds
<1>6. OverIsOver'
  BY DEF TypeOK, OverIsOver, GivenUp, Over, Holds
<1>7. Named'
  <2>1. (\A t \in Slots : tasks[t].stage # "free" => tasks[t].token # 0)'
    BY DEF TypeOK, Named
  <2>2. (\A t \in Slots : runs[t].phase # "none" => runs[t].token # 0)'
    BY DEF TypeOK, Named
  <2> QED  BY <2>1, <2>2, Zenon DEF Named
<1>8. Linked'
  BY DEF TypeOK, Linked
<1> QED  BY <1>1, <1>2, <1>3, <1>4, <1>5, <1>6, <1>7, <1>8, Zenon

\* An exhausted answer is of the alarm its task claimed.
LEMMA AnswerInv ==
    ASSUME IInv, NEW s \in Slots, Answer(s)
    PROVE  IInv'
<1> USE CallerAssumption, BoundAssumption
    DEF IInv, Callers, Answer, FinishDelete, FinishDiscard, FinishReschedule,
      DropJob, Ended, AtStage, Replies, NoJob, NoAlarm, NoTask, NoRun, Owns
<1>1. TypeOK'
  <2>1. job' \in Job
    BY DEF TypeOK, Alarm, Job, Run, Task
  <2>2. tasks' \in [Slots -> Task]
    BY TasksType, Zenon
  <2>3. runs' \in [Slots -> Run]
    BY DEF TypeOK, Run
  <2> QED  BY <2>1, <2>2, <2>3, Zenon DEF TypeOK
<1>2. ClaimHasTask'
  BY DEF TypeOK, ClaimHasTask
<1>3. Drawn'
  BY DEF TypeOK, Drawn
<1>4. RetriesPaid'
  <2>1. runs[s].token = tasks[s].token
    BY Zenon DEF Linked
  <2>2. Paid(job.alarm.token, job.alarm.retry)'
    BY <2>1 DEF RetriesPaid, Paid
  <2>3. \A t \in Slots : Paid(tasks[t].token, tasks[t].retry)'
    BY DEF TypeOK, RetriesPaid, Paid
  <2>4. \A t \in Slots : Paid(runs[t].token, runs[t].retry)'
    BY Zenon DEF TypeOK, RetriesPaid, Paid
  <2> QED  BY <2>2, <2>3, <2>4, Zenon DEF RetriesPaid, Paid
<1>5. HeldRows'
  BY Zenon DEF TypeOK, HeldRows, Holds
<1>6. OverIsOver'
  <2>1. runs[s].token = tasks[s].token
    BY Zenon DEF Linked
  <2>2. \A k : GivenUp(k) => GivenUp(k)'
    BY Zenon DEF GivenUp, Over, Holds
  <2>3. (job.state = "discarding" => GivenUp(job.alarm.token))'
    BY <2>1, <2>2 DEF OverIsOver
  <2>4. (\A t \in Slots : runs[t].phase = "exhausted" => GivenUp(runs[t].token))'
    BY <2>2, Zenon DEF TypeOK, OverIsOver
  <2>5. (\A k \in done : Over(k))'
    BY Zenon DEF OverIsOver, Over, Holds
  <2> QED  BY <2>3, <2>4, <2>5, Zenon DEF OverIsOver
<1>7. Named'
  <2>1. (job.state # "absent" => job.alarm.token # 0)'
    BY DEF Named
  <2>2. (\A t \in Slots : tasks[t].stage # "free" => tasks[t].token # 0)'
    BY DEF TypeOK, Named
  <2>3. (\A t \in Slots : runs[t].phase # "none" => runs[t].token # 0)'
    BY Zenon DEF TypeOK, Named
  <2> QED  BY <2>1, <2>2, <2>3, Zenon DEF Named
<1>8. Linked'
  BY DEF TypeOK, Linked
<1> QED  BY <1>1, <1>2, <1>3, <1>4, <1>5, <1>6, <1>7, <1>8, Zenon

\* finish_discarding removes a row that is not claimed.
LEMMA FinishDiscardingInv ==
    ASSUME IInv, NEW s \in Slots, FinishDiscarding(s)
    PROVE  IInv'
<1> USE CallerAssumption, BoundAssumption
    DEF IInv, Callers, FinishDiscarding, DropJob, Ended, NoJob, NoAlarm,
      NoTask, Owns
<1>1. TypeOK'
  <2>1. job' \in Job
    BY DEF TypeOK, Alarm, Job
  <2>2. tasks' \in [Slots -> Task]
    BY TasksType, Zenon
  <2> QED  BY <2>1, <2>2, Zenon DEF TypeOK
<1>2. ClaimHasTask'
  BY DEF TypeOK, ClaimHasTask
<1>3. Drawn'
  <2>1. job'.alarm.token <= issued
    BY DEF TypeOK, Drawn
  <2>2. \A t \in Slots : tasks'[t].token <= issued
    BY DEF TypeOK, Drawn
  <2> QED  BY <2>1, <2>2, Zenon DEF Drawn
<1>4. RetriesPaid'
  BY DEF TypeOK, RetriesPaid, Paid
<1>5. HeldRows'
  BY Zenon DEF TypeOK, HeldRows, Holds
<1>6. OverIsOver'
  BY DEF TypeOK, OverIsOver, GivenUp, Over, Holds
<1>7. Named'
  BY DEF TypeOK, Named
<1>8. Linked'
  <2>1. \A t \in Slots :
          tasks'[t].stage = "free" \/ (tasks'[t].stage = tasks[t].stage /\ tasks'[t].token = tasks[t].token)
    BY DEF TypeOK
  <2> QED  BY <2>1, Zenon DEF Linked
<1> QED  BY <1>1, <1>2, <1>3, <1>4, <1>5, <1>6, <1>7, <1>8, Zenon

\* The task that ends claims nothing.
LEMMA DiscardingFailsInv ==
    ASSUME IInv, NEW s \in Slots, DiscardingFails(s)
    PROVE  IInv'
<1> USE CallerAssumption, BoundAssumption
    DEF IInv, Callers, DiscardingFails, Fault, Ended, NoTask, Owns
<1>1. TypeOK'
  <2>1. tasks' \in [Slots -> Task]
    BY DEF TypeOK, Task
  <2>2. faults' \in 0 .. MaxFaults
    BY DEF TypeOK
  <2> QED  BY <2>1, <2>2, Zenon DEF TypeOK
<1>2. ClaimHasTask'
  BY DEF ClaimHasTask
<1>3. Drawn'
  BY DEF TypeOK, Drawn
<1>4. RetriesPaid'
  BY Zenon DEF TypeOK, RetriesPaid, Paid
<1>5. HeldRows'
  BY Zenon DEF TypeOK, HeldRows, Holds
<1>6. OverIsOver'
  BY Zenon DEF TypeOK, OverIsOver, GivenUp, Over, Holds
<1>7. Named'
  BY Zenon DEF TypeOK, Named
<1>8. Linked'
  BY Zenon DEF TypeOK, Linked
<1> QED  BY <1>1, <1>2, <1>3, <1>4, <1>5, <1>6, <1>7, <1>8, Zenon

\* A task of unknown outcome keeps its claim.
LEMMA LoseInv ==
    ASSUME IInv, NEW s \in Slots, Lose(s)
    PROVE  IInv'
<1> USE CallerAssumption, BoundAssumption
    DEF IInv, Callers, Lose, Fault, AtStage, NoRun, Owns
<1>1. TypeOK'
  <2>1. tasks' \in [Slots -> Task]
    BY Zenon DEF TypeOK, Task
  <2>2. runs' \in [Slots -> Run]
    BY DEF TypeOK, Run
  <2>3. faults' \in 0 .. MaxFaults
    BY DEF TypeOK
  <2> QED  BY <2>1, <2>2, <2>3, Zenon DEF TypeOK
<1>2. ClaimHasTask'
  BY DEF ClaimHasTask
<1>3. Drawn'
  BY DEF TypeOK, Drawn
<1>4. RetriesPaid'
  BY DEF TypeOK, RetriesPaid, Paid
<1>5. HeldRows'
  BY Zenon DEF TypeOK, HeldRows, Holds
<1>6. OverIsOver'
  BY DEF TypeOK, OverIsOver, GivenUp, Over, Holds
<1>7. Named'
  BY DEF TypeOK, Named
<1>8. Linked'
  BY DEF TypeOK, Linked
<1> QED  BY <1>1, <1>2, <1>3, <1>4, <1>5, <1>6, <1>7, <1>8, Zenon

\* An answer nobody waits for.
LEMMA DropAnswerInv ==
    ASSUME IInv, NEW s \in Slots, DropAnswer(s)
    PROVE  IInv'
<1> USE CallerAssumption, BoundAssumption
    DEF IInv, Callers, DropAnswer, Replies, NoRun, Owns
<1>1. TypeOK'
  <2>1. runs' \in [Slots -> Run]
    BY DEF TypeOK, Run
  <2> QED  BY <2>1, Zenon DEF TypeOK
<1>2. ClaimHasTask'
  BY Zenon DEF ClaimHasTask
<1>3. Drawn'
  BY DEF TypeOK, Drawn
<1>4. RetriesPaid'
  BY Zenon DEF TypeOK, RetriesPaid, Paid
<1>5. HeldRows'
  BY Zenon DEF TypeOK, HeldRows, Holds
<1>6. OverIsOver'
  BY Zenon DEF TypeOK, OverIsOver, GivenUp, Over, Holds
<1>7. Named'
  BY Zenon DEF TypeOK, Named
<1>8. Linked'
  BY Zenon DEF TypeOK, Linked
<1> QED  BY <1>1, <1>2, <1>3, <1>4, <1>5, <1>6, <1>7, <1>8, Zenon

\* The task frees its claim or has lost it.
LEMMA RescheduleInv ==
    ASSUME IInv, NEW s \in Slots, Reschedule(s)
    PROVE  IInv'
<1> USE CallerAssumption, BoundAssumption
    DEF IInv, Callers, Reschedule, FinishReschedule, Ended, NoTask, Owns
<1>1. TypeOK'
  <2>1. job' \in Job
    BY DEF TypeOK, Alarm, Job, Task
  <2>2. tasks' \in [Slots -> Task]
    BY DEF TypeOK, Task
  <2> QED  BY <2>1, <2>2, Zenon DEF TypeOK
<1>2. ClaimHasTask'
  BY DEF ClaimHasTask
<1>3. Drawn'
  BY DEF TypeOK, Drawn
<1>4. RetriesPaid'
  BY Zenon DEF TypeOK, RetriesPaid, Paid
<1>5. HeldRows'
  BY Zenon DEF TypeOK, HeldRows, Holds
<1>6. OverIsOver'
  BY Zenon DEF TypeOK, OverIsOver, GivenUp, Over, Holds
<1>7. Named'
  BY Zenon DEF TypeOK, Named
<1>8. Linked'
  BY Zenon DEF TypeOK, Linked
<1> QED  BY <1>1, <1>2, <1>3, <1>4, <1>5, <1>6, <1>7, <1>8, Zenon

\* The store refused.
LEMMA RescheduleFailsInv ==
    ASSUME IInv, NEW s \in Slots, RescheduleFails(s)
    PROVE  IInv'
<1> USE CallerAssumption, BoundAssumption
    DEF IInv, Callers, RescheduleFails, Fault, Ended, NoTask, Owns
<1>1. TypeOK'
  <2>1. tasks' \in [Slots -> Task]
    BY DEF TypeOK, Task
  <2>2. refused' \in BOOLEAN
    BY Zenon DEF TypeOK
  <2>3. faults' \in 0 .. MaxFaults
    BY DEF TypeOK
  <2> QED  BY <2>1, <2>2, <2>3, Zenon DEF TypeOK
<1>2. ClaimHasTask'
  BY Zenon DEF ClaimHasTask
<1>3. Drawn'
  BY DEF TypeOK, Drawn
<1>4. RetriesPaid'
  BY Zenon DEF TypeOK, RetriesPaid, Paid
<1>5. HeldRows'
  BY Zenon DEF TypeOK, HeldRows, Holds
<1>6. OverIsOver'
  BY Zenon DEF TypeOK, OverIsOver, GivenUp, Over, Holds
<1>7. Named'
  BY Zenon DEF TypeOK, Named
<1>8. Linked'
  BY Zenon DEF TypeOK, Linked
<1> QED  BY <1>1, <1>2, <1>3, <1>4, <1>5, <1>6, <1>7, <1>8, Zenon

\* The row takes the retry count of the request.
LEMMA DeliverInv ==
    ASSUME IInv, NEW s \in Slots, Deliver(s)
    PROVE  IInv'
<1> USE CallerAssumption, BoundAssumption
    DEF IInv, Callers, Deliver, Reply, Owns
<1>1. TypeOK'
  <2>1. row' \in Row
    <3>1. row \in Row /\ runs[s] \in Run
      BY SlotTypes, Zenon
    <3>2. CASE row' = row
      BY <3>1, <3>2, Zenon
    <3>3. CASE row' = [token |-> row.token, wait |-> row.wait, retry |-> runs[s].retry,
                       inFlight |-> TRUE]
      BY <3>1, <3>3, Zenon DEF Row, Run
    <3> QED  BY <3>2, <3>3, Zenon
  <2>2. runs' \in [Slots -> Run]
    <3>1. row \in Row /\ runs[s] \in Run
      BY SlotTypes, Zenon
    <3> QED  BY <3>1 DEF TypeOK, Row, Run
  <2> QED  BY <2>1, <2>2, Zenon DEF TypeOK
<1>2. ClaimHasTask'
  BY Zenon DEF ClaimHasTask
<1>3. Drawn'
  BY DEF TypeOK, Drawn
<1>4. RetriesPaid'
  <2>1. Paid(row.token, row.retry)'
    BY DEF RetriesPaid, Paid
  <2>2. \A t \in Slots : Paid(runs[t].token, runs[t].retry)'
    <3>1. runs[s].token # 0 => failures[runs[s].token] \in Nat
      BY Counted DEF TypeOK, Run
    <3> QED  BY <3>1 DEF TypeOK, RetriesPaid, Paid
  <2> QED  BY <2>1, <2>2, Zenon DEF RetriesPaid, Paid
<1>5. HeldRows'
  BY DEF TypeOK, HeldRows, Holds
<1>6. OverIsOver'
  BY DEF TypeOK, OverIsOver, GivenUp, Over, Holds
<1>7. Named'
  BY DEF TypeOK, Named
<1>8. Linked'
  BY DEF TypeOK, Linked
<1> QED  BY <1>1, <1>2, <1>3, <1>4, <1>5, <1>6, <1>7, <1>8, Zenon

\* The refused task has an unknown outcome.
LEMMA DeliverRefusedInv ==
    ASSUME IInv, NEW s \in Slots, DeliverRefused(s)
    PROVE  IInv'
<1> USE CallerAssumption, BoundAssumption
    DEF IInv, Callers, DeliverRefused, AtStage, NoRun, Owns
<1>1. TypeOK'
  <2>1. tasks' \in [Slots -> Task]
    BY Zenon DEF TypeOK, Task
  <2>2. runs' \in [Slots -> Run]
    BY DEF TypeOK, Run
  <2> QED  BY <2>1, <2>2, Zenon DEF TypeOK
<1>2. ClaimHasTask'
  BY DEF ClaimHasTask
<1>3. Drawn'
  BY DEF TypeOK, Drawn
<1>4. RetriesPaid'
  BY Zenon DEF TypeOK, RetriesPaid, Paid
<1>5. HeldRows'
  BY Zenon DEF TypeOK, HeldRows, Holds
<1>6. OverIsOver'
  BY Zenon DEF TypeOK, OverIsOver, GivenUp, Over, Holds
<1>7. Named'
  BY Zenon DEF TypeOK, Named
<1>8. Linked'
  BY Zenon DEF TypeOK, Linked
<1> QED  BY <1>1, <1>2, <1>3, <1>4, <1>5, <1>6, <1>7, <1>8, Zenon

=============================================================================
