------------------------------- MODULE Alarms -------------------------------
(***************************************************************************)
(* The alarm of one Durable Object.                                        *)
(*                                                                         *)
(* The object's own SQLite row is the authority (alarm-shim.ts).  The      *)
(* scheduler keeps a copy of it in scheduled_jobs, claims the copy when it *)
(* is due and asks the object to run its handler.  Calls to the index, the *)
(* activation of the object, a periodic scan and the answers of deliveries *)
(* bring the copy up to date, each some time after it read the row.        *)
(*                                                                         *)
(* Every setAlarm draws a fresh row token; tokens are numbered in order    *)
(* and 0 stands for no row.  A time is the wait left, 0 or 1.  The id of a *)
(* scheduled_jobs row, new whenever the row is inserted, shows in whether  *)
(* a claim is still of the present row (`current`).                        *)
(***************************************************************************)
EXTENDS Naturals

CONSTANTS
    Slots,         \* deliveries that may be in flight
    Clients,       \* calls of the object's code that may be in flight
    Host,          \* the call of the activation
    MaxTokens,     \* bound on the alarms ever set
    MaxRetry,      \* 6 in the code
    MaxFailures,   \* bound on the failed runs of one alarm
    MaxFaults      \* bound on restarts, stopped hosts and lost answers

Callers == Slots \cup Clients \cup {Host}

ASSUME CallerAssumption ==
    /\ Host \notin Slots \cup Clients
    /\ Slots \cap Clients = {}

ASSUME BoundAssumption ==
    /\ MaxTokens \in Nat
    /\ MaxRetry \in Nat
    /\ MaxFailures \in Nat
    /\ MaxFaults \in Nat

VARIABLES
    row,           \* the object's alarm row
    job,           \* its scheduled_jobs row
    tasks,         \* dispatch_one, by slot
    runs,          \* what the object does about each delivery
    calls,         \* index requests in flight, by caller
    probe,         \* the scan's answer not yet applied
    host,          \* whether the object is loaded
    live,          \* whether the control plane still authorizes the object
    issued,        \* tokens drawn so far
    failures,      \* failed runs of each alarm
    done,          \* alarms whose successful run removed their row
    refused,       \* whether the store ever refused to record an unknown outcome
    faults

vars == <<row, job, tasks, runs, calls, probe, host, live, issued, failures,
          done, refused, faults>>

Tokens == 1 .. MaxTokens

Alarm == [token : 0 .. MaxTokens, wait : 0 .. 1, retry : 0 .. MaxRetry]

Row == [token : 0 .. MaxTokens, wait : 0 .. 1, retry : 0 .. MaxRetry,
        inFlight : BOOLEAN]

Job == [state : {"absent", "scheduled", "claimed", "discarding"}, alarm : Alarm]

Task == [stage : {"free", "claimed", "authorized", "dispatched", "unknown",
                  "discarding"},
         token : 0 .. MaxTokens, retry : 0 .. MaxRetry, current : BOOLEAN]

Run == [phase : {"none", "requested", "running", "upserting", "success", "stale",
                 "notDue", "exhausted", "retry"},
        token : 0 .. MaxTokens, wait : 0 .. 1, retry : 0 .. MaxRetry]

\* `saved` is the row a call read before it changed it.
Call == [kind : {"free", "set", "delete", "flush", "deleteAll", "retry", "activate"},
         op : {"upsert", "delete", "clear"},
         stage : {"sent", "authorized", "answered"},
         saved : Row]

Probe == [pending : BOOLEAN, alarm : Alarm]

TypeOK ==
    /\ row \in Row
    /\ job \in Job
    /\ tasks \in [Slots -> Task]
    /\ runs \in [Slots -> Run]
    /\ calls \in [Callers -> Call]
    /\ probe \in Probe
    /\ host \in {"down", "activating", "up"}
    /\ live \in BOOLEAN
    /\ issued \in 0 .. MaxTokens
    /\ failures \in [Tokens -> 0 .. MaxFailures]
    /\ done \subseteq Tokens
    /\ refused \in BOOLEAN
    /\ faults \in 0 .. MaxFaults

NoAlarm == [token |-> 0, wait |-> 0, retry |-> 0]

NoRow == [token |-> 0, wait |-> 0, retry |-> 0, inFlight |-> FALSE]

NoJob == [state |-> "absent", alarm |-> NoAlarm]

NoTask == [stage |-> "free", token |-> 0, retry |-> 0, current |-> FALSE]

NoRun == [phase |-> "none", token |-> 0, wait |-> 0, retry |-> 0]

NoCall == [kind |-> "free", op |-> "clear", stage |-> "sent", saved |-> NoRow]

Init ==
    /\ row = NoRow
    /\ job = NoJob
    /\ tasks = [s \in Slots |-> NoTask]
    /\ runs = [s \in Slots |-> NoRun]
    /\ calls = [c \in Callers |-> NoCall]
    /\ probe = [pending |-> FALSE, alarm |-> NoAlarm]
    /\ host = "down"
    /\ live = TRUE
    /\ issued = 0
    /\ failures = [k \in Tokens |-> 0]
    /\ done = {}
    /\ refused = FALSE
    /\ faults = 0

-----------------------------------------------------------------------------
(* The scheduled_jobs row.                                                 *)

\* AlarmProjection: the part of the row that is copied.
Projected(r) == [token |-> r.token, wait |-> r.wait, retry |-> r.retry]

\* upsert_alarm clears a claim and keeps the row's id.
UpsertAlarm(a) ==
    /\ job' = [state |-> "scheduled", alarm |-> a]
    /\ UNCHANGED tasks

\* No claim is of the present row any more.
DropJob(ts) ==
    /\ job' = NoJob
    /\ tasks' = [s \in Slots |->
          [stage |-> ts[s].stage, token |-> ts[s].token, retry |-> ts[s].retry,
           current |-> FALSE]]

\* delete_alarm_exact.
DeleteAlarmExact(k) ==
    IF job.alarm.token = k THEN DropJob(tasks) ELSE UNCHANGED <<job, tasks>>

\* The fence of finish_claim and retarget_claim: id, state and row token.
Owns(s) ==
    /\ tasks[s].stage \in {"claimed", "authorized", "dispatched", "unknown"}
    /\ tasks[s].current
    /\ job.state = "claimed"
    /\ tasks[s].token = job.alarm.token

Fault == faults < MaxFaults /\ faults' = faults + 1

Ended(s) == [tasks EXCEPT ![s] = NoTask]

AtStage(s, stage) ==
    [tasks EXCEPT ![s] = [stage |-> stage, token |-> tasks[s].token,
                          retry |-> tasks[s].retry, current |-> tasks[s].current]]

-----------------------------------------------------------------------------
(* The object's code and its calls to the index.                           *)

Post(c, kind, op, saved) ==
    /\ calls[c].kind = "free"
    /\ calls' = [calls EXCEPT ![c] = [kind |-> kind, op |-> op, stage |-> "sent",
                                      saved |-> saved]]

\* setAlarm, in a transaction ("flush") or not.
SetAlarm(c, wait, kind) ==
    /\ host = "up" /\ issued < MaxTokens
    /\ LET r == [token |-> issued + 1, wait |-> wait, retry |-> 0, inFlight |-> FALSE]
       IN row' = r /\ Post(c, kind, "upsert", r)
    /\ issued' = issued + 1
    /\ UNCHANGED <<job, tasks, runs, probe, host, live, failures, done, refused, faults>>

DeleteLater(c, kind) ==
    /\ host = "up" /\ row.token # 0
    /\ Post(c, kind, "delete", row)
    /\ UNCHANGED <<row, job, tasks, runs, probe, host, live, issued, failures, done, refused, faults>>

\* deleteAlarm, in a transaction ("flush") or not.
DeleteAlarm(c, kind) ==
    /\ host = "up" /\ row.token # 0
    /\ row' = NoRow
    /\ Post(c, kind, "delete", row)
    /\ UNCHANGED <<job, tasks, runs, probe, host, live, issued, failures, done, refused, faults>>

\* getAlarm refreshes the index with what it read.
GetAlarm(c) ==
    /\ host = "up" /\ row.token # 0 /\ ~row.inFlight
    /\ Post(c, "flush", "upsert", row)
    /\ UNCHANGED <<row, job, tasks, runs, probe, host, live, issued, failures, done, refused, faults>>

\* deleteAll first removes the copy; Return removes the row.
DeleteAll(c) ==
    /\ host = "up"
    /\ Post(c, "deleteAll", IF row.token # 0 THEN "delete" ELSE "clear", row)
    /\ UNCHANGED <<row, job, tasks, runs, probe, host, live, issued, failures, done, refused, faults>>

\* activateDurableObjectAlarm, before the object takes any other event.
Activate ==
    /\ host = "down" /\ live
    /\ host' = "activating"
    /\ Post(Host, "activate", IF row.token # 0 THEN "upsert" ELSE "clear", row)
    /\ UNCHANGED <<row, job, tasks, runs, probe, live, issued, failures, done, refused, faults>>

-----------------------------------------------------------------------------
(* handle_alarm_index.                                                     *)

CallAt(c, stage) ==
    [calls EXCEPT ![c] = [kind |-> calls[c].kind, op |-> calls[c].op,
                          stage |-> stage, saved |-> calls[c].saved]]

\* The object's authority is read before the store is written.
AuthorizeCall(c) ==
    /\ calls[c].kind # "free" /\ calls[c].stage = "sent"
    /\ live
    /\ calls' = CallAt(c, "authorized")
    /\ UNCHANGED <<row, job, tasks, runs, probe, host, live, issued, failures, done, refused, faults>>

ApplyTo(c) ==
    CASE calls[c].op = "upsert" -> UpsertAlarm(Projected(calls[c].saved))
      [] calls[c].op = "delete" -> DeleteAlarmExact(calls[c].saved.token)
      [] OTHER -> DropJob(tasks)

\* The callers that go on to something else learn the answer later.
ApplyCall(c) ==
    /\ calls[c].kind # "free" /\ calls[c].stage = "authorized"
    /\ ApplyTo(c)
    /\ calls' = IF calls[c].kind \in {"deleteAll", "retry", "activate"}
                THEN CallAt(c, "answered") ELSE [calls EXCEPT ![c] = NoCall]
    /\ UNCHANGED <<row, runs, probe, host, live, issued, failures, done, refused, faults>>

\* The answer to setAlarm or deleteAlarm is lost; CallFails follows.
ApplyUnanswered(c) ==
    /\ Fault
    /\ calls[c].kind \in {"set", "delete"} /\ calls[c].stage = "authorized"
    /\ ApplyTo(c)
    /\ calls' = CallAt(c, "answered")
    /\ UNCHANGED <<row, runs, probe, host, live, issued, failures, done, refused>>

\* A delivery and the activation go on whether or not their call succeeded.
Resume(c) ==
    /\ runs' = IF calls[c].kind = "retry"
               THEN [runs EXCEPT ![c] = [phase |-> "retry", token |-> runs[c].token,
                                         wait |-> runs[c].wait, retry |-> runs[c].retry]]
               ELSE runs
    /\ host' = IF calls[c].kind = "activate" THEN "up" ELSE host

\* A call that succeeded.
Return(c) ==
    /\ calls[c].kind \in {"deleteAll", "retry", "activate"} /\ calls[c].stage = "answered"
    /\ Resume(c)
    /\ row' = IF calls[c].kind = "deleteAll" THEN NoRow ELSE row
    /\ calls' = [calls EXCEPT ![c] = NoCall]
    /\ UNCHANGED <<job, tasks, probe, live, issued, failures, done, refused, faults>>

\* Mutant: the token is not compared.
DeleteAny(k) == NoRow

\* exactDelete
ExactDelete(k) == IF row.token = k THEN NoRow ELSE row

\* restoreIfAbsent
RestoreIfAbsent(r) == IF row.token = 0 THEN r ELSE row

\* What is left of a request once nobody waits for its answer.
Abandoned(c) ==
    [kind |-> "flush", op |-> calls[c].op, stage |-> calls[c].stage,
     saved |-> calls[c].saved]

\* A call that was refused, or whose answer was lost: the request may then still
\* be on its way.  setAlarm takes its row back and deleteAlarm puts the row it
\* removed back; the others leave the row alone.
CallFails(c) ==
    /\ calls[c].kind # "free"
    /\ calls[c].stage # "answered" \/ calls[c].kind \in {"set", "delete"}
    /\ Resume(c)
    /\ row' = CASE calls[c].kind = "set" -> ExactDelete(calls[c].saved.token)
                [] calls[c].kind = "delete" -> RestoreIfAbsent(calls[c].saved)
                [] OTHER -> row
    /\ \/ calls' = [calls EXCEPT ![c] = NoCall] /\ UNCHANGED faults
       \/ /\ Fault
          /\ calls[c].stage # "answered"
          /\ calls' = [calls EXCEPT ![c] = Abandoned(c)]
    /\ UNCHANGED <<job, tasks, probe, live, issued, failures, done, refused>>

\* The storage transaction of deleteAll fails: the copy is put back.
DeleteAllFails(c) ==
    /\ calls[c].kind = "deleteAll" /\ calls[c].stage = "answered"
    /\ calls' = [calls EXCEPT ![c] =
          IF calls[c].saved.token = 0 THEN NoCall
          ELSE [kind |-> "flush", op |-> "upsert", stage |-> "sent",
                saved |-> calls[c].saved]]
    /\ UNCHANGED <<row, job, tasks, runs, probe, host, live, issued, failures, done, refused, faults>>

-----------------------------------------------------------------------------
(* Deliveries: the scheduler's side.                                       *)

\* The loop that claims also runs the scan, and waits for it.
Claim(s) ==
    /\ tasks[s].stage = "free" /\ runs[s].phase = "none"
    /\ ~probe.pending
    /\ job.state = "scheduled" /\ job.alarm.wait = 0
    /\ job' = [state |-> "claimed", alarm |-> job.alarm]
    /\ tasks' = [tasks EXCEPT ![s] =
          [stage |-> "claimed", token |-> job.alarm.token,
           retry |-> job.alarm.retry, current |-> TRUE]]
    /\ UNCHANGED <<row, runs, calls, probe, host, live, issued, failures, done, refused, faults>>

\* finish_claim with ClaimResult::Delete, MarkDiscarding or Reschedule; the task
\* goes on whether or not the fence let it through.
FinishDelete(s) ==
    IF Owns(s) THEN DropJob(Ended(s)) ELSE UNCHANGED job /\ tasks' = Ended(s)

FinishDiscard(s) ==
    IF Owns(s) THEN /\ job' = [state |-> "discarding", alarm |-> job.alarm]
                    /\ tasks' = AtStage(s, "discarding")
               ELSE UNCHANGED job /\ tasks' = Ended(s)

FinishReschedule(s, wait, retry) ==
    /\ tasks' = Ended(s)
    /\ job' = IF Owns(s)
              THEN [state |-> "scheduled",
                    alarm |-> [token |-> job.alarm.token, wait |-> wait, retry |-> retry]]
              ELSE job

\* The claim is dropped when the object lost its authority.
Authorize(s) ==
    /\ tasks[s].stage = "claimed"
    /\ IF live THEN UNCHANGED job /\ tasks' = AtStage(s, "authorized")
               ELSE FinishDelete(s)
    /\ UNCHANGED <<row, runs, calls, probe, host, live, issued, failures, done, refused, faults>>

\* retarget_claim, and the request to the object if the claim still stands.
Retarget(s) ==
    /\ tasks[s].stage = "authorized"
    /\ IF Owns(s)
       THEN /\ tasks' = AtStage(s, "dispatched")
            /\ runs' = [runs EXCEPT ![s] =
                  [phase |-> "requested", token |-> tasks[s].token, wait |-> 0,
                   retry |-> tasks[s].retry]]
       ELSE tasks' = Ended(s) /\ UNCHANGED runs
    /\ UNCHANGED <<row, job, calls, probe, host, live, issued, failures, done, refused, faults>>

Replies == {"success", "stale", "notDue", "exhausted", "retry"}

Answer(s) ==
    /\ tasks[s].stage = "dispatched" /\ runs[s].phase \in Replies
    /\ \/ runs[s].phase \in {"success", "stale"} /\ FinishDelete(s)
       \/ runs[s].phase = "exhausted" /\ FinishDiscard(s)
       \/ /\ runs[s].phase \in {"notDue", "retry"}
          /\ FinishReschedule(s, runs[s].wait, runs[s].retry)
    /\ runs' = [runs EXCEPT ![s] = NoRun]
    /\ UNCHANGED <<row, calls, probe, host, live, issued, failures, done, refused, faults>>

FinishDiscarding(s) ==
    /\ tasks[s].stage = "discarding"
    /\ IF job.state = "discarding" /\ tasks[s].current /\ tasks[s].token = job.alarm.token
       THEN DropJob(Ended(s))
       ELSE UNCHANGED job /\ tasks' = Ended(s)
    /\ UNCHANGED <<row, runs, calls, probe, host, live, issued, failures, done, refused, faults>>

\* Any step of the delivery fails: its answer is late, or a store call errs.
\* The handler is cancelled or runs on.
Lose(s) ==
    /\ Fault
    /\ tasks[s].stage \in {"claimed", "authorized", "dispatched"}
    /\ tasks' = AtStage(s, "unknown")
    /\ \/ UNCHANGED runs
       \/ runs[s].phase # "upserting" /\ runs' = [runs EXCEPT ![s] = NoRun]
    /\ UNCHANGED <<row, job, calls, probe, host, live, issued, failures, done, refused>>

\* The object answers a task that gave up.
DropAnswer(s) ==
    /\ tasks[s].stage # "dispatched" /\ runs[s].phase \in Replies
    /\ runs' = [runs EXCEPT ![s] = NoRun]
    /\ UNCHANGED <<row, job, tasks, calls, probe, host, live, issued, failures, done, refused, faults>>

\* The end of dispatch_one after an unknown outcome: due at once, as claimed.
Reschedule(s) ==
    /\ tasks[s].stage = "unknown"
    /\ FinishReschedule(s, 0, tasks[s].retry)
    /\ UNCHANGED <<row, runs, calls, probe, host, live, issued, failures, done, refused, faults>>

\* "Alarm unknown outcome could not be recorded".
RescheduleFails(s) ==
    /\ Fault
    /\ tasks[s].stage = "unknown"
    /\ tasks' = Ended(s)
    /\ refused' = TRUE
    /\ UNCHANGED <<row, job, runs, calls, probe, host, live, issued, failures, done>>

\* "scheduler exhausted alarm projection cleanup failed".
DiscardingFails(s) ==
    /\ Fault
    /\ tasks[s].stage = "discarding"
    /\ tasks' = Ended(s)
    /\ UNCHANGED <<row, job, runs, calls, probe, host, live, issued, failures, done, refused>>

-----------------------------------------------------------------------------
(* Deliveries: dispatchDurableObjectAlarm.                                 *)

Reply(s, phase, wait, retry) ==
    runs' = [runs EXCEPT ![s] = [phase |-> phase, token |-> runs[s].token,
                                 wait |-> wait, retry |-> retry]]

Deliver(s) ==
    /\ host = "up" /\ live
    /\ runs[s].phase = "requested"
    /\ IF row.token # runs[s].token THEN Reply(s, "stale", 0, 0) /\ UNCHANGED row
       ELSE IF row.wait > 0 THEN Reply(s, "notDue", row.wait, row.retry) /\ UNCHANGED row
       ELSE /\ Reply(s, "running", 0, runs[s].retry)
            /\ row' = [token |-> row.token, wait |-> row.wait,
                       retry |-> runs[s].retry, inFlight |-> TRUE]
    /\ UNCHANGED <<job, tasks, calls, probe, host, live, issued, failures, done, refused, faults>>

\* The router resolves the authority again and refuses.
DeliverRefused(s) ==
    /\ ~live
    /\ runs[s].phase = "requested"
    /\ runs' = [runs EXCEPT ![s] = NoRun]
    /\ tasks' = IF tasks[s].stage = "dispatched" THEN AtStage(s, "unknown") ELSE tasks
    /\ UNCHANGED <<row, job, calls, probe, host, live, issued, failures, done, refused, faults>>

HandlerSucceeds(s) ==
    /\ runs[s].phase = "running"
    /\ row' = ExactDelete(runs[s].token)
    /\ done' = IF row.token = runs[s].token THEN done \cup {row.token} ELSE done
    /\ Reply(s, "success", 0, 0)
    /\ UNCHANGED <<job, tasks, calls, probe, host, live, issued, failures, refused, faults>>

Failed(k) == failures' = [failures EXCEPT ![k] = failures[k] + 1]

\* The handler threw and its alarm was replaced or deleted meanwhile.
HandlerThrowsStale(s) ==
    /\ runs[s].phase = "running"
    /\ row.token # runs[s].token
    /\ Reply(s, "stale", 0, 0)
    /\ UNCHANGED <<row, job, tasks, calls, probe, host, live, issued, failures, done, refused, faults>>

ExhaustsKeepsRow(s) ==
    /\ runs[s].phase = "running"
    /\ row.token = runs[s].token
    /\ runs[s].retry >= MaxRetry
    /\ failures[row.token] < MaxFailures /\ Failed(row.token)
    /\ Reply(s, "exhausted", 0, 0)
    /\ UNCHANGED <<row, job, tasks, calls, probe, host, live, issued, done, refused, faults>>

HandlerExhausts(s) ==
    /\ runs[s].phase = "running"
    /\ row.token = runs[s].token
    /\ runs[s].retry >= MaxRetry
    /\ failures[row.token] < MaxFailures /\ Failed(row.token)
    /\ row' = NoRow
    /\ Reply(s, "exhausted", 0, 0)
    /\ UNCHANGED <<job, tasks, calls, probe, host, live, issued, done, refused, faults>>

HandlerRetries(s) ==
    /\ runs[s].phase = "running"
    /\ row.token = runs[s].token
    /\ runs[s].retry < MaxRetry
    /\ failures[row.token] < MaxFailures /\ Failed(row.token)
    /\ LET r == [token |-> row.token, wait |-> 1, retry |-> runs[s].retry + 1,
                 inFlight |-> FALSE]
       IN /\ row' = r
          /\ Reply(s, "upserting", r.wait, r.retry)
          /\ Post(s, "retry", "upsert", r)
    /\ UNCHANGED <<job, tasks, probe, host, live, issued, done, refused, faults>>

-----------------------------------------------------------------------------
(* The scan, faults and time.                                              *)

\* repair_object reads the object's row ...
ProbeObject ==
    /\ ~probe.pending /\ live /\ host = "up"
    /\ probe' = [pending |-> TRUE, alarm |-> Projected(row)]
    /\ UNCHANGED <<row, job, tasks, runs, calls, host, live, issued, failures, done, refused, faults>>

RepairDeletes ==
    /\ probe.pending
    /\ IF probe.alarm.token # 0 THEN UNCHANGED <<job, tasks>> ELSE DropJob(tasks)
    /\ probe' = [pending |-> FALSE, alarm |-> NoAlarm]
    /\ UNCHANGED <<row, runs, calls, host, live, issued, failures, done, refused, faults>>

RepairUpserts ==
    /\ probe.pending
    /\ IF probe.alarm.token # 0 THEN UpsertAlarm(probe.alarm) ELSE UNCHANGED <<job, tasks>>
    /\ probe' = [pending |-> FALSE, alarm |-> NoAlarm]
    /\ UNCHANGED <<row, runs, calls, host, live, issued, failures, done, refused, faults>>

\* ... and apply_repair writes what it said then.
ApplyRepair ==
    /\ probe.pending
    /\ IF probe.alarm.token # 0 THEN UpsertAlarm(probe.alarm) ELSE DropJob(tasks)
    /\ probe' = [pending |-> FALSE, alarm |-> NoAlarm]
    /\ UNCHANGED <<row, runs, calls, host, live, issued, failures, done, refused, faults>>

\* The object's isolate ends: a new version, an abort, the runtime's death.
\* Requests already sent still arrive, with nobody waiting for them.
HostStops ==
    /\ Fault
    /\ host # "down"
    /\ host' = "down"
    /\ runs' = [s \in Slots |-> NoRun]
    /\ tasks' = [s \in Slots |->
          IF tasks[s].stage = "dispatched"
          THEN [stage |-> "unknown", token |-> tasks[s].token,
                retry |-> tasks[s].retry, current |-> tasks[s].current]
          ELSE tasks[s]]
    /\ calls' = [c \in Callers |->
          IF calls[c].kind = "free" \/ calls[c].stage = "answered" THEN NoCall
          ELSE Abandoned(c)]
    /\ UNCHANGED <<row, job, probe, live, issued, failures, done, refused>>

RestartKeepsClaim ==
    /\ Fault
    /\ tasks' = [s \in Slots |-> NoTask]
    /\ runs' = [s \in Slots |-> NoRun]
    /\ calls' = [c \in Callers |-> NoCall]
    /\ probe' = [pending |-> FALSE, alarm |-> NoAlarm]
    /\ host' = "down"
    /\ UNCHANGED <<row, job, live, issued, failures, done, refused>>

\* The daemon dies with its runtime, and reset_claims frees the claim.
Restart ==
    /\ Fault
    /\ job' = IF job.state = "claimed"
              THEN [state |-> "scheduled", alarm |-> job.alarm] ELSE job
    /\ tasks' = [s \in Slots |-> NoTask]
    /\ runs' = [s \in Slots |-> NoRun]
    /\ calls' = [c \in Callers |-> NoCall]
    /\ probe' = [pending |-> FALSE, alarm |-> NoAlarm]
    /\ host' = "down"
    /\ UNCHANGED <<row, live, issued, failures, done, refused>>

\* The Worker or its namespace is deleted.
Retire ==
    /\ live
    /\ live' = FALSE
    /\ UNCHANGED <<row, job, tasks, runs, calls, probe, host, issued, failures, done, refused, faults>>

Due(a) == [token |-> a.token, wait |-> 0, retry |-> a.retry]

DueRow(r) == [token |-> r.token, wait |-> 0, retry |-> r.retry, inFlight |-> r.inFlight]

Tick ==
    /\ row' = DueRow(row)
    /\ job' = [state |-> job.state, alarm |-> Due(job.alarm)]
    /\ runs' = [s \in Slots |-> [phase |-> runs[s].phase, token |-> runs[s].token,
                                 wait |-> 0, retry |-> runs[s].retry]]
    /\ calls' = [c \in Callers |->
          [kind |-> calls[c].kind, op |-> calls[c].op, stage |-> calls[c].stage,
           saved |-> DueRow(calls[c].saved)]]
    /\ probe' = [pending |-> probe.pending, alarm |-> Due(probe.alarm)]
    /\ UNCHANGED <<tasks, host, live, issued, failures, done, refused, faults>>

-----------------------------------------------------------------------------
Client(c) ==
    \/ \E wait \in 0 .. 1, kind \in {"set", "flush"} : SetAlarm(c, wait, kind)
    \/ \E kind \in {"delete", "flush"} : DeleteAlarm(c, kind)
    \/ GetAlarm(c)
    \/ DeleteAll(c)

Index(c) ==
    \/ AuthorizeCall(c) \/ ApplyCall(c) \/ ApplyUnanswered(c) \/ Return(c)
    \/ CallFails(c) \/ DeleteAllFails(c)

Handler(s) ==
    \/ HandlerSucceeds(s) \/ HandlerThrowsStale(s) \/ HandlerExhausts(s) \/ HandlerRetries(s)

Delivery(s) ==
    \/ Claim(s) \/ Authorize(s) \/ Retarget(s) \/ Deliver(s) \/ DeliverRefused(s)
    \/ Handler(s) \/ Answer(s) \/ DropAnswer(s) \/ FinishDiscarding(s)
    \/ DiscardingFails(s) \/ Lose(s) \/ Reschedule(s) \/ RescheduleFails(s)

Next ==
    \/ \E c \in Clients : Client(c)
    \/ \E c \in Callers : Index(c)
    \/ \E s \in Slots : Delivery(s)
    \/ Activate \/ ProbeObject \/ ApplyRepair
    \/ HostStops \/ Restart \/ Retire \/ Tick

Spec == Init /\ [][Next]_vars

\* Every step a task, a request or the loop takes by itself is taken.  The way
\* from a claim to its dispatch takes two store calls, the scan comes every
\* repair_interval_ms and the object's calls are not a busy loop, so these do not
\* preempt every claim.
FairSpec ==
    /\ Spec
    /\ WF_vars(Activate) /\ WF_vars(ProbeObject) /\ WF_vars(ApplyRepair) /\ WF_vars(Tick)
    /\ \A c \in Callers :
          WF_vars(AuthorizeCall(c)) /\ WF_vars(ApplyCall(c)) /\ WF_vars(Return(c) \/ DeleteAllFails(c))
    /\ \A s \in Slots :
          /\ WF_vars(Authorize(s)) /\ WF_vars(Deliver(s) \/ DeliverRefused(s))
          /\ WF_vars(Handler(s)) /\ WF_vars(Answer(s)) /\ WF_vars(DropAnswer(s))
          /\ WF_vars(FinishDiscarding(s)) /\ WF_vars(Reschedule(s))
          /\ SF_vars(Claim(s)) /\ WF_vars(Retarget(s))
          /\ SF_vars(Owns(s) /\ Authorize(s)) /\ SF_vars(Owns(s) /\ Retarget(s))

-----------------------------------------------------------------------------
(* Properties.                                                             *)

\* A claimed row is some running task's to finish, whatever upserts, deletes
\* and other claims came between: no claim is stranded.  The exception is the
\* store refusing to record an unknown outcome, which the scan makes good.
ClaimHasTask ==
    job.state = "claimed" => refused \/ \E s \in Slots : Owns(s)

\* A copy on its way out belongs to an alarm its object has given up, after the
\* first run and MaxRetry retries of it had all failed: neither lost answers nor
\* restarts use up retries.
DiscardedWasTried ==
    job.state = "discarding" =>
        /\ row.token # job.alarm.token
        /\ failures[job.alarm.token] > MaxRetry

\* An alarm whose successful run removed its row never comes back, although
\* deleteAlarm restores what it removed when the index refuses.
DoneStaysDone == row.token \notin done

\* At-least-once: an alarm that is set ends, by a successful run, by exhausting
\* its retries, or because it was deleted, replaced or retired.
AlarmEnds ==
    \A k \in Tokens : row.token = k /\ live ~> row.token # k \/ ~live

\* A copy of an alarm the object no longer has goes away, also one that arrived
\* out of order.
GhostVanishes ==
    \A k \in Tokens :
        job.alarm.token = k /\ row.token # k /\ live ~> job.alarm.token # k \/ row.token = k \/ ~live

\* How far an alarm is, read from the object's row and the calls in flight.
AlarmStage(k) ==
    CASE k > issued -> "unset"
      [] k = row.token -> "armed"
      [] k \in done -> "done"
      [] \E c \in Callers : calls[c].kind = "delete" /\ calls[c].saved.token = k -> "taken"
      [] OTHER -> "ended"

AlarmStages == [k \in Tokens |-> AlarmStage(k)]

\* What a call of the object in flight asks for.
Asked(c) ==
    LET ask(kind) == [kind |-> kind, token |-> calls[c].saved.token]
    IN CASE calls[c].kind \in {"set", "delete"} -> ask(calls[c].kind)
         [] calls[c].kind = "deleteAll" -> ask("clear")
         [] calls[c].kind = "flush" /\ calls[c].op = "delete" -> ask("forget")
         [] OTHER -> [kind |-> "none", token |-> 0]

Asks == [c \in Callers |-> Asked(c)]

Contract ==
    INSTANCE AlarmContract WITH
        stage <- AlarmStages, failed <- failures, asks <- Asks

\* The object and the scheduler implement AlarmContract: late answers, stale
\* copies, restored rows, two deliveries of one alarm and restarts neither end an
\* alarm its object still wants before its retries have failed, nor bring one
\* back that is over.
KeepsAlarmContract == Contract!Spec

=============================================================================
