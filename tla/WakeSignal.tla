----------------------------- MODULE WakeSignal -----------------------------
(***************************************************************************)
(* SchedulerWakeSignal (storage/src/scheduler/wake.rs): a generation       *)
(* counter that is bumped outside the mutex, and a mutex-guarded map of    *)
(* wakers.  A notifier bumps, then takes the map, then wakes what it took. *)
(* A waiter polls: it compares the generation, takes the mutex, compares   *)
(* again and leaves its waker.                                             *)
(*                                                                         *)
(* A task that is woken while it is being polled is polled once more;      *)
(* `woken` is that flag of the executor.                                   *)
(***************************************************************************)
EXTENDS Naturals

CONSTANTS
    Notifiers,     \* threads that commit a mutation and call notify()
    Waiters,       \* tasks that wait
    Nobody,        \* the free mutex
    MaxGeneration  \* bound on the notifications

ASSUME GenerationAssumption == MaxGeneration \in Nat

ASSUME OwnerAssumption == Nobody \notin Waiters

VARIABLES
    generation,    \* AtomicU64
    waiters,       \* owners of the registered wakers
    mutex,         \* who holds it across two steps
    notifier,      \* where each notify() is
    taken,         \* wakers it took and has not called yet
    phase,         \* where each wait is
    observed,      \* the generation its owner read
    woken          \* the executor owes the task another poll

vars == <<generation, waiters, mutex, notifier, taken, phase, observed, woken>>

Init ==
    /\ generation = 0
    /\ waiters = {}
    /\ mutex = Nobody
    /\ notifier = [n \in Notifiers |-> "idle"]
    /\ taken = [n \in Notifiers |-> {}]
    /\ phase = [w \in Waiters |-> "idle"]
    /\ observed = [w \in Waiters |-> 0]
    /\ woken = [w \in Waiters |-> FALSE]

-----------------------------------------------------------------------------
(* notify *)

Bump(n) ==
    /\ notifier[n] = "idle"
    /\ generation < MaxGeneration
    /\ generation' = generation + 1
    /\ notifier' = [notifier EXCEPT ![n] = "bumped"]
    /\ UNCHANGED <<waiters, mutex, taken, phase, observed, woken>>

Take(n) ==
    /\ notifier[n] = "bumped"
    /\ mutex = Nobody
    /\ taken' = [taken EXCEPT ![n] = waiters]
    /\ waiters' = {}
    /\ notifier' = [notifier EXCEPT ![n] = "waking"]
    /\ UNCHANGED <<generation, mutex, phase, observed, woken>>

Wake(n, w) ==
    /\ notifier[n] = "waking"
    /\ w \in taken[n]
    /\ taken' = [taken EXCEPT ![n] = @ \ {w}]
    /\ woken' = [woken EXCEPT ![w] = TRUE]
    /\ UNCHANGED <<generation, waiters, mutex, notifier, phase, observed>>

Return(n) ==
    /\ notifier[n] = "waking"
    /\ taken[n] = {}
    /\ notifier' = [notifier EXCEPT ![n] = "idle"]
    /\ UNCHANGED <<generation, waiters, mutex, taken, phase, observed, woken>>

-----------------------------------------------------------------------------
(* the wait *)

\* The owner reads the generation, then the store.
Observe(w) ==
    /\ phase[w] \in {"idle", "notified"}
    /\ phase' = [phase EXCEPT ![w] = "observing"]
    /\ observed' = [observed EXCEPT ![w] = generation]
    /\ UNCHANGED <<generation, waiters, mutex, notifier, taken, woken>>

NotifiedSince(w) ==
    /\ phase[w] = "observing"
    /\ phase' = [phase EXCEPT ![w] = "poll"]
    /\ UNCHANGED <<generation, waiters, mutex, notifier, taken, observed, woken>>

\* A poll that finds another generation answers, taking its waker back.
Answered(w) ==
    /\ phase' = [phase EXCEPT ![w] = "notified"]
    /\ waiters' = waiters \ {w}
    /\ UNCHANGED mutex

\* Poll, but any poll after a wake-up answers.
PollTrusting(w) ==
    /\ phase[w] = "poll"
    /\ woken' = [woken EXCEPT ![w] = FALSE]
    /\ \/ /\ woken[w]
          /\ w \in waiters => mutex = Nobody
          /\ Answered(w)
       \/ /\ ~woken[w]
          /\ phase' = [phase EXCEPT ![w] = "lock"]
          /\ UNCHANGED <<waiters, mutex>>
    /\ UNCHANGED <<generation, notifier, taken, observed>>

Poll(w) ==
    /\ phase[w] = "poll"
    /\ woken' = [woken EXCEPT ![w] = FALSE]
    /\ \/ /\ generation # observed[w]
          /\ w \in waiters => mutex = Nobody
          /\ Answered(w)
       \/ /\ generation = observed[w]
          /\ phase' = [phase EXCEPT ![w] = "lock"]
          /\ UNCHANGED <<waiters, mutex>>
    /\ UNCHANGED <<generation, notifier, taken, observed>>

\* Lock, but the generation is not compared again under the mutex.
LockUnchecked(w) ==
    /\ phase[w] = "lock"
    /\ mutex = Nobody
    /\ phase' = [phase EXCEPT ![w] = "insert"]
    /\ mutex' = w
    /\ UNCHANGED <<generation, waiters, notifier, taken, observed, woken>>

Lock(w) ==
    /\ phase[w] = "lock"
    /\ mutex = Nobody
    /\ \/ /\ generation # observed[w]
          /\ Answered(w)
       \/ /\ generation = observed[w]
          /\ phase' = [phase EXCEPT ![w] = "insert"]
          /\ mutex' = w
          /\ UNCHANGED waiters
    /\ UNCHANGED <<generation, notifier, taken, observed, woken>>

Insert(w) ==
    /\ phase[w] = "insert"
    /\ waiters' = waiters \cup {w}
    /\ mutex' = Nobody
    /\ phase' = [phase EXCEPT ![w] = "asleep"]
    /\ UNCHANGED <<generation, notifier, taken, observed, woken>>

\* The executor polls a woken task; another branch of its select! may wake it.
Repoll(w) ==
    /\ phase[w] = "asleep"
    /\ woken[w]
    /\ phase' = [phase EXCEPT ![w] = "poll"]
    /\ UNCHANGED <<generation, waiters, mutex, notifier, taken, observed, woken>>

OtherWake(w) ==
    /\ phase[w] = "asleep"
    /\ ~woken[w]
    /\ woken' = [woken EXCEPT ![w] = TRUE]
    /\ UNCHANGED <<generation, waiters, mutex, notifier, taken, phase, observed>>

\* Another branch of the select! is taken and the future is dropped.
DropWait(w) ==
    /\ phase[w] = "asleep"
    /\ w \in waiters => mutex = Nobody
    /\ waiters' = waiters \ {w}
    /\ phase' = [phase EXCEPT ![w] = "idle"]
    /\ UNCHANGED <<generation, mutex, notifier, taken, observed, woken>>

Next ==
    \/ \E n \in Notifiers :
          \/ Bump(n)
          \/ Take(n)
          \/ \E w \in Waiters : Wake(n, w)
          \/ Return(n)
    \/ \E w \in Waiters :
          \/ Observe(w)
          \/ NotifiedSince(w)
          \/ Poll(w)
          \/ Lock(w)
          \/ Insert(w)
          \/ Repoll(w)
          \/ OtherWake(w)
          \/ DropWait(w)

Spec == Init /\ [][Next]_vars

\* A thread inside notify() or poll() goes on, and the mutex, which is held
\* for a bounded time, is not refused to it forever.
Fairness ==
    /\ \A n \in Notifiers :
          /\ SF_vars(Take(n))
          /\ \A w \in Waiters : WF_vars(Wake(n, w))
    /\ \A w \in Waiters :
          /\ SF_vars(Poll(w))
          /\ SF_vars(Lock(w))
          /\ WF_vars(Insert(w))
          /\ WF_vars(Repoll(w))

FairSpec == Spec /\ Fairness

-----------------------------------------------------------------------------
(* properties *)

TypeOK ==
    /\ generation \in 0 .. MaxGeneration
    /\ waiters \subseteq Waiters
    /\ mutex \in Waiters \cup {Nobody}
    /\ notifier \in [Notifiers -> {"idle", "bumped", "waking"}]
    /\ taken \in [Notifiers -> SUBSET Waiters]
    /\ phase \in [Waiters -> {"idle", "observing", "poll", "lock", "insert",
                              "asleep", "notified"}]
    /\ observed \in [Waiters -> 0 .. MaxGeneration]
    /\ woken \in [Waiters -> BOOLEAN]

\* NoLostWake: a task asleep on an outdated generation has its wake-up on the
\* way: it is scheduled, or a notifier holds its waker, or a notifier that has
\* bumped the generation has yet to take the map its waker is in.
NoLostWake ==
    \A w \in Waiters :
        phase[w] = "asleep" /\ generation # observed[w] =>
            \/ woken[w]
            \/ \E n \in Notifiers : w \in taken[n]
            \/ w \in waiters /\ \E n \in Notifiers : notifier[n] = "bumped"

Waiting == {"poll", "lock", "insert", "asleep"}

Contract ==
    INSTANCE WakeContract WITH
        state <- [w \in Waiters |->
                    IF phase[w] \in Waiting THEN "waiting" ELSE phase[w]]

\* KeepsContract: the signal implements WakeContract: a wait is answered only
\* when the generation has moved past its observation, and then always.
KeepsContract == Contract!Spec
=============================================================================
