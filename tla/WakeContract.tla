---------------------------- MODULE WakeContract ----------------------------
(***************************************************************************)
(* What SchedulerWakeSignal promises: a wait that starts from an           *)
(* observation of the generation is answered once the generation is        *)
(* another one, whenever the notification came, and for no other reason.   *)
(* Its owner may also give it up.                                          *)
(***************************************************************************)
EXTENDS Naturals

CONSTANTS Waiters, MaxGeneration

VARIABLES
    generation,    \* the mutations published so far
    observed,      \* the generation each waiter last read
    state          \* what each waiter does

vars == <<generation, observed, state>>

Init ==
    /\ generation = 0
    /\ observed = [w \in Waiters |-> 0]
    /\ state = [w \in Waiters |-> "idle"]

Notify ==
    /\ generation < MaxGeneration
    /\ generation' = generation + 1
    /\ UNCHANGED <<observed, state>>

Observe(w) ==
    /\ state[w] \in {"idle", "notified"}
    /\ state' = [state EXCEPT ![w] = "observing"]
    /\ observed' = [observed EXCEPT ![w] = generation]
    /\ UNCHANGED generation

Begin(w) ==
    /\ state[w] = "observing"
    /\ state' = [state EXCEPT ![w] = "waiting"]
    /\ UNCHANGED <<generation, observed>>

Answer(w) ==
    /\ state[w] = "waiting"
    /\ generation # observed[w]
    /\ state' = [state EXCEPT ![w] = "notified"]
    /\ UNCHANGED <<generation, observed>>

GiveUp(w) ==
    /\ state[w] = "waiting"
    /\ state' = [state EXCEPT ![w] = "idle"]
    /\ UNCHANGED <<generation, observed>>

Next ==
    \/ Notify
    \/ \E w \in Waiters : Observe(w) \/ Begin(w) \/ Answer(w) \/ GiveUp(w)

Safety == Init /\ [][Next]_vars

\* An answer that is due comes; nothing makes the owner give the wait up.
Spec == Safety /\ \A w \in Waiters : WF_vars(Answer(w))
=============================================================================
