---------------------------- MODULE CronContract ----------------------------
(***************************************************************************)
(* What cron promises of each slot it has noticed.  A slot is offered to   *)
(* its Worker at least once; its handler is called at most MaxCalls times, *)
(* once per offer; a result that was written is final; and a slot that has *)
(* ended stays so.                                                         *)
(***************************************************************************)
EXTENDS Naturals

CONSTANTS Keys, MaxCalls

VARIABLES
    stage,      \* how far each slot is
    calls       \* how often the handler of each slot was called

vars == <<stage, calls>>

\* A slot that a delivery has, or had when its result could not be written.
InDelivery == {"offered", "called", "final", "open", "unrecorded"}

At(s) == {k \in Keys : stage[k] = s}

Init ==
    /\ stage = [k \in Keys |-> "none"]
    /\ calls = [k \in Keys |-> 0]

\* The slots of S go to stage s and the others stay where they are.
Go(S, s) == stage' = [k \in Keys |-> IF k \in S THEN s ELSE stage[k]]

\* Slots become due; each one does so once.
Fire(S) ==
    /\ Go(S, "waiting")
    /\ UNCHANGED calls

\* Slots of S are offered; those of E, which were offered before, are given up.
Offer(S, E) ==
    /\ stage' = [k \in Keys |-> IF k \in S THEN "offered"
                                ELSE IF k \in E THEN "ended" ELSE stage[k]]
    /\ UNCHANGED calls

\* The handler is called, within its budget.
Call(k) ==
    /\ stage[k] = "offered" /\ calls[k] < MaxCalls
    /\ Go({k}, "called")
    /\ calls' = [calls EXCEPT ![k] = @ + 1]

\* The delivery is over, by an answer that allows no other call or without one.
Answer(k) ==
    /\ \/ stage[k] = "called" /\ Go({k}, "final")
       \/ stage[k] \in {"offered", "called"} /\ Go({k}, "open")
    /\ UNCHANGED calls

\* The result is written.
Settle(k) ==
    /\ \/ stage[k] \in {"final", "open"} /\ Go({k}, "ended")
       \/ stage[k] = "open" /\ Go({k}, "retrying")
    /\ UNCHANGED calls

\* The result could not be written.
Lose(k) ==
    /\ stage[k] \in {"final", "open"}
    /\ Go({k}, "unrecorded")
    /\ UNCHANGED calls

\* After a crash the slots in delivery, and no others, are given up (those of
\* E) or retried.
Recover(E) ==
    /\ stage' = [k \in Keys |-> IF k \in E THEN "ended"
                                ELSE IF stage[k] \in InDelivery THEN "retrying"
                                ELSE stage[k]]
    /\ UNCHANGED calls

Next ==
    \/ \E S \in SUBSET At("none") : Fire(S)
    \/ \E S \in SUBSET (At("waiting") \cup At("retrying")) :
         \E E \in SUBSET (At("retrying") \ S) : Offer(S, E)
    \/ \E k \in Keys : Call(k) \/ Answer(k) \/ Settle(k) \/ Lose(k)
    \/ \E E \in SUBSET {k \in Keys : stage[k] \in InDelivery} : Recover(E)

Spec == Init /\ [][Next]_vars
=============================================================================
