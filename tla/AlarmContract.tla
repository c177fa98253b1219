--------------------------- MODULE AlarmContract ----------------------------
(***************************************************************************)
(* What a Durable Object may rely on for the alarms it sets, named by the  *)
(* tokens they drew.  One alarm at most is armed.  Only the object's own   *)
(* calls end it, or a run that succeeds, for good, or the failure that     *)
(* comes after the first run and MaxRetry retries of it.  An alarm that is *)
(* over comes back in one case: the deleteAlarm that took it has not       *)
(* returned and fails, and no other alarm is armed.                        *)
(***************************************************************************)
EXTENDS Naturals

CONSTANTS Tokens, Callers, MaxRetry

VARIABLES
    stage,      \* how far each alarm is
    failed,     \* how many runs of each alarm failed
    asks        \* what the object's calls in flight ask for

vars == <<stage, failed, asks>>

Ask(kind, k) == [kind |-> kind, token |-> k]

NoAsk == Ask("none", 0)

At(s) == {k \in Tokens : stage[k] = s}

Init ==
    /\ stage = [k \in Tokens |-> "unset"]
    /\ failed = [k \in Tokens |-> 0]
    /\ asks = [c \in Callers |-> NoAsk]

\* The alarms of S go to stage s and the others stay where they are.
Go(S, s) == stage' = [k \in Tokens |-> IF k \in S THEN s ELSE stage[k]]

Post(c, kind, k) ==
    /\ asks[c] = NoAsk
    /\ asks' = [asks EXCEPT ![c] = Ask(kind, k)]

\* What is left of an ask that nobody waits for: a message to forget its alarm.
Rest(a) == IF a = NoAsk THEN NoAsk ELSE Ask("forget", a.token)

\* Nobody waits for any call; the alarms that calls took stay ended.
Abandon(kept) ==
    /\ Go(At("taken"), "ended")
    /\ asks' = [c \in Callers |-> IF c \in kept THEN Rest(asks[c]) ELSE NoAsk]
    /\ UNCHANGED failed

\* setAlarm replaces the alarm there was; it may wait for its own call.
Set(c, k) ==
    /\ stage[k] = "unset"
    /\ stage' = [j \in Tokens |-> IF j = k THEN "armed"
                                  ELSE IF stage[j] = "armed" THEN "ended" ELSE stage[j]]
    /\ \/ asks[c] = NoAsk /\ UNCHANGED asks
       \/ Post(c, "set", k)
    /\ UNCHANGED failed

\* deleteAlarm takes the alarm, or in a transaction ends it.
Delete(c, k) ==
    /\ stage[k] = "armed"
    /\ \/ Post(c, "delete", k) /\ Go({k}, "taken")
       \/ Post(c, "forget", k) /\ Go({k}, "ended")
    /\ UNCHANGED failed

DeleteAll(c) ==
    /\ \E k \in {0} \cup Tokens : Post(c, "clear", k)
    /\ UNCHANGED <<stage, failed>>

\* A call of the object returns.
Return(c) ==
    /\ asks[c] # NoAsk
    /\ \E a \in {NoAsk, Rest(asks[c])} : asks' = [asks EXCEPT ![c] = a]
    /\ LET k == asks[c].token
       IN  \/ asks[c].kind # "delete" /\ UNCHANGED stage
           \/ asks[c].kind = "set" /\ Go({k} \cap At("armed"), "ended")
           \/ asks[c].kind = "clear" /\ Go(At("armed"), "ended")
           \/ asks[c].kind = "delete" /\ Go({k}, "ended")
           \/ asks[c].kind = "delete" /\ At("armed") = {} /\ Go({k}, "armed")
    /\ UNCHANGED failed

\* A run of the alarm succeeds ...
Succeed(k) ==
    /\ stage[k] = "armed"
    /\ Go({k}, "done")
    /\ UNCHANGED <<failed, asks>>

\* ... or fails, and the alarm goes on or is given up.
Fail(k) ==
    /\ stage[k] = "armed"
    /\ failed' = [failed EXCEPT ![k] = @ + 1]
    /\ \/ UNCHANGED stage
       \/ failed[k] >= MaxRetry /\ Go({k}, "ended")
    /\ UNCHANGED asks

\* The copy of the alarm is written, claimed, dispatched or repaired.
Internal == UNCHANGED vars

Next ==
    \/ Internal
    \/ \E c \in Callers : DeleteAll(c) \/ Return(c)
    \/ \E c \in Callers, k \in Tokens : Set(c, k) \/ Delete(c, k)
    \/ \E k \in Tokens : Succeed(k) \/ Fail(k)
    \/ \E kept \in SUBSET Callers : Abandon(kept)

Spec == Init /\ [][Next]_vars

=============================================================================
