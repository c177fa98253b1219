-------------------------- MODULE WakeSignalProofs --------------------------
(***************************************************************************)
(* For any number of notifiers and waiters no wake-up is lost, and every   *)
(* step of the signal is a step of WakeContract or changes nothing of it.  *)
(* That a due answer does come is a matter of fairness, left to TLC.       *)
(***************************************************************************)
EXTENDS WakeSignal, TLAPS

USE SMTT(60)

\* A task that is about to leave its waker holds the mutex, so a notifier that
\* bumped the generation since has not taken the map yet.
InsertGuarded ==
    \A w \in Waiters :
        phase[w] = "insert" =>
            /\ mutex = w
            /\ \/ generation = observed[w]
               \/ \E n \in Notifiers : notifier[n] = "bumped"

\* A sleeping task's waker is somewhere.
Registered ==
    \A w \in Waiters :
        phase[w] = "asleep" =>
            \/ woken[w]
            \/ \E n \in Notifiers : w \in taken[n]
            \/ w \in waiters

\* Only a notifier that is waking holds wakers.
Released == \A n \in Notifiers : notifier[n] # "waking" => taken[n] = {}

IInv == TypeOK /\ Released /\ InsertGuarded /\ Registered /\ NoLostWake

LEMMA InitInv == Init => IInv
  BY GenerationAssumption DEF Init, IInv, TypeOK, Released, InsertGuarded, Registered, NoLostWake

\* Every step keeps the types.
LEMMA TypeStep == TypeOK /\ [Next]_vars => TypeOK'
<1> SUFFICES ASSUME TypeOK, [Next]_vars PROVE TypeOK'
  OBVIOUS
<1> USE GenerationAssumption DEF TypeOK
<1>1. ASSUME NEW n \in Notifiers, Bump(n) PROVE TypeOK'
  BY <1>1 DEF Bump
<1>2. ASSUME NEW n \in Notifiers, Take(n) PROVE TypeOK'
  BY <1>2 DEF Take
<1>3. ASSUME NEW n \in Notifiers, NEW w \in Waiters, Wake(n, w) PROVE TypeOK'
  BY <1>3 DEF Wake
<1>4. ASSUME NEW n \in Notifiers, Return(n) PROVE TypeOK'
  BY <1>4 DEF Return
<1>5. ASSUME NEW w \in Waiters, Observe(w) PROVE TypeOK'
  BY <1>5 DEF Observe
<1>6. ASSUME NEW w \in Waiters, NotifiedSince(w) PROVE TypeOK'
  BY <1>6 DEF NotifiedSince
<1>7. ASSUME NEW w \in Waiters, Poll(w) PROVE TypeOK'
  BY <1>7 DEF Poll, Answered
<1>8. ASSUME NEW w \in Waiters, Lock(w) PROVE TypeOK'
  BY <1>8 DEF Lock, Answered
<1>9. ASSUME NEW w \in Waiters, Insert(w) PROVE TypeOK'
  BY <1>9 DEF Insert
<1>10. ASSUME NEW w \in Waiters, Repoll(w) PROVE TypeOK'
  BY <1>10 DEF Repoll
<1>11. ASSUME NEW w \in Waiters, OtherWake(w) PROVE TypeOK'
  BY <1>11 DEF OtherWake
<1>12. ASSUME NEW w \in Waiters, DropWait(w) PROVE TypeOK'
  BY <1>12 DEF DropWait
<1>13. CASE UNCHANGED vars
  BY <1>13 DEF vars
<1> QED
  BY <1>1, <1>2, <1>3, <1>4, <1>5, <1>6, <1>7, <1>8, <1>9, <1>10, <1>11,
     <1>12, <1>13, Zenon DEF Next

LEMMA ReleasedStep == TypeOK /\ Released /\ [Next]_vars => Released'
<1> SUFFICES ASSUME TypeOK, Released, [Next]_vars, NEW m \in Notifiers,
                    notifier'[m] # "waking"
             PROVE  taken'[m] = {}
  BY DEF Released
<1>0. notifier[m] # "waking" => taken[m] = {}
  BY DEF Released
<1> USE DEF TypeOK
<1>1. ASSUME NEW n \in Notifiers, Bump(n) PROVE taken'[m] = {}
  BY <1>0, <1>1 DEF Bump
<1>2. ASSUME NEW n \in Notifiers, Take(n) PROVE taken'[m] = {}
  BY <1>0, <1>2 DEF Take
<1>3. ASSUME NEW n \in Notifiers, NEW w \in Waiters, Wake(n, w) PROVE taken'[m] = {}
  BY <1>0, <1>3 DEF Wake
<1>4. ASSUME NEW n \in Notifiers, Return(n) PROVE taken'[m] = {}
  BY <1>0, <1>4 DEF Return
<1>5. CASE UNCHANGED <<notifier, taken>>
  BY <1>0, <1>5
<1> QED
  BY <1>1, <1>2, <1>3, <1>4, <1>5, Zenon
     DEF Next, vars, Observe, NotifiedSince, Poll, Lock, Insert, Repoll, OtherWake, DropWait

\* What a step leaves of the three facts about one waiter.
Safe(w) ==
    /\ phase[w] = "insert" =>
          /\ mutex = w
          /\ \/ generation = observed[w]
             \/ \E n \in Notifiers : notifier[n] = "bumped"
    /\ phase[w] = "asleep" =>
          \/ woken[w]
          \/ \E n \in Notifiers : w \in taken[n]
          \/ w \in waiters
    /\ phase[w] = "asleep" /\ generation # observed[w] =>
          \/ woken[w]
          \/ \E n \in Notifiers : w \in taken[n]
          \/ w \in waiters /\ \E n \in Notifiers : notifier[n] = "bumped"

LEMMA SafeAll == IInv <=> TypeOK /\ Released /\ \A w \in Waiters : Safe(w)
  BY Zenon DEF IInv, InsertGuarded, Registered, NoLostWake, Safe

LEMMA SafeStep ==
  ASSUME TypeOK, Released, \A w \in Waiters : Safe(w), [Next]_vars, NEW v \in Waiters
  PROVE  Safe(v)'
<1> USE DEF TypeOK
<1>0. Safe(v)
  OBVIOUS
<1>a. \A w \in Waiters : w # Nobody
  BY OwnerAssumption
<1>1. ASSUME NEW n \in Notifiers, Bump(n) PROVE Safe(v)'
  <2>1. /\ notifier'[n] = "bumped"
        /\ UNCHANGED <<waiters, mutex, taken, phase, observed, woken>>
    BY <1>1 DEF Bump
  <2> QED  BY <1>0, <2>1, Zenon DEF Safe
<1>2. ASSUME NEW n \in Notifiers, Take(n) PROVE Safe(v)'
  <2>1. /\ taken'[n] = waiters
        /\ \A m \in Notifiers : m # n => taken'[m] = taken[m]
        /\ mutex = Nobody
        /\ UNCHANGED <<generation, mutex, phase, observed, woken>>
    BY <1>2 DEF Take
  <2>2. phase[v] # "insert"
    BY <1>0, <1>a, <2>1 DEF Safe
  <2>3. taken[n] = {}
    BY <1>2 DEF Take, Released
  <2>4. (v \in waiters \/ \E m \in Notifiers : v \in taken[m]) =>
          \E m \in Notifiers : v \in taken'[m]
    BY <2>1, <2>3, Zenon
  <2> QED  BY <1>0, <2>1, <2>2, <2>4, Zenon DEF Safe
<1>3. ASSUME NEW n \in Notifiers, NEW w \in Waiters, Wake(n, w) PROVE Safe(v)'
  <2>1. /\ \A m \in Notifiers : v \in taken[m] => v \in taken'[m] \/ v = w
        /\ woken'[w]
        /\ woken[v] => woken'[v]
        /\ UNCHANGED <<generation, waiters, mutex, notifier, phase, observed>>
    BY <1>3 DEF Wake
  <2> QED  BY <1>0, <2>1, Zenon DEF Safe
<1>4. ASSUME NEW n \in Notifiers, Return(n) PROVE Safe(v)'
  <2>1. /\ \A m \in Notifiers : notifier[m] = "bumped" => notifier'[m] = "bumped"
        /\ UNCHANGED <<generation, waiters, mutex, taken, phase, observed, woken>>
    BY <1>4 DEF Return
  <2> QED  BY <1>0, <2>1, Zenon DEF Safe
<1>5. ASSUME NEW w \in Waiters, Observe(w) PROVE Safe(v)'
  BY <1>0, <1>5 DEF Observe, Safe
<1>6. ASSUME NEW w \in Waiters, NotifiedSince(w) PROVE Safe(v)'
  BY <1>0, <1>6 DEF NotifiedSince, Safe
<1>7. ASSUME NEW w \in Waiters, Poll(w) PROVE Safe(v)'
  BY <1>0, <1>7 DEF Poll, Answered, Safe
<1>8. ASSUME NEW w \in Waiters, Lock(w) PROVE Safe(v)'
  <2>1. phase[v] # "insert" /\ mutex = Nobody
    BY <1>0, <1>8, <1>a DEF Lock, Safe
  <2>2. CASE v = w
    BY <1>0, <1>8, <2>1, <2>2 DEF Lock, Answered, Safe
  <2>3. CASE v # w
    BY <1>0, <1>8, <2>1, <2>3 DEF Lock, Answered, Safe
  <2> QED  BY <2>2, <2>3
<1>9. ASSUME NEW w \in Waiters, Insert(w) PROVE Safe(v)'
  <2>0. Safe(w)
    OBVIOUS
  <2>1. CASE v = w
    BY <1>9, <2>0, <2>1 DEF Insert, Safe
  <2>2. CASE v # w
    BY <1>0, <1>9, <2>0, <2>2 DEF Insert, Safe
  <2> QED  BY <2>1, <2>2
<1>10. ASSUME NEW w \in Waiters, Repoll(w) PROVE Safe(v)'
  BY <1>0, <1>10 DEF Repoll, Safe
<1>11. ASSUME NEW w \in Waiters, OtherWake(w) PROVE Safe(v)'
  BY <1>0, <1>11 DEF OtherWake, Safe
<1>12. ASSUME NEW w \in Waiters, DropWait(w) PROVE Safe(v)'
  BY <1>0, <1>12 DEF DropWait, Safe
<1>13. CASE UNCHANGED vars
  BY <1>0, <1>13, Zenon DEF vars, Safe
<1> QED
  BY <1>1, <1>2, <1>3, <1>4, <1>5, <1>6, <1>7, <1>8, <1>9, <1>10, <1>11,
     <1>12, <1>13, Zenon DEF Next

\* NoLostWake holds for any number of notifiers and waiters.
THEOREM NoWakeIsLost == Spec => [](TypeOK /\ NoLostWake)
<1>1. IInv /\ [Next]_vars => IInv'
  <2> SUFFICES ASSUME IInv, [Next]_vars PROVE IInv'
    OBVIOUS
  <2>1. TypeOK' /\ Released'
    BY TypeStep, ReleasedStep, Zenon DEF IInv
  <2>2. \A v \in Waiters : Safe(v)'
    BY SafeStep, SafeAll, Zenon
  <2> QED  BY <2>1, <2>2, Zenon DEF IInv, InsertGuarded, Registered, NoLostWake, Safe
<1>2. IInv => TypeOK /\ NoLostWake
  BY Zenon DEF IInv
<1> QED  BY InitInv, <1>1, <1>2, PTL DEF Spec

-----------------------------------------------------------------------------
(* refinement *)

\* The state WakeContract sees.
Seen == [w \in Waiters |-> IF phase[w] \in Waiting THEN "waiting" ELSE phase[w]]

LEMMA ContractInit == Init => Contract!Init
  BY DEF Init, Contract!Init, Waiting

Phases == {"idle", "observing", "poll", "lock", "insert", "asleep", "notified"}
SeenStates == {"idle", "observing", "waiting", "notified"}

\* One waiter's phase moves and the contract sees the move.
LEMMA SeenMove ==
  ASSUME TypeOK, NEW w \in Waiters, NEW to \in Phases, NEW seen \in SeenStates,
         phase' = [phase EXCEPT ![w] = to],
         to \in Waiting => seen = "waiting",
         to \notin Waiting => seen = to
  PROVE  Seen' = [Seen EXCEPT ![w] = seen]
<1>1. /\ phase \in [Waiters -> Phases]
      /\ phase' \in [Waiters -> Phases]
      /\ phase'[w] = to
      /\ \A v \in Waiters : v # w => phase'[v] = phase[v]
  BY DEF TypeOK, Phases
<1>2. Seen \in [Waiters -> SeenStates] /\ Seen' \in [Waiters -> SeenStates]
  BY <1>1 DEF Seen, SeenStates, Phases, Waiting
<1>3. Seen'[w] = seen /\ \A v \in Waiters : v # w => Seen'[v] = Seen[v]
  BY <1>1 DEF Seen
<1> HIDE DEF Seen
<1> QED  BY <1>2, <1>3

\* One waiter's phase moves within its wait.
LEMMA SeenStays ==
  ASSUME TypeOK, NEW w \in Waiters, NEW to \in Waiting, phase[w] \in Waiting,
         phase' = [phase EXCEPT ![w] = to]
  PROVE  Seen' = Seen
  BY DEF TypeOK, Seen

\* Every step of the signal is a step of WakeContract, or stutters.
LEMMA ContractStep == TypeOK /\ [Next]_vars => [Contract!Next]_(Contract!vars)
<1> SUFFICES ASSUME TypeOK, [Next]_vars
             PROVE  Contract!Next \/ UNCHANGED <<generation, observed, Seen>>
  BY Zenon DEF Contract!vars, Seen
<1> DEFINE Goal == Contract!Next \/ UNCHANGED <<generation, observed, Seen>>
<1>a. phase' = phase => Seen' = Seen
  BY DEF Seen
<1>b. \A w \in Waiters : Seen[w] = IF phase[w] \in Waiting THEN "waiting" ELSE phase[w]
  BY DEF Seen
<1>1. ASSUME NEW n \in Notifiers, Bump(n) PROVE Goal
  <2>1. Contract!Notify
    BY <1>1, <1>a DEF Bump, Contract!Notify, Seen
  <2> QED  BY <2>1, Zenon DEF Contract!Next
<1>2. ASSUME NEW w \in Waiters, Observe(w) PROVE Goal
  <2>1. Seen' = [Seen EXCEPT ![w] = "observing"] /\ Seen[w] \in {"idle", "notified"}
    <3>1. "observing" \in Phases /\ "observing" \in SeenStates /\ "observing" \notin Waiting
      BY DEF Waiting, Phases, SeenStates
    <3>2. phase' = [phase EXCEPT ![w] = "observing"]
      BY <1>2 DEF Observe
    <3>3. Seen' = [Seen EXCEPT ![w] = "observing"]
      BY <3>1, <3>2, SeenMove, Zenon
    <3> QED  BY <1>2, <1>b, <3>3 DEF Observe, Waiting
  <2>2. Contract!Observe(w)
    BY <1>2, <2>1 DEF Observe, Contract!Observe, Seen
  <2> QED  BY <2>2, Zenon DEF Contract!Next
<1>3. ASSUME NEW w \in Waiters, NotifiedSince(w) PROVE Goal
  <2>1. Seen' = [Seen EXCEPT ![w] = "waiting"] /\ Seen[w] = "observing"
    <3>1. "poll" \in Phases /\ "waiting" \in SeenStates /\ "poll" \in Waiting
      BY DEF Waiting, Phases, SeenStates
    <3>2. phase' = [phase EXCEPT ![w] = "poll"]
      BY <1>3 DEF NotifiedSince
    <3>3. Seen' = [Seen EXCEPT ![w] = "waiting"]
      BY <3>1, <3>2, SeenMove, Zenon
    <3> QED  BY <1>3, <1>b, <3>3 DEF NotifiedSince, Waiting
  <2>2. Contract!Begin(w)
    BY <1>3, <2>1 DEF NotifiedSince, Contract!Begin, Seen
  <2> QED  BY <2>2, Zenon DEF Contract!Next
<1>4. ASSUME NEW w \in Waiters, phase[w] \in Waiting, generation # observed[w],
             Answered(w), UNCHANGED <<generation, observed>>
      PROVE  Goal
  <2>1. Seen' = [Seen EXCEPT ![w] = "notified"] /\ Seen[w] = "waiting"
    <3>1. "notified" \in Phases /\ "notified" \in SeenStates /\ "notified" \notin Waiting
      BY DEF Waiting, Phases, SeenStates
    <3>2. phase' = [phase EXCEPT ![w] = "notified"]
      BY <1>4 DEF Answered
    <3>3. Seen' = [Seen EXCEPT ![w] = "notified"]
      BY <3>1, <3>2, SeenMove, Zenon
    <3> QED  BY <1>4, <1>b, <3>3 DEF Answered, Waiting
  <2>2. Contract!Answer(w)
    BY <1>4, <2>1 DEF Contract!Answer, Seen
  <2> QED  BY <2>2, Zenon DEF Contract!Next
<1>5. ASSUME NEW w \in Waiters, Poll(w) PROVE Goal
  <2>1. CASE generation # observed[w]
    BY <1>4, <1>5, <2>1 DEF Poll, Waiting
  <2>2. CASE generation = observed[w]
    <3>1. Seen' = Seen
      BY <1>5, <2>2, SeenStays DEF Poll, Waiting
    <3> QED  BY <1>5, <3>1 DEF Poll
  <2> QED  BY <2>1, <2>2
<1>6. ASSUME NEW w \in Waiters, Lock(w) PROVE Goal
  <2>1. CASE generation # observed[w]
    BY <1>4, <1>6, <2>1 DEF Lock, Waiting
  <2>2. CASE generation = observed[w]
    <3>1. Seen' = Seen
      BY <1>6, <2>2, SeenStays DEF Lock, Waiting
    <3> QED  BY <1>6, <3>1 DEF Lock
  <2> QED  BY <2>1, <2>2
<1>7. ASSUME NEW w \in Waiters, Insert(w) \/ Repoll(w) PROVE Goal
  <2>1. Seen' = Seen
    BY <1>7, SeenStays DEF Insert, Repoll, Waiting
  <2> QED  BY <1>7, <2>1 DEF Insert, Repoll
<1>8. ASSUME NEW w \in Waiters, DropWait(w) PROVE Goal
  <2>1. Seen' = [Seen EXCEPT ![w] = "idle"] /\ Seen[w] = "waiting"
    <3>1. "idle" \in Phases /\ "idle" \in SeenStates /\ "idle" \notin Waiting
      BY DEF Waiting, Phases, SeenStates
    <3>2. phase' = [phase EXCEPT ![w] = "idle"]
      BY <1>8 DEF DropWait
    <3>3. Seen' = [Seen EXCEPT ![w] = "idle"]
      BY <3>1, <3>2, SeenMove, Zenon
    <3> QED  BY <1>8, <1>b, <3>3 DEF DropWait, Waiting
  <2>2. Contract!GiveUp(w)
    BY <1>8, <2>1 DEF DropWait, Contract!GiveUp, Seen
  <2> QED  BY <2>2, Zenon DEF Contract!Next
<1>9. CASE UNCHANGED <<generation, observed, phase>>
  BY <1>9, <1>a, Zenon
<1> QED
  BY <1>1, <1>2, <1>3, <1>5, <1>6, <1>7, <1>8, <1>9, Zenon
     DEF Next, vars, Take, Wake, Return, OtherWake

\* The signal keeps the safety part of WakeContract: an answer is given only
\* when the generation has moved past the observation.
THEOREM SignalKeepsContract == Spec => Contract!Safety
  BY NoWakeIsLost, ContractInit, ContractStep, PTL DEF Spec, Contract!Safety

=============================================================================
