--------------------------- MODULE QueueContract ---------------------------
(***************************************************************************)
(* What the Queue store promises producers and consumers: an accepted      *)
(* message is in one queue at a time, is handed to one handler at a time,  *)
(* and its row says how often it was handed over.  While a handler has it, *)
(* only the end of that delivery or a recovery decides what becomes of it. *)
(***************************************************************************)
EXTENDS Naturals

CONSTANTS Queues, Messages, Batches

VARIABLES
    accepted,   \* messages ever accepted from a producer
    place,      \* for each message still there: its queue, and how often it
                \* was handed to a handler since it came to that queue
    held        \* the messages each delivery has

vars == <<accepted, place, held>>

Init ==
    /\ accepted = {}
    /\ DOMAIN place = {}
    /\ DOMAIN held = {}

Held == UNION {held[b] : b \in DOMAIN held}

\* A batch of new messages enters a queue as a whole.
Accept(q, S) ==
    /\ S # {} /\ S \cap accepted = {}
    /\ accepted' = accepted \cup S
    /\ place' = [m \in DOMAIN place \cup S |->
                   IF m \in S THEN [queue |-> q, handed |-> 0] ELSE place[m]]
    /\ UNCHANGED held

\* Messages of one queue that no delivery has are handed to a handler.
Hand(q, b, S) ==
    /\ b \notin DOMAIN held
    /\ S # {} /\ S \cap Held = {}
    /\ S \subseteq {m \in DOMAIN place : place[m].queue = q}
    /\ held' = [c \in DOMAIN held \cup {b} |-> IF c = b THEN S ELSE held[c]]
    /\ place' = [m \in DOMAIN place |->
                   IF m \in S THEN [queue |-> q, handed |-> place[m].handed + 1]
                   ELSE place[m]]
    /\ UNCHANGED accepted

\* Messages of S stay, leave for good, or start anew in another queue.
Resolve(S) ==
    /\ S \subseteq DOMAIN place
    /\ DOMAIN place' \subseteq DOMAIN place
    /\ \A m \in DOMAIN place : m \notin S => m \in DOMAIN place'
    /\ \A m \in DOMAIN place' :
         \/ place'[m] = place[m]
         \/ /\ m \in S
            /\ place'[m].queue \in Queues \ {place[m].queue}
            /\ place'[m].handed = 0
    /\ UNCHANGED accepted

\* A delivery ends and settles its own messages.
Settle(b) ==
    /\ b \in DOMAIN held
    /\ Resolve(held[b])
    /\ held' = [c \in DOMAIN held \ {b} |-> held[c]]

\* Expiry, the move of a parked message and a purge spare what is held.
Release(S) ==
    /\ S \cap Held = {}
    /\ Resolve(S)
    /\ UNCHANGED held

\* After a crash every delivery is over.  A message may be dropped only if it
\* was handed over before; the others are where they were.
Recover ==
    /\ DOMAIN held' = {}
    /\ DOMAIN place' \subseteq DOMAIN place
    /\ \A m \in DOMAIN place' : place'[m] = place[m]
    /\ \A m \in DOMAIN place \ DOMAIN place' : place[m].handed > 0
    /\ UNCHANGED accepted

Next ==
    \/ \E q \in Queues, S \in SUBSET Messages : Accept(q, S)
    \/ \E q \in Queues, b \in Batches, S \in SUBSET DOMAIN place : Hand(q, b, S)
    \/ \E b \in DOMAIN held : Settle(b)
    \/ \E S \in SUBSET DOMAIN place : Release(S)
    \/ Recover

Spec == Init /\ [][Next]_vars
=============================================================================
