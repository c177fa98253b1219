------------------------- MODULE LifecycleContract --------------------------
(***************************************************************************)
(* The life of a Queue as its owner, its producers and its consumers may   *)
(* see it: one Queue, not two authorities.  It is created once, opened     *)
(* when its config is in force, and deleted when nobody is bound to it.    *)
(* A config is replaced only when it is in force itself, by another one.   *)
(* Messages come in only while the intake is open; a deleted Queue closes  *)
(* it for good, loses what it holds, and is gone when it holds nothing.    *)
(* Overlapping calls, crashes and recoveries do not show.                  *)
(***************************************************************************)
EXTENDS Naturals

CONSTANT Configs

VARIABLES
    life,       \* none, creating, ready, deleting, tombstoned
    written,    \* the newest config, and how many there were
    applied,    \* the config in force
    intake,     \* absent, accepting, configuring, deleting: for sends
    held,       \* messages, and operations not finalized
    bound       \* who is bound

vars == <<life, written, applied, intake, held, bound>>

Version(gen, config) == [gen |-> gen, config |-> config]

Holding(messages, operations) == [messages |-> messages, operations |-> operations]

Init ==
    \E c \in Configs :
        /\ life = "none"
        /\ written = Version(0, c)
        /\ applied = Version(0, c)
        /\ intake = "absent"
        /\ held = Holding(0, 0)
        /\ bound = {}

Running == intake \in {"accepting", "configuring"}

Reserve ==
    /\ life = "none"
    /\ life' = "creating"
    /\ \E c \in Configs : written' = Version(1, c)
    /\ UNCHANGED <<applied, intake, held, bound>>

Project ==
    /\ life = "creating" /\ intake = "absent"
    /\ applied' = written
    /\ intake' = "accepting"
    /\ UNCHANGED <<life, written, held, bound>>

Publish ==
    /\ life = "creating" /\ Running /\ applied = written
    /\ life' = "ready"
    /\ UNCHANGED <<written, applied, intake, held, bound>>

\* A config change stops the intake ...
Pause ==
    /\ Running
    /\ intake' = "configuring"
    /\ UNCHANGED <<life, written, applied, held, bound>>

\* ... is written ...
Update ==
    /\ life = "ready" /\ Running /\ applied = written
    /\ \E c \in Configs \ {written.config} : written' = Version(written.gen + 1, c)
    /\ UNCHANGED <<life, applied, intake, held, bound>>

\* ... comes into force ...
Apply ==
    /\ life = "ready" /\ Running
    /\ written.gen = applied.gen + 1
    /\ applied' = written
    /\ intake' = "configuring"
    /\ UNCHANGED <<life, written, held, bound>>

\* ... and lets the intake go on.
Resume ==
    /\ life \in {"ready", "deleting"} /\ intake = "configuring"
    /\ intake' = "accepting"
    /\ UNCHANGED <<life, written, applied, held, bound>>

Delete ==
    /\ life = "ready" /\ Running /\ applied = written
    /\ bound = {}
    /\ life' = "deleting"
    /\ UNCHANGED <<written, applied, intake, held, bound>>

Close ==
    /\ life = "deleting" /\ Running
    /\ intake' = "deleting"
    /\ UNCHANGED <<life, written, applied, held, bound>>

Withdraw ==
    /\ life = "deleting" /\ intake = "deleting"
    /\ held = Holding(0, 0)
    /\ intake' = "absent"
    /\ UNCHANGED <<life, written, applied, held, bound>>

Bury ==
    /\ life = "deleting" /\ intake = "absent"
    /\ life' = "tombstoned"
    /\ UNCHANGED <<written, applied, intake, held, bound>>

Bind ==
    /\ life = "ready"
    /\ \E r \in {"producer", "consumer"} : bound' = bound \cup {r}
    /\ UNCHANGED <<life, written, applied, intake, held>>

Unbind ==
    /\ \E r \in bound : bound' = bound \ {r}
    /\ UNCHANGED <<life, written, applied, intake, held>>

\* A send may leave an operation to be finalized.
Accept ==
    /\ life \in {"ready", "deleting"} /\ intake = "accepting"
    /\ \E gate \in {0, 1} : held' = Holding(held.messages + 1, held.operations + gate)
    /\ UNCHANGED <<life, written, applied, intake, bound>>

Finalize ==
    /\ life = "ready" /\ held.operations > 0
    /\ held' = Holding(held.messages, held.operations - 1)
    /\ UNCHANGED <<life, written, applied, intake, bound>>

\* Messages are acknowledged, expire, or are purged or dead-lettered.
Remove ==
    /\ \E n \in 0 .. held.messages : held' = Holding(n, held.operations)
    /\ UNCHANGED <<life, written, applied, intake, bound>>

\* What the calls, the consumers and a restart do among themselves.
Internal == UNCHANGED vars

Next ==
    \/ Internal
    \/ Reserve \/ Project \/ Publish
    \/ Pause \/ Update \/ Apply \/ Resume
    \/ Delete \/ Close \/ Withdraw \/ Bury
    \/ Bind \/ Unbind
    \/ Accept \/ Finalize \/ Remove

Spec == Init /\ [][Next]_vars

=============================================================================
