---------------------------- MODULE PartitionLog ----------------------------
(***************************************************************************)
(* What the persistence stores of one partition promise together: an       *)
(* append-only sequence of distinct inputs, a checkpoint that never points *)
(* past it, and delivery of the outgoing messages in its order, each at    *)
(* least once.                                                             *)
(***************************************************************************)
EXTENDS Naturals, Sequences

CONSTANT Key    \* idempotency keys of the inputs

VARIABLES
    log,        \* the committed inputs, in delivery order
    checkpoint, \* the last committed sequence a restart replays up to
    delivered   \* the inputs whose outgoing message was handed over

logVars == <<log, checkpoint, delivered>>

InLog(k) == \E i \in DOMAIN log : log[i] = k

LogInit ==
    /\ log = <<>>
    /\ checkpoint = 0
    /\ delivered = {}

\* An input is recorded once, with everything it changed, or not at all.
Record(k) ==
    /\ ~InLog(k)
    /\ log' = Append(log, k)
    /\ checkpoint' = Len(log')
    /\ UNCHANGED delivered

\* The checkpoint may be written again, never past the end of the log.
Rewind ==
    /\ checkpoint' \in 0 .. Len(log)
    /\ UNCHANGED <<log, delivered>>

\* The oldest message not handed over yet is handed over.
Deliver(i) ==
    /\ log[i] \notin delivered
    /\ \A j \in 1 .. i - 1 : log[j] \in delivered
    /\ delivered' = delivered \cup {log[i]}
    /\ UNCHANGED <<log, checkpoint>>

LogNext ==
    \/ \E k \in Key : Record(k)
    \/ Rewind
    \/ \E i \in DOMAIN log : Deliver(i)

LogSpec == LogInit /\ [][LogNext]_logVars
=============================================================================
