--------------------------- MODULE PartitionWriter ---------------------------
(***************************************************************************)
(* The writers and publishers of one account group's partition: the stores *)
(* InboxStoreV1, EventStoreV1, OutboxStoreV1 and CheckpointStoreV1 over    *)
(* PostgreSQL at READ COMMITTED, each write behind LeaseStore's guard.     *)
(*                                                                         *)
(* A writer handles one input in one transaction, as core's recovery work  *)
(* unit does: inbox record, fact, outgoing message, checkpoint.  Every SQL *)
(* statement is a step.  What a transaction wrote is in tx[p].own and      *)
(* nobody else sees it before Commit; an INSERT or UPDATE of a row another *)
(* open transaction wrote waits for that transaction to end.               *)
(***************************************************************************)
EXTENDS LeaseStore, Sequences, FiniteSets

CONSTANTS
    Key,        \* idempotency keys; a key also names its event and message
    Hash,       \* content hashes
    NoHash,     \* "no such inbox row"
    Deliveries, \* the <<key, hash>> pairs that arrive, any number of times each
    Publisher,  \* the processes that run publishPending
    BatchSize   \* LIMIT of the pending query

ASSUME WriterConstants ==
    /\ NoHash \notin Hash
    /\ Deliveries \subseteq Key \X Hash
    /\ BatchSize \in Nat \ {0}
    /\ IsFiniteSet(Key)
    /\ IsFiniteSet(Process)

VARIABLES
    tx,         \* the open transaction of each writer
    inbox,      \* inbox_records: key -> content hash
    conflicts,  \* inbox_conflicts: the keys with an isolation record
    facts,      \* fact_events: key -> delivery_sequence, 0 for no row
    outbox,     \* outbox_records: key -> [seq, status], seq 0 for no row
    checkpoint, \* partition_checkpoints.last_committed_sequence
    batch,      \* publisher -> the messages it fetched and has not marked
    marked,     \* publisher -> the rows its open transaction marked
    handed,     \* publisher -> whether batch's head was passed to the callback
    delivered   \* the messages whose callback returned, at least once

storeVars == <<inbox, conflicts, facts, outbox, checkpoint>>
pubVars == <<batch, marked, handed, delivered>>
vars == <<leaseVars, tx, storeVars, pubVars>>

Steps == {"idle", "conflict", "insert", "sequence", "append",
          "enqueue", "commit"}
Tables == {"inbox", "fact", "outbox"}

NoRecord == [seq |-> 0, status |-> "PENDING"]

\* start is the transaction's now(), seq the delivery_sequence it planned or
\* got back, outSeq the outbox sequence it drew, own the tables it wrote.
IdleTx == [step |-> "idle", start |-> 0, key |-> NoHash, hash |-> NoHash,
           seq |-> 0, outSeq |-> 0, own |-> {}]

TxType == [step : Steps, start : Nat, key : Key \cup {NoHash},
           hash : Hash \cup {NoHash}, seq : Nat, outSeq : Nat, own : SUBSET Tables]

TypeOK ==
    /\ LeaseTypeOK
    /\ tx \in [Process -> TxType]
    /\ \A p \in Process : tx[p].step # "idle" => tx[p].key \in Key /\ tx[p].hash \in Hash
    /\ inbox \in [Key -> Hash \cup {NoHash}]
    /\ conflicts \in SUBSET Key
    /\ facts \in [Key -> Nat]
    /\ outbox \in [Key -> [seq : Nat, status : {"PENDING", "PUBLISHED"}]]
    /\ checkpoint \in Nat
    /\ batch \in [Publisher -> Seq(Key)]
    /\ marked \in [Publisher -> SUBSET Key]
    /\ handed \in [Publisher -> BOOLEAN]
    /\ delivered \in SUBSET Key

Init ==
    /\ LeaseInit
    /\ tx = [p \in Process |-> IdleTx]
    /\ inbox = [k \in Key |-> NoHash]
    /\ conflicts = {}
    /\ facts = [k \in Key |-> 0]
    /\ outbox = [k \in Key |-> NoRecord]
    /\ checkpoint = 0
    /\ batch = [u \in Publisher |-> <<>>]
    /\ marked = [u \in Publisher |-> {}]
    /\ handed = [u \in Publisher |-> FALSE]
    /\ delivered = {}

-----------------------------------------------------------------------------
(* Writers.                                                                *)

At(p, step) == tx[p].step = step
Passes(p) == Guard(p, tx[p].start)

\* Another open transaction wrote a row of this table for p's input.
Waits(p, table) ==
    \E q \in Process \ {p} : table \in tx[q].own /\ tx[q].key = tx[p].key

\* The SQL statement of p moves its transaction on and writes rows of `tables`.
Advance(p, step, tables) ==
    tx' = [tx EXCEPT ![p].step = step, ![p].own = @ \cup tables]

\* accept(), up to its SELECT, in a new transaction: a first delivery goes on
\* to the INSERT and a conflict leaves the transaction.  A duplicate only gets
\* the original receipt back, which changes nothing.
Accept(p, k, h) ==
    /\ At(p, "idle")
    /\ Guard(p, now)
    /\ inbox[k] # h
    /\ tx' = [tx EXCEPT ![p] =
                [IdleTx EXCEPT !.step = IF inbox[k] = NoHash THEN "insert" ELSE "conflict",
                               !.start = now, !.key = k, !.hash = h]]
    /\ UNCHANGED <<leaseVars, storeVars, pubVars>>

\* accept(), the isolation record of a conflict, in a transaction of its own
\* and with no guard; conflict_id is one per key, so later ones leave no row.
RecordConflict(p) ==
    /\ At(p, "conflict")
    /\ conflicts' = conflicts \cup {tx[p].key}
    /\ tx' = [tx EXCEPT ![p] = IdleTx]
    /\ UNCHANGED <<leaseVars, inbox, facts, outbox, checkpoint, pubVars>>

InsertInboxOverwrites(p) ==
    /\ At(p, "insert")
    /\ ~Waits(p, "inbox")
    /\ Advance(p, "sequence", {"inbox"})
    /\ UNCHANGED <<leaseVars, storeVars, pubVars>>

\* accept(), the INSERT ... ON CONFLICT DO NOTHING; APPLIED either way.
InsertInbox(p) ==
    /\ At(p, "insert")
    /\ ~Waits(p, "inbox")
    /\ Advance(p, "sequence", IF inbox[tx[p].key] = NoHash THEN {"inbox"} ELSE {})
    /\ UNCHANGED <<leaseVars, storeVars, pubVars>>

\* latestDeliverySequence(): MAX over the committed rows.
LatestDelivery ==
    CHOOSE n \in {0} \cup {facts[k] : k \in Key} : \A k \in Key : facts[k] <= n

\* The caller reads the latest sequence and plans the next one (Fanout.plan).
PlanSequence(p) ==
    /\ At(p, "sequence")
    /\ tx' = [tx EXCEPT ![p].step = "append", ![p].seq = LatestDelivery + 1]
    /\ UNCHANGED <<leaseVars, storeVars, pubVars>>

\* Two rows may not carry one delivery_sequence (uq_fact_events_partition_delivery):
\* an INSERT waits for an open transaction that has it and fails on a committed row.
SequenceUnchecked(p) == TRUE
SequenceFree(p) ==
    /\ \A k \in Key : facts[k] # tx[p].seq
    /\ \A q \in Process \ {p} : ~("fact" \in tx[q].own /\ tx[q].seq = tx[p].seq)

AppendFactSavesCheckpoint(p) ==
    /\ At(p, "append")
    /\ Passes(p)
    /\ SequenceFree(p)
    /\ Advance(p, "enqueue", {"fact"})
    /\ checkpoint' = tx[p].seq
    /\ UNCHANGED <<leaseVars, inbox, conflicts, facts, outbox, pubVars>>

\* append(): the row is written, or the event is known and its own sequence
\* comes back; a sequence that is taken raises, which is an Abort.
AppendFact(p) ==
    /\ At(p, "append")
    /\ Passes(p)
    /\ ~Waits(p, "fact")
    /\ LET known == facts[tx[p].key] IN
       \/ /\ known # 0
          /\ tx' = [tx EXCEPT ![p].step = "enqueue", ![p].seq = known]
       \/ /\ known = 0
          /\ SequenceFree(p)
          /\ Advance(p, "enqueue", {"fact"})
    /\ UNCHANGED <<leaseVars, storeVars, pubVars>>

\* nextval('outbox_sequence_seq') is larger than every sequence drawn before;
\* only the order matters, so a value no row and no transaction has is reused.
NextOutSeq ==
    LET drawn == {outbox[k].seq : k \in Key} \cup {tx[q].outSeq : q \in Process}
    IN  1 + CHOOSE n \in drawn : \A m \in drawn : m <= n

EnqueueCommitsAlone(p) ==
    /\ At(p, "enqueue")
    /\ Passes(p)
    /\ outbox' = [outbox EXCEPT ![tx[p].key] = [seq |-> NextOutSeq, status |-> "PENDING"]]
    /\ Advance(p, "commit", {})
    /\ UNCHANGED <<leaseVars, inbox, conflicts, facts, checkpoint, pubVars>>

\* enqueue(): a known message_id gives its row back.
Enqueue(p) ==
    /\ At(p, "enqueue")
    /\ Passes(p)
    /\ ~Waits(p, "outbox")
    /\ IF outbox[tx[p].key] = NoRecord
       THEN tx' = [tx EXCEPT ![p].step = "commit", ![p].outSeq = NextOutSeq,
                             ![p].own = @ \cup {"outbox"}]
       ELSE Advance(p, "commit", {})
    /\ UNCHANGED <<leaseVars, storeVars, pubVars>>

\* save(), then COMMIT.  The upsert of the partition's only checkpoint row has
\* no guard and shows with the rest; its row lock only delays another save.
Commit(p) ==
    LET k == tx[p].key IN
    /\ At(p, "commit")
    /\ inbox' = IF "inbox" \in tx[p].own THEN [inbox EXCEPT ![k] = tx[p].hash] ELSE inbox
    /\ facts' = IF "fact" \in tx[p].own THEN [facts EXCEPT ![k] = tx[p].seq] ELSE facts
    /\ outbox' = IF "outbox" \in tx[p].own
                 THEN [outbox EXCEPT ![k] = [seq |-> tx[p].outSeq, status |-> "PENDING"]]
                 ELSE outbox
    /\ checkpoint' = tx[p].seq
    /\ tx' = [tx EXCEPT ![p] = IdleTx]
    /\ UNCHANGED <<leaseVars, conflicts, pubVars>>

\* A LeaseError, a unique violation or a lost connection: all is rolled back.
Abort(p) ==
    /\ ~At(p, "idle")
    /\ tx' = [tx EXCEPT ![p] = IdleTx]
    /\ UNCHANGED <<leaseVars, storeVars, pubVars>>

\* The process dies: its transaction is rolled back, its lease object is gone
\* and its row of partition_leases stays until it expires.
Crash(p) ==
    /\ held[p] # 0
    /\ held' = [held EXCEPT ![p] = 0]
    /\ tx' = [tx EXCEPT ![p] = IdleTx]
    /\ UNCHANGED <<now, lease, owner, storeVars, pubVars>>

-----------------------------------------------------------------------------
(* Publishers: one call of publishPending is one transaction.  It takes no *)
(* lease and no lock before its UPDATE.                                    *)

Pending == {k \in Key : outbox[k].seq # 0 /\ outbox[k].status = "PENDING"}

\* The rows of the pending query: the BatchSize smallest sequences, in order.
FirstPending(n, rows) ==
    /\ \A i, j \in 1 .. n : i < j => outbox[rows[i]].seq < outbox[rows[j]].seq
    /\ \A k \in Pending :
          \/ \E i \in 1 .. n : rows[i] = k
          \/ n = BatchSize /\ \A i \in 1 .. n : outbox[rows[i]].seq < outbox[k].seq

FetchUnordered(u) ==
    /\ batch[u] = <<>> /\ marked[u] = {}
    /\ \E k \in Pending : batch' = [batch EXCEPT ![u] = <<k>>]
    /\ UNCHANGED <<leaseVars, tx, storeVars, marked, handed, delivered>>

FetchSkipsHandedOver(u) ==
    /\ batch[u] = <<>> /\ marked[u] = {}
    /\ \E k \in Pending \ delivered : batch' = [batch EXCEPT ![u] = <<k>>]
    /\ UNCHANGED <<leaseVars, tx, storeVars, marked, handed, delivered>>

Fetch(u) ==
    /\ batch[u] = <<>> /\ marked[u] = {}
    /\ \E n \in 1 .. BatchSize : \E rows \in [1 .. n -> Pending] :
          FirstPending(n, rows) /\ batch' = [batch EXCEPT ![u] = rows]
    /\ UNCHANGED <<leaseVars, tx, storeVars, marked, handed, delivered>>

\* publisher(message) returns: the message left the process.
HandOver(u) ==
    /\ batch[u] # <<>>
    /\ ~handed[u]
    /\ handed' = [handed EXCEPT ![u] = TRUE]
    /\ delivered' = delivered \cup {Head(batch[u])}
    /\ UNCHANGED <<leaseVars, tx, storeVars, batch, marked>>

MarkBeforeHandOver(u) ==
    /\ batch[u] # <<>>
    /\ \A v \in Publisher \ {u} : Head(batch[u]) \notin marked[v]
    /\ marked' = [marked EXCEPT ![u] = @ \cup {Head(batch[u])}]
    /\ batch' = [batch EXCEPT ![u] = Tail(@)]
    /\ handed' = [handed EXCEPT ![u] = FALSE]
    /\ UNCHANGED <<leaseVars, tx, storeVars, delivered>>

\* The UPDATE of the message's row; it waits for a publisher that updated it.
Mark(u) ==
    /\ batch[u] # <<>>
    /\ handed[u]
    /\ \A v \in Publisher \ {u} : Head(batch[u]) \notin marked[v]
    /\ marked' = [marked EXCEPT ![u] = @ \cup {Head(batch[u])}]
    /\ batch' = [batch EXCEPT ![u] = Tail(@)]
    /\ handed' = [handed EXCEPT ![u] = FALSE]
    /\ UNCHANGED <<leaseVars, tx, storeVars, delivered>>

CommitMarks(u) ==
    /\ batch[u] = <<>> /\ marked[u] # {}
    /\ outbox' = [k \in Key |-> IF k \in marked[u]
                                THEN [outbox[k] EXCEPT !.status = "PUBLISHED"]
                                ELSE outbox[k]]
    /\ marked' = [marked EXCEPT ![u] = {}]
    /\ UNCHANGED <<leaseVars, tx, inbox, conflicts, facts, checkpoint, batch, handed, delivered>>

\* The callback raises or the process dies: every mark of the batch is undone,
\* also those of messages that were handed over.
PublishFails(u) ==
    /\ batch[u] # <<>> \/ marked[u] # {}
    /\ batch' = [batch EXCEPT ![u] = <<>>]
    /\ marked' = [marked EXCEPT ![u] = {}]
    /\ handed' = [handed EXCEPT ![u] = FALSE]
    /\ UNCHANGED <<leaseVars, tx, storeVars, delivered>>

-----------------------------------------------------------------------------
LeaseStep == LeaseNext /\ UNCHANGED <<tx, storeVars, pubVars>>

WriterStep(p) ==
    \/ \E d \in Deliveries : Accept(p, d[1], d[2])
    \/ RecordConflict(p) \/ InsertInbox(p)
    \/ PlanSequence(p) \/ AppendFact(p) \/ Enqueue(p)
    \/ Commit(p) \/ Abort(p) \/ Crash(p)

PublisherStep(u) ==
    Fetch(u) \/ HandOver(u) \/ Mark(u) \/ CommitMarks(u) \/ PublishFails(u)

Next ==
    \/ LeaseStep
    \/ \E p \in Process : WriterStep(p)
    \/ \E u \in Publisher : PublisherStep(u)

Spec == Init /\ [][Next]_vars

\* publishPending is called again and again, and no message is poisoned: a
\* callback or an UPDATE that is retried without end succeeds at last, for each
\* message.  Fairness by publisher alone would not do: a batch whose second
\* message always fails hands over the first for ever and never marks it.
\* Nothing is assumed of writers or of the lease.
Fairness ==
    \A u \in Publisher :
        /\ WF_vars(Fetch(u))
        /\ SF_vars(CommitMarks(u))
        /\ \A k \in Key : /\ SF_vars(HandOver(u) /\ Head(batch[u]) = k)
                          /\ SF_vars(Mark(u) /\ Head(batch[u]) = k)

FairSpec == Spec /\ Fairness

-----------------------------------------------------------------------------
(* Properties.                                                             *)

\* The write gate admits nobody but the process granted the lease last, so a
\* process that lost its lease can start no write.  Whether it holds depends
\* on HolderOf: release() deletes the row and the tokens start again at 1.
GateAdmitsOnlyOwner == \A p \in Process : Guard(p, now) => owner = p

\* Two contents of one key may both be told APPLIED, when the second SELECT
\* runs before the first COMMIT; the content committed first stays the key's
\* content, and an isolation record only stands beside such a content.
AcceptedContentStays ==
    [][/\ \A k \in Key : inbox[k] # NoHash => inbox'[k] = inbox[k]
       /\ \A k \in conflicts' : inbox'[k] # NoHash]_vars

\* An input's inbox record, its fact and its outgoing message exist together
\* or not at all, whatever transactions overlapped, aborted or crashed.
InputAtomic ==
    \A k \in Key : /\ (inbox[k] # NoHash) <=> (facts[k] # 0)
                   /\ (inbox[k] # NoHash) <=> (outbox[k] # NoRecord)

\* "MAX(delivery_sequence) + 1 is safe": a partition's sequences are 1 .. n,
\* each on one fact, even when two writers planned the same one.
DeliverySequenceDense ==
    /\ \A j, k \in Key : facts[j] = facts[k] /\ facts[j] # 0 => j = k
    /\ \A k \in Key : \A i \in 1 .. facts[k] : \E j \in Key : facts[j] = i

\* A checkpoint never points past the committed facts (CheckpointError in
\* ProjectionStoreV1.rebuild), so a restart can always replay up to it.
CheckpointCovered == checkpoint <= LatestDelivery

\* At least once: a message is marked PUBLISHED only if its callback returned,
\* and only committed messages are ever handed over.
PublishedWasDelivered ==
    /\ \A k \in Key : outbox[k].status = "PUBLISHED" => k \in delivered
    /\ \A k \in delivered : outbox[k] # NoRecord

\* A restart never resumes from before a point it had reached: the partition's
\* checkpoint does not go back.
CheckpointMonotonic == [][checkpoint' >= checkpoint]_vars

\* Every committed message is at last marked, through failing callbacks,
\* crashes of the publisher and a second publisher.
PendingEventuallyPublished ==
    \A k \in Key : outbox[k] # NoRecord ~> outbox[k].status = "PUBLISHED"

\* The facts in delivery order are an append-only log of inputs, its checkpoint
\* stays inside it and its messages are first handed over in its order.
LogOf == [i \in 1 .. LatestDelivery |-> CHOOSE k \in Key : facts[k] = i]
Abstract == INSTANCE PartitionLog WITH log <- LogOf
ImplementsLog == Abstract!LogSpec
=============================================================================
