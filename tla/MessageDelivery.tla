--------------------------- MODULE MessageDelivery ---------------------------
(***************************************************************************)
(* The way of a message from TransactionStoreV1, whose publishPending()    *)
(* hands the outbox over in commit order, through RedisStreamTransportV1   *)
(* to readers that share its one consumer of its group, accept each entry  *)
(* through an inbox and then acknowledge it.  A publication may fail       *)
(* before or after the entry is in the stream, and readers may stop; Redis *)
(* and the inbox's table survive.                                          *)
(***************************************************************************)
EXTENDS Naturals, Sequences, FiniteSets

CONSTANTS
    Message,      \* message ids
    Transaction,  \* the sequences of messages that transactions enqueue
    Reader,
    Limit,        \* limit of consume()
    MaxEntries    \* bound of the model: the entries of the stream

ASSUME DeliveryConstants ==
    /\ Transaction \subseteq Seq(Message)
    /\ \A t \in Transaction : \A i, j \in 1..Len(t) : t[i] = t[j] => i = j
    /\ Limit \in Nat \ {0}
    /\ MaxEntries \in Nat

VARIABLES
    outbox,   \* _outbox: the messages in commit order, with their status
    stream,   \* the ids of the messages in the stream, by entry
    lastRead, \* the last entry the group was given as new
    unacked,  \* its pending entries: given and not acknowledged
    hands,    \* reader -> the entries it was given and has not acknowledged
    accepted, \* reader -> whether the inbox took the first of them
    inbox,    \* the ids the inbox has accepted
    applied   \* history: the messages in the order their effects were applied

deliveryVars == <<outbox, stream, lastRead, unacked, hands, accepted, inbox, applied>>

Entry == 1..Len(stream)

DeliveryTypeOK ==
    /\ outbox \in Seq([id : Message, status : {"PENDING", "PUBLISHED"}])
    /\ stream \in Seq(Message)
    /\ lastRead \in 0..Len(stream)
    /\ unacked \subseteq 1..lastRead
    /\ hands \in [Reader -> Seq(1..lastRead)]
    /\ accepted \in [Reader -> BOOLEAN]
    /\ inbox \subseteq Message
    /\ applied \in Seq(Message)

DeliveryInit ==
    /\ outbox = <<>>
    /\ stream = <<>>
    /\ lastRead = 0
    /\ unacked = {}
    /\ hands = [r \in Reader |-> <<>>]
    /\ accepted = [r \in Reader |-> FALSE]
    /\ inbox = {}
    /\ applied = <<>>

readerVars == <<lastRead, unacked, hands, accepted, inbox, applied>>

-----------------------------------------------------------------------------
(* The transaction store.                                                  *)

Known == {outbox[i].id : i \in 1..Len(outbox)}

\* commit(): the whole transaction is refused when one of its messages is known.
CommitTransaction(messages) ==
    /\ \A i \in 1..Len(messages) : messages[i] \notin Known
    /\ outbox' = outbox \o [i \in 1..Len(messages) |-> [id |-> messages[i], status |-> "PENDING"]]
    /\ UNCHANGED <<stream, readerVars>>

SomePending(i) == outbox[i].status = "PENDING"

\* The message that publishPending() hands over next: a failure ends the call, so
\* a later call begins with the message that failed.
NextPending(i) ==
    /\ outbox[i].status = "PENDING"
    /\ \A j \in 1..(i - 1) : outbox[j].status = "PUBLISHED"

Published(i) == outbox' = [outbox EXCEPT ![i].status = "PUBLISHED"]

\* xadd() gives every publication an entry of its own.
AddEntry(i) == Len(stream) < MaxEntries /\ stream' = Append(stream, outbox[i].id)

Publish(i) ==
    /\ NextPending(i)
    /\ AddEntry(i)
    /\ Published(i)
    /\ UNCHANGED readerVars

PublishFailsMarked(i) ==
    /\ NextPending(i)
    /\ Published(i)
    /\ UNCHANGED <<stream, readerVars>>

\* The publisher raises, the entry in the stream or not: the message stays pending.
PublishFails(i) ==
    /\ NextPending(i)
    /\ AddEntry(i)
    /\ UNCHANGED <<outbox, readerVars>>

-----------------------------------------------------------------------------
(* The readers.                                                            *)

Least(a, b) == IF a < b THEN a ELSE b

\* consume(): the next entries nobody was given.
ReadNew(r) ==
    /\ hands[r] = <<>>
    /\ lastRead < Len(stream)
    /\ LET n == Least(Limit, Len(stream) - lastRead)
       IN /\ lastRead' = lastRead + n
          /\ unacked' = unacked \cup (lastRead + 1)..(lastRead + n)
          /\ hands' = [hands EXCEPT ![r] = [i \in 1..n |-> lastRead + i]]
    /\ UNCHANGED <<outbox, stream, accepted, inbox, applied>>

\* consume() with readPending: entries given before, to any reader, from the first.
ReadPending(r) ==
    /\ hands[r] = <<>>
    /\ LET n == Least(Limit, Cardinality(unacked))
       IN \E batch \in [1..n -> unacked] :
           /\ \A i \in 1..n : Cardinality({k \in unacked : k <= batch[i]}) = i
           /\ hands' = [hands EXCEPT ![r] = batch]
    /\ UNCHANGED <<outbox, stream, lastRead, unacked, accepted, inbox, applied>>

\* accept(): a message the inbox knows has no second effect.
AcceptEntry(r) ==
    /\ hands[r] # <<>> /\ ~accepted[r]
    /\ LET m == stream[Head(hands[r])]
       IN /\ inbox' = inbox \cup {m}
          /\ applied' = IF m \in inbox THEN applied ELSE Append(applied, m)
    /\ accepted' = [accepted EXCEPT ![r] = TRUE]
    /\ UNCHANGED <<outbox, stream, lastRead, unacked, hands>>

\* acknowledge(): idempotent, another reader may have been first.
Acknowledge(r) ==
    /\ accepted[r]
    /\ unacked' = unacked \ {Head(hands[r])}
    /\ hands' = [hands EXCEPT ![r] = Tail(@)]
    /\ accepted' = [accepted EXCEPT ![r] = FALSE]
    /\ UNCHANGED <<outbox, stream, lastRead, inbox, applied>>

StopReader(r) ==
    /\ hands[r] # <<>>
    /\ hands' = [hands EXCEPT ![r] = <<>>]
    /\ accepted' = [accepted EXCEPT ![r] = FALSE]
    /\ UNCHANGED <<outbox, stream, lastRead, unacked, inbox, applied>>

DeliveryNext ==
    \/ \E messages \in Transaction : CommitTransaction(messages)
    \/ \E i \in 1..Len(outbox) : Publish(i) \/ PublishFails(i)
    \/ \E r \in Reader :
        \/ ReadNew(r) \/ ReadPending(r)
        \/ AcceptEntry(r) \/ Acknowledge(r) \/ StopReader(r)

DeliverySpec == DeliveryInit /\ [][DeliveryNext]_deliveryVars

-----------------------------------------------------------------------------
\* No message is lost or applied twice, whatever fails: one marked published has
\* taken effect or has an entry that a reader can still be given, and an effect is
\* that of a committed message, once.
DeliveryLosesNothing ==
    /\ \A i \in 1..Len(outbox) : outbox[i].status = "PUBLISHED" =>
        \/ outbox[i].id \in inbox
        \/ \E k \in Entry : stream[k] = outbox[i].id /\ (k > lastRead \/ k \in unacked)
    /\ \A j, k \in 1..Len(applied) : applied[j] = applied[k] => j = k
    /\ \A k \in 1..Len(applied) : applied[k] \in Known

\* The stream holds the messages in commit order: an entry is preceded by one of
\* every message committed before it, repeated entries and failures included.
DeliveryInCommitOrder ==
    \A i, j \in 1..Len(outbox), k \in Entry : i < j /\ stream[k] = outbox[j].id =>
        \E l \in 1..(k - 1) : stream[l] = outbox[i].id
=============================================================================
