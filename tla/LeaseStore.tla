----------------------------- MODULE LeaseStore -----------------------------
(***************************************************************************)
(* The single-active lease of one account group: the row of the table      *)
(* partition_leases and the five SQL statements of LeaseStoreV1 that read  *)
(* or write it.  Groups have separate rows and never interact here, so one *)
(* row is modelled.  Each statement runs in a transaction of its own, so   *)
(* it is one step, and now() in it is the time of the step.                *)
(***************************************************************************)
EXTENDS Naturals

CONSTANTS
    Process,    \* the processes that compete to write the partition
    Holder,     \* the lease_holder names they present
    HolderOf,   \* the name each process presents; names may be shared
    NoHolder,   \* the lease_holder of an absent row
    TTL,        \* lease_ttl_seconds, in clock ticks
    MaxTime,    \* bound: the last instant modelled
    MaxToken    \* bound: the highest fencing token modelled

ASSUME LeaseConstants ==
    /\ HolderOf \in [Process -> Holder]
    /\ NoHolder \notin Holder
    /\ TTL \in Nat \ {0}
    /\ MaxTime \in Nat
    /\ MaxToken \in Nat

VARIABLES
    now,    \* the database clock
    lease,  \* the row: lease_holder, fencing_token, lease_expires_at
    held,   \* the fencing token of the LeaseV1 each process keeps; 0 for none
    owner   \* history: the process granted the lease last

leaseVars == <<now, lease, held, owner>>

Row == [holder : Holder \cup {NoHolder}, token : Nat, expires : Nat]
NoRow == [holder |-> NoHolder, token |-> 0, expires |-> 0]

LeaseTypeOK ==
    /\ now \in Nat
    /\ lease \in Row
    /\ held \in [Process -> Nat]
    /\ owner \in Process \cup {NoHolder}

LeaseInit ==
    /\ now = 0
    /\ lease = NoRow
    /\ held = [p \in Process |-> 0]
    /\ owner = NoHolder

Expired(at) == lease.expires <= at

\* The row is p's own, by holder name and by exact token.
Matches(p) == lease.holder = HolderOf[p] /\ lease.token = held[p]

\* guard(): the write gate, read inside a transaction that began at `at`; the
\* SELECT takes no lock on the row.
GuardIgnoresHolder(p, at) == lease.token = held[p] /\ ~Expired(at)
Guard(p, at) == held[p] # 0 /\ Matches(p) /\ ~Expired(at)

-----------------------------------------------------------------------------
\* The part of every grant: the row names p, a full TTL from now.
Grant(p, token) ==
    /\ token <= MaxToken
    /\ lease' = [holder |-> HolderOf[p], token |-> token, expires |-> now + TTL]
    /\ held' = [held EXCEPT ![p] = token]
    /\ owner' = p
    /\ UNCHANGED now

\* acquire(), no row: INSERT with token 1.
AcquireNew(p) == lease = NoRow /\ Grant(p, 1)

\* acquire(), row present: take over when it expired or is one's own.
AcquireTakeOver(p) ==
    /\ lease # NoRow
    /\ Expired(now) \/ lease.holder = HolderOf[p]
    /\ Grant(p, lease.token + 1)

\* renew(): only by the current holder, only before the expiry.
Renew(p) ==
    /\ held[p] # 0
    /\ Matches(p)
    /\ ~Expired(now)
    /\ lease' = [lease EXCEPT !.expires = now + TTL]
    /\ UNCHANGED <<now, held, owner>>

\* release(): DELETE the row; the next acquire starts again from token 1.  The
\* caller gives its LeaseV1 up.
Release(p) ==
    /\ held[p] # 0
    /\ Matches(p)
    /\ lease' = NoRow
    /\ held' = [held EXCEPT ![p] = 0]
    /\ UNCHANGED <<now, owner>>

\* Time passes.
Tick ==
    /\ now < MaxTime
    /\ now' = now + 1
    /\ UNCHANGED <<lease, held, owner>>

LeaseNext ==
    \/ Tick
    \/ \E p \in Process :
          AcquireNew(p) \/ AcquireTakeOver(p) \/ Renew(p) \/ Release(p)
=============================================================================
