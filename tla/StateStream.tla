----------------------------- MODULE StateStream -----------------------------
(***************************************************************************)
(* The state stream: StreamService over InMemoryStreamEventSource, and the *)
(* generator of StateStreamRoutes that sends a subscription's events to    *)
(* its client, one at a time.  Every method of the service runs under its  *)
(* lock, so it is one step; the generator polls and yields in steps of its *)
(* own, and a client may go away between any two and come back with the    *)
(* sequence it saw last as its cursor.                                     *)
(*                                                                         *)
(* One producer numbers the events: nextSequence() and deliver() together. *)
(* A subscription whose client went away is left out: close() is never     *)
(* called for it, it fills up and is closed, and no client reads it.       *)
(***************************************************************************)
EXTENDS Integers, Sequences, SequencesExt

CONSTANTS
    Client,
    Principal,
    PrincipalOf,   \* client -> the principal of its credential
    StreamAccount,
    FilterOf,      \* client -> the accounts it follows, {} for all
    Retention,     \* retentionLimit of the source
    MaxBacklog,
    ReplayWindow,
    MaxSequence    \* bound of the model: the events the producer delivers

\* Nothing is assumed of how the three limits compare: the defaults are a backlog of
\* 500 events, and a window and a retention of 1000.
ASSUME StreamConstants ==
    /\ PrincipalOf \in [Client -> Principal]
    /\ FilterOf \in [Client -> SUBSET StreamAccount]
    /\ Retention \in Nat \ {0}
    /\ MaxBacklog \in Nat \ {0}
    /\ ReplayWindow \in Nat
    /\ MaxSequence \in Nat

VARIABLES
    produced, \* history: every event delivered, oldest first; event n has sequence n
    stream,   \* client -> "none", "active" or "closed": the state of its subscription
    pending,  \* client -> the sequences pending in its subscription
    batch,    \* client -> the sequences its generator holds, replayed or taken
    received, \* client -> history: the sequences the client was sent
    since,    \* client -> history: the latest sequence when it opened without a cursor
    resumed,  \* client -> history: the latest sequence it knew of when it opened last
    missed,   \* client -> history: what the replays it was given left out
    barred    \* client -> history: the latest sequence when its principal was revoked,
              \* -1 when it was not, or the client has opened again since

streamVars == <<produced, stream, pending, batch, received, since, resumed, missed, barred>>

Sequence == 1..MaxSequence

StreamTypeOK ==
    /\ produced \in Seq(StreamAccount) /\ Len(produced) <= MaxSequence
    /\ stream \in [Client -> {"none", "active", "closed"}]
    /\ pending \in [Client -> Seq(Sequence)]
    /\ batch \in [Client -> Seq(Sequence)]
    /\ received \in [Client -> Seq(Sequence)]
    /\ since \in [Client -> Nat]
    /\ resumed \in [Client -> Nat]
    /\ missed \in [Client -> SUBSET Sequence]
    /\ barred \in [Client -> Int]

StreamInit ==
    /\ produced = <<>>
    /\ stream = [c \in Client |-> "none"]
    /\ pending = [c \in Client |-> <<>>]
    /\ batch = [c \in Client |-> <<>>]
    /\ received = [c \in Client |-> <<>>]
    /\ since = [c \in Client |-> 0]
    /\ resumed = [c \in Client |-> 0]
    /\ missed = [c \in Client |-> {}]
    /\ barred = [c \in Client |-> -1]

-----------------------------------------------------------------------------
\* latestSequence(): zero for an empty source.
Latest == Len(produced)

Follows(c, account) == FilterOf[c] = {} \/ account \in FilterOf[c]

\* append() keeps the last Retention events.
Retained == {n \in 1..Latest : n > Latest - Retention}

Matching(c, from) == {n \in Retained : n >= from /\ Follows(c, produced[n])}

\* The one sequence of the least `limit` members of a set of sequences, in order.
Oldest(events, limit) ==
    LET count == IF Cardinality(events) < limit THEN Cardinality(events) ELSE limit
    IN {s \in [1..count -> events] :
           \A i \in 1..count : Cardinality({n \in events : n <= s[i]}) = i}

\* eventsSince(): the oldest `limit` retained events after the cursor.
EventsFrom(c, cursor, limit) == Oldest(Matching(c, cursor), limit)

EventsSince(c, cursor, limit) == Oldest(Matching(c, cursor + 1), limit)

\* What the client sends as its cursor, -1 when it has seen nothing.
Cursor(c) == IF received[c] = <<>> THEN -1 ELSE Last(received[c])

\* The events that a client follows after one sequence and up to another.
Followed(c, from, to) == {n \in 1..Latest : from < n /\ n <= to /\ Follows(c, produced[n])}

\* open(): a cursor behind the window is refused and the client, told so, starts
\* afresh; without a cursor nothing is replayed.  Who was revoked is not asked: a
\* revoked principal is kept out by the route's principalProvider, or not at all.
BehindWindow(c) == Cursor(c) >= 0 /\ Cursor(c) < Latest - ReplayWindow

Replays(c) == IF Cursor(c) >= 0 THEN EventsSince(c, Cursor(c), MaxBacklog) ELSE {<<>>}

\* Of the events after its cursor, the client is to see the replayed ones.
LeftOut(c, replay) ==
    IF Cursor(c) >= 0
    THEN {n \in missed[c] : n <= Cursor(c)} \cup (Followed(c, Cursor(c), Latest) \ ToSet(replay))
    ELSE {}

Open(c) ==
    /\ stream[c] = "none"
    /\ IF BehindWindow(c)
       THEN /\ received' = [received EXCEPT ![c] = <<>>]
            /\ missed' = [missed EXCEPT ![c] = {}]
            /\ UNCHANGED <<stream, batch, since, resumed, barred>>
       ELSE /\ stream' = [stream EXCEPT ![c] = "active"]
            /\ \E replay \in Replays(c) :
                /\ batch' = [batch EXCEPT ![c] = replay]
                /\ missed' = [missed EXCEPT ![c] = LeftOut(c, replay)]
            /\ since' = [since EXCEPT ![c] = IF Cursor(c) >= 0 THEN @ ELSE Latest]
            /\ resumed' = [resumed EXCEPT ![c] = IF Cursor(c) >= 0 THEN Cursor(c) ELSE Latest]
            /\ barred' = [barred EXCEPT ![c] = -1]
            /\ UNCHANGED received
    /\ pending' = [pending EXCEPT ![c] = <<>>]
    /\ UNCHANGED produced

\* deliver(): to every active subscription that follows the account; one whose
\* backlog is exceeded is closed.
Receivers(account) == {c \in Client : stream[c] = "active" /\ Follows(c, account)}

Overflowing(account) == {c \in Receivers(account) : Len(pending[c]) >= MaxBacklog}

Deliver(account) ==
    /\ Latest < MaxSequence
    /\ produced' = Append(produced, account)
    /\ pending' = [c \in Client |-> IF c \in Receivers(account)
                                    THEN Append(pending[c], Latest + 1) ELSE pending[c]]
    /\ stream' = [c \in Client |-> IF c \in Overflowing(account) THEN "closed" ELSE stream[c]]
    /\ UNCHANGED <<batch, received, since, resumed, missed, barred>>

\* revokePrincipal(): every active subscription of the principal is closed.
Barred(p) == [c \in Client |-> IF PrincipalOf[c] = p /\ barred[c] = -1 THEN Latest ELSE barred[c]]

RevokeWaiting(p) ==
    /\ stream' = [c \in Client |-> IF PrincipalOf[c] = p /\ stream[c] = "active" /\ pending[c] # <<>>
                                   THEN "closed" ELSE stream[c]]
    /\ barred' = Barred(p)
    /\ UNCHANGED <<produced, pending, batch, received, since, resumed, missed>>

RevokePrincipal(p) ==
    /\ stream' = [c \in Client |-> IF PrincipalOf[c] = p /\ stream[c] = "active"
                                   THEN "closed" ELSE stream[c]]
    /\ barred' = Barred(p)
    /\ UNCHANGED <<produced, pending, batch, received, since, resumed, missed>>

-----------------------------------------------------------------------------
(* eventGenerator(): send what is held, then poll again.                   *)

Send(c) ==
    /\ batch[c] # <<>>
    /\ received' = [received EXCEPT ![c] = Append(@, Head(batch[c]))]
    /\ batch' = [batch EXCEPT ![c] = Tail(@)]
    /\ UNCHANGED <<produced, stream, pending, since, resumed, missed, barred>>

PollLatest(c) ==
    /\ batch[c] = <<>>
    /\ stream[c] = "active" /\ pending[c] # <<>>
    /\ batch' = [batch EXCEPT ![c] = <<Last(pending[c])>>]
    /\ pending' = [pending EXCEPT ![c] = <<>>]
    /\ UNCHANGED <<produced, stream, received, since, resumed, missed, barred>>

\* takePending(): None of a closed subscription ends the stream.
Poll(c) ==
    /\ batch[c] = <<>>
    /\ stream[c] # "none"
    /\ IF stream[c] = "closed"
       THEN /\ stream' = [stream EXCEPT ![c] = "none"]
            /\ UNCHANGED batch
       ELSE /\ batch' = [batch EXCEPT ![c] = pending[c]]
            /\ UNCHANGED stream
    /\ pending' = [pending EXCEPT ![c] = <<>>]
    /\ UNCHANGED <<produced, received, since, resumed, missed, barred>>

\* The client goes away: what its generator and its subscription hold is lost.
Disconnect(c) ==
    /\ stream[c] # "none"
    /\ stream' = [stream EXCEPT ![c] = "none"]
    /\ batch' = [batch EXCEPT ![c] = <<>>]
    /\ pending' = [pending EXCEPT ![c] = <<>>]
    /\ UNCHANGED <<produced, received, since, resumed, missed, barred>>

StreamNext ==
    \/ \E a \in StreamAccount : Deliver(a)
    \/ \E p \in Principal : RevokePrincipal(p)
    \/ \E c \in Client : Open(c) \/ Send(c) \/ Poll(c) \/ Disconnect(c)

\* The generator sends what it holds and polls again every 0.2 seconds.
StreamFairness == \A c \in Client : WF_streamVars(Send(c)) /\ WF_streamVars(Poll(c))

StreamSpec == StreamInit /\ [][StreamNext]_streamVars /\ StreamFairness

-----------------------------------------------------------------------------
(* What a client sees.                                                     *)

\* Once, in order, and without a gap but those of the replays: from its first open to
\* the last event it was sent, a client saw the events of its accounts, whatever
\* overflows, disconnects and replays came between, less what a replay left out.
\* Nothing is left out when the window fits into the backlog and the retention; when
\* it fits into the retention alone, the replay leaves out only what comes after a whole
\* backlog of them.
\* (A client that open() tells that its cursor is behind the window starts afresh.)
Increasing(s) == \A i, j \in DOMAIN s : i < j => s[i] < s[j]

StreamExact ==
    \A c \in Client : received[c] # <<>> =>
        /\ Increasing(received[c])
        /\ ToSet(received[c]) = Followed(c, since[c], Last(received[c])) \ missed[c]
        /\ ReplayWindow <= Retention =>
            /\ ReplayWindow <= MaxBacklog => missed[c] = {}
            /\ \A n \in missed[c] : resumed[c] < n =>
                   Cardinality(Followed(c, resumed[c], n)) > MaxBacklog

\* "A reconnection loses no event that was retained": the development plan, of clients
\* whose cursor is inside the window.
StreamKeepsRetained ==
    \A c \in Client : received[c] # <<>> =>
        Followed(c, since[c], Last(received[c])) \subseteq ToSet(received[c])

\* After its principal was revoked a client is sent nothing that was produced later,
\* not by the subscription it had and not by what its generator held, until it opens
\* a subscription again.
StreamRevoked ==
    \A c \in Client : \A n \in ToSet(received[c]) : barred[c] = -1 \/ n <= barred[c]

\* A pending event reaches the client, or the client's stream ends.
StreamDelivered ==
    \A c \in Client : \A n \in Sequence :
        n \in ToSet(pending[c]) ~> (n \in ToSet(received[c]) \/ stream[c] # "active")
=============================================================================
