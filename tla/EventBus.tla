------------------------------ MODULE EventBus ------------------------------
(***************************************************************************)
(* DeterministicEventBusV1 over UtcLogicalClockV1: subscriptions in a      *)
(* frozen order, an event delivered to its consumers one after the other,  *)
(* a consumer that fails handled by its policy.  A delivery that a failure *)
(* stops leaves the event delivered; the bus takes the next one all the    *)
(* same.                                                                   *)
(***************************************************************************)
EXTENDS Naturals, Sequences

CONSTANTS
    Consumer,
    EventType,
    Subscription,    \* consumer -> its event type, source rank, policy and maxRetries
    SourceRankOrder, \* SubscriptionOrder: by source rank, else by registration
    MaxTs,           \* bound of the model: the timestamps of events
    MaxEvents        \* bound of the model: the events delivered

Policy == {"StopRun", "IsolateConsumer", "RetryFixed"}

ASSUME BusConstants ==
    /\ Subscription \in [Consumer -> [type : EventType, rank : Nat, policy : Policy, retries : Nat]]
    /\ SourceRankOrder \in BOOLEAN
    /\ MaxTs \in Nat

\* RetryFixed needs a positive number of retries, the other policies have one attempt.
Retries(c) == IF Subscription[c].policy = "RetryFixed" THEN Subscription[c].retries ELSE 0

VARIABLES
    subscriptions, \* _subscriptions: the consumers in the order they registered
    frozen,
    clock,         \* the logical clock
    delivered,     \* _delivered: the events, as type and timestamp
    due,           \* the consumers the running delivery has still to call
    failures,      \* failed attempts of the consumer it is calling
    isolated,      \* history too: consumer -> the event that isolated it, or 0
    calls,         \* history: the <<event, consumer>> whose handler returned, in order
    stoppedBy      \* history: the <<event, consumer>> that stopped a delivery

busVars == <<subscriptions, frozen, clock, delivered, due, failures, isolated,
             calls, stoppedBy>>

Registered == {subscriptions[i] : i \in 1..Len(subscriptions)}

BusTypeOK ==
    /\ subscriptions \in Seq(Consumer)
    /\ frozen \in BOOLEAN
    /\ clock \in 0..MaxTs
    /\ delivered \in Seq([type : EventType, ts : 0..MaxTs])
    /\ due \subseteq Registered
    /\ failures \in Nat
    /\ isolated \in [Consumer -> Nat]
    /\ calls \in Seq(Nat \X Consumer)
    /\ stoppedBy \subseteq Nat \X Consumer

BusInit ==
    /\ subscriptions = <<>>
    /\ frozen = FALSE
    /\ clock = 0
    /\ delivered = <<>>
    /\ due = {}
    /\ failures = 0
    /\ isolated = [c \in Consumer |-> 0]
    /\ calls = <<>>
    /\ stoppedBy = {}

\* subscribe(): refused once the bus is frozen, and for a known consumer.
Subscribes(c) == ~frozen /\ c \notin Registered

Subscribe(c) ==
    /\ Subscribes(c)
    /\ Subscription[c].policy = "RetryFixed" => Subscription[c].retries >= 1
    /\ subscriptions' = Append(subscriptions, c)
    /\ UNCHANGED <<frozen, clock, delivered, due, failures, isolated, calls, stoppedBy>>

RegisteredBefore(c, d) ==
    \E i, j \in 1..Len(subscriptions) : i < j /\ subscriptions[i] = c /\ subscriptions[j] = d

\* _orderedConsumers(): by registration, or by source rank and then registration.
Before(c, d) ==
    IF SourceRankOrder /\ Subscription[c].rank # Subscription[d].rank
    THEN Subscription[c].rank < Subscription[d].rank
    ELSE RegisteredBefore(c, d)

Consumers(type) == {c \in Registered : Subscription[c].type = type}

Now == Len(delivered)

\* deliver(): the bus freezes, and an event before the clock is refused; else it is
\* recorded as delivered before any consumer is called.
Deliver(type, ts) ==
    /\ due = {}
    /\ Now < MaxEvents
    /\ frozen' = TRUE
    /\ IF ts < clock
       THEN UNCHANGED <<clock, delivered, due>>
       ELSE /\ clock' = ts
            /\ delivered' = Append(delivered, [type |-> type, ts |-> ts])
            /\ due' = {c \in Consumers(type) : isolated[c] = 0}
    /\ UNCHANGED <<subscriptions, failures, isolated, calls, stoppedBy>>

Called(c) == c \in due /\ \A d \in due : d = c \/ Before(c, d)

HandlerReturns(c) ==
    /\ Called(c)
    /\ due' = due \ {c}
    /\ failures' = 0
    /\ calls' = Append(calls, <<Now, c>>)
    /\ UNCHANGED <<subscriptions, frozen, clock, delivered, isolated, stoppedBy>>

GoOn(c) == due \ {c}

\* What is left of the delivery after the last attempt of a consumer failed: only
\* an isolated consumer lets it go on.
DueAfterFailure(c) ==
    IF Subscription[c].policy = "IsolateConsumer" THEN due \ {c} ELSE {}

\* _invokeWithPolicy(): another attempt, isolation, or a stopped delivery.
HandlerRaises(c) ==
    /\ Called(c)
    /\ IF failures < Retries(c)
       THEN failures' = failures + 1 /\ UNCHANGED <<due, isolated, stoppedBy>>
       ELSE /\ failures' = 0
            /\ due' = DueAfterFailure(c)
            /\ IF Subscription[c].policy = "IsolateConsumer"
               THEN isolated' = [isolated EXCEPT ![c] = Now] /\ UNCHANGED stoppedBy
               ELSE stoppedBy' = stoppedBy \cup {<<Now, c>>} /\ UNCHANGED isolated
    /\ UNCHANGED <<subscriptions, frozen, clock, delivered, calls>>

BusNext ==
    \/ \E type \in EventType, ts \in 0..MaxTs : Deliver(type, ts)
    \/ \E c \in Consumer : Subscribe(c) \/ HandlerReturns(c) \/ HandlerRaises(c)

BusSpec == BusInit /\ [][BusNext]_busVars

-----------------------------------------------------------------------------
\* The calls that an event owes when every delivery is complete: to each consumer of
\* its type but those isolated before or by it, and those the order puts at or
\* behind the consumer that stopped it.
CutOff(i, c) == \E d \in Consumer : <<i, d>> \in stoppedBy /\ (d = c \/ Before(d, c))

Owed(i, c) ==
    /\ c \in Consumers(delivered[i].type)
    /\ isolated[c] = 0 \/ i < isolated[c]
    /\ ~CutOff(i, c)

Returned(i, c) == \E k \in 1..Len(calls) : calls[k] = <<i, c>>

\* Between deliveries the calls that returned are exactly those owed, one each,
\* event after event and within an event in the frozen order, whatever fails and
\* whenever a consumer subscribed.
BusCallsExact ==
    due = {} =>
        /\ \A i \in 1..Now, c \in Consumer :
            Returned(i, c) <=> Owed(i, c)
        /\ \A j, k \in 1..Len(calls) : j < k =>
            \/ calls[j][1] < calls[k][1]
            \/ calls[j][1] = calls[k][1] /\ Before(calls[j][2], calls[k][2])
=============================================================================
