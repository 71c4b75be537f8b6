---------------------------- MODULE BrokerOrders ----------------------------
(***************************************************************************)
(* Sending orders to a broker: LiveBrokerAdapterV1 over                    *)
(* SimBrokerOrderGatewayV1 and SessionManagerV1.  The gateway numbers what *)
(* it sends, answers a resubmission from its mapping, and knows nothing of *)
(* an order whose answer was lost; the adapter records every answer, lost  *)
(* ones included, and never asks the gateway again.                        *)
(***************************************************************************)
EXTENDS Naturals, Sequences

CONSTANTS
    BrokerOrder,       \* client order ids
    DirectOrder,       \* those submitted to the gateway, without the adapter
    Credential,
    Session,           \* the sessions authenticate() may create
    MaxRate,           \* maxOrderRatePerSecond
    UnknownIsAccepted, \* allowUnknownAsAccepted
    MaxSends           \* bound of the model: the orders the gateway numbers

ASSUME BrokerConstants ==
    /\ DirectOrder \subseteq BrokerOrder
    /\ MaxRate \in Nat \ {0}
    /\ UnknownIsAccepted \in BOOLEAN
    /\ MaxSends \in Nat

VARIABLES
    credentials, \* what the resolver resolves
    sessions,    \* session -> its credential and state
    recent,      \* _submitTimestamps: how many lie in the last second
    outcomes,    \* _outcomes and _mappings: order -> the last outcome and broker id
    submissions, \* the adapter's record: order -> outcome and broker id
    revokedCredentials, \* history: those revokeCredential() revoked
    sent,        \* history: number -> the order it was drawn for and the session
    told         \* history: the <<order, outcome, broker id>> callers were answered

brokerVars ==
    <<credentials, sessions, recent, outcomes, submissions, revokedCredentials, sent, told>>

Outcome == {"ACCEPTED", "REJECTED", "TIMEOUT_UNKNOWN"}

\* A broker id is the number it was drawn as, 0 for None.  An answer that never comes
\* is TIMEOUT_UNKNOWN and has none.
Answer == [outcome : Outcome, broker : 0..MaxSends]
NoAnswer == [outcome |-> "NONE", broker |-> 0]
Lost == [outcome |-> "TIMEOUT_UNKNOWN", broker |-> 0]

SessionState == [credential : Credential, state : {"active", "revoked", "expired"}]
NoSession == [state |-> "none"]

Sends == 1..Len(sent)

BrokerTypeOK ==
    /\ credentials \subseteq Credential
    /\ sessions \in [Session -> SessionState \cup {NoSession}]
    /\ recent \in 0..MaxRate
    /\ outcomes \in [BrokerOrder -> Answer \cup {NoAnswer}]
    /\ submissions \in [BrokerOrder -> Answer \cup {NoAnswer}]
    /\ revokedCredentials \subseteq Credential
    /\ sent \in Seq([order : BrokerOrder, session : Session])
    /\ Len(sent) <= MaxSends
    /\ told \subseteq BrokerOrder \X Answer

BrokerInit ==
    /\ credentials = Credential
    /\ sessions = [s \in Session |-> NoSession]
    /\ recent = 0
    /\ outcomes = [o \in BrokerOrder |-> NoAnswer]
    /\ submissions = [o \in BrokerOrder |-> NoAnswer]
    /\ revokedCredentials = {}
    /\ sent = <<>>
    /\ told = {}

orderVars == <<recent, outcomes, submissions, sent, told>>

-----------------------------------------------------------------------------
(* SessionManagerV1.                                                       *)

\* authenticate(): any credential the resolver still has.
Authenticate(s, k) ==
    /\ sessions[s] = NoSession
    /\ k \in credentials
    /\ sessions' = [sessions EXCEPT ![s] = [credential |-> k, state |-> "active"]]
    /\ UNCHANGED <<credentials, revokedCredentials, orderVars>>

Live(s) == sessions[s].state = "active"

\* The session's time runs out, or revoke() is called for it.
EndSession(s, state) ==
    /\ Live(s)
    /\ state \in {"revoked", "expired"}
    /\ sessions' = [sessions EXCEPT ![s].state = state]
    /\ UNCHANGED <<credentials, revokedCredentials, orderVars>>

\* The resolver alone loses a credential: its own revoke(), or a key service that drops
\* one.  The manager is not told, and revokeCredential() finds nothing to revoke
\* afterwards: the sessions made with the credential stay what they are.
WithdrawCredential(k) ==
    /\ k \in credentials
    /\ credentials' = credentials \ {k}
    /\ UNCHANGED <<sessions, revokedCredentials, orderVars>>

\* revokeCredential(): the credential and every session made with it.  It raises for a
\* credential that the resolver has not, and for resolvers of another class.
RevokeResolverOnly(k) ==
    /\ k \in credentials
    /\ credentials' = credentials \ {k}
    /\ revokedCredentials' = revokedCredentials \cup {k}
    /\ UNCHANGED <<sessions, orderVars>>

RevokeCredential(k) ==
    /\ k \in credentials
    /\ credentials' = credentials \ {k}
    /\ revokedCredentials' = revokedCredentials \cup {k}
    /\ sessions' = [s \in Session |->
           IF Live(s) /\ sessions[s].credential = k
           THEN [sessions[s] EXCEPT !.state = "revoked"] ELSE sessions[s]]
    /\ UNCHANGED orderVars

-----------------------------------------------------------------------------
(* The gateway.                                                            *)

\* Submissions leave the window of one second.
WindowSlides ==
    /\ recent > 0
    /\ recent' \in 0..(recent - 1)
    /\ UNCHANGED <<credentials, sessions, outcomes, submissions, revokedCredentials, sent, told>>

\* The session is validated, then the rate limited: an attempt that is refused
\* raises, and one that is only answered again counts as well.
MaySubmit(s) == Live(s) /\ recent < MaxRate

AcceptedBefore(o) == outcomes[o].outcome = "ACCEPTED"

\* A client order that has a broker id is not sent again.
Mapped(o) == outcomes[o].broker # 0

\* What the caller of a mapped order is told: anything but an acceptance is
\* TIMEOUT_UNKNOWN, a rejection too.
Repeated(o) ==
    [outcome |-> IF outcomes[o].outcome = "ACCEPTED" THEN "ACCEPTED" ELSE "TIMEOUT_UNKNOWN",
     broker |-> outcomes[o].broker]

\* The answer of the broker to the n-th order; no answer is lost, or taken for an
\* acceptance where the gateway is set up so.
Answered(n, result) ==
    IF result = "none" /\ ~UnknownIsAccepted THEN Lost
    ELSE [outcome |-> IF result = "reject" THEN "REJECTED" ELSE "ACCEPTED", broker |-> n]

\* submit().
GatewaySubmit(s, o, result, answer) ==
    /\ MaySubmit(s)
    /\ recent' = recent + 1
    /\ IF Mapped(o)
       THEN answer = Repeated(o) /\ UNCHANGED <<outcomes, sent>>
       ELSE LET n == Len(sent) + 1
            IN /\ n <= MaxSends
               /\ answer = Answered(n, result)
               /\ outcomes' = [outcomes EXCEPT ![o] = answer]
               /\ sent' = Append(sent, [order |-> o, session |-> s])

Result == {"accept", "reject", "none"}

SubmitDirectly(s, o) ==
    /\ o \in DirectOrder
    /\ \E result \in Result, answer \in Answer :
        /\ GatewaySubmit(s, o, result, answer)
        /\ told' = told \cup {<<o, answer>>}
    /\ UNCHANGED <<credentials, sessions, revokedCredentials, submissions>>

-----------------------------------------------------------------------------
(* The adapter.                                                            *)

\* A recorded answer is given again, without the gateway.
SettledBefore(o) == submissions[o].broker # 0

Recorded(o) == submissions[o] # NoAnswer

Record(o, answer) ==
    /\ submissions' = [submissions EXCEPT ![o] = answer]
    /\ told' = told \cup {<<o, answer>>}

\* submitOrder(): a refused attempt raises and is not recorded.
SubmitByAdapter(s, o) ==
    /\ o \notin DirectOrder
    /\ \/ /\ Recorded(o)
          /\ told' = told \cup {<<o, submissions[o]>>}
          /\ UNCHANGED <<recent, outcomes, submissions, sent>>
       \/ /\ ~Recorded(o)
          /\ \E result \in Result, answer \in Answer :
              GatewaySubmit(s, o, result, answer) /\ Record(o, answer)
       \/ /\ ~Recorded(o)
          /\ Record(o, Lost)
          /\ UNCHANGED <<recent, outcomes, sent>>
    /\ UNCHANGED <<credentials, sessions, revokedCredentials>>

BrokerNext ==
    \/ \E s \in Session, k \in Credential : Authenticate(s, k)
    \/ \E s \in Session, state \in {"revoked", "expired"} : EndSession(s, state)
    \/ \E k \in Credential : RevokeCredential(k) \/ WithdrawCredential(k)
    \/ WindowSlides
    \/ \E s \in Session, o \in BrokerOrder : SubmitDirectly(s, o) \/ SubmitByAdapter(s, o)

BrokerSpec == BrokerInit /\ [][BrokerNext]_brokerVars

-----------------------------------------------------------------------------
\* An order is sent at most once through the adapter, whatever is lost, refused or
\* retried; an order submitted to the gateway is sent again only while every
\* answer to it was lost, so nothing follows the number it is mapped to.
BrokerSendsOnce ==
    \A m, n \in Sends : m < n /\ sent[m].order = sent[n].order =>
        /\ sent[n].order \in DirectOrder
        /\ outcomes[sent[m].order].broker # m

\* The answers about an order agree: they name one broker id, drawn for that order,
\* and never call it accepted once and rejected another time.
BrokerAnswersAgree ==
    \A x, y \in told :
        /\ x[2].broker # 0 =>
            x[2].broker \in Sends /\ sent[x[2].broker].order = x[1]
        /\ x[1] = y[1] /\ x[2].broker # 0 /\ y[2].broker # 0 =>
            /\ x[2].broker = y[2].broker
            /\ {x[2].outcome, y[2].outcome} # {"ACCEPTED", "REJECTED"}

\* No order is sent on a session that was revoked or has expired since it was made, or
\* whose credential was revoked by revokeCredential().  A credential that was withdrawn
\* at the resolver alone ends no session: orders are sent on those until they expire.
BrokerSendsAuthorised ==
    [][\A n \in Sends' \ Sends :
        /\ Live(sent'[n].session)
        /\ sessions[sent'[n].session].credential \notin revokedCredentials]_brokerVars
=============================================================================
