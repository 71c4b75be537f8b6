--------------------------- MODULE Trading_proofs ---------------------------
(***************************************************************************)
(* Proofs about BrokerOrders, MessageDelivery, Alerts, EventBus,           *)
(* GroupWorkers, Liquidity and Settlement, for any number of orders,       *)
(* sessions, messages, readers, alerts, consumers, events, groups and      *)
(* securities.                                                             *)
(***************************************************************************)
EXTENDS BrokerOrders, MessageDelivery, Alerts, EventBus, GroupWorkers, Liquidity, Settlement,
        FunctionLemmas, FiniteSetTheorems, TLAPS

(***************************************************************************)
(* BrokerOrders: what is sent, recorded and told about an order.           *)
(***************************************************************************)

\* The order the gateway maps is the one the number was drawn for, and the last.
MappingSound == \A o \in BrokerOrder :
    /\ outcomes[o].outcome = "NONE" => outcomes[o].broker = 0
    /\ outcomes[o].broker # 0 =>
        /\ outcomes[o].broker \in Sends /\ sent[outcomes[o].broker].order = o
        /\ outcomes[o].outcome \in {"ACCEPTED", "REJECTED"}
        /\ \A n \in Sends : sent[n].order = o => n <= outcomes[o].broker

\* An order the adapter sent is on its record, and was sent once.
AdapterSound == \A n \in Sends : sent[n].order \notin DirectOrder =>
    /\ Recorded(sent[n].order)
    /\ \A m \in Sends : sent[m].order = sent[n].order => m = n

\* What callers were told agrees with the mapping, and the record was told.
ToldSound ==
    /\ \A x \in told : x[2].broker # 0 =>
        /\ x[2].broker = outcomes[x[1]].broker
        /\ x[2].outcome = "ACCEPTED" <=> outcomes[x[1]].outcome = "ACCEPTED"
    /\ \A o \in BrokerOrder : Recorded(o) => <<o, submissions[o]>> \in told

\* No session is live whose credential was revoked, and none can be made with it.
SessionsSound ==
    /\ credentials \cap revokedCredentials = {}
    /\ \A s \in Session : Live(s) => sessions[s].credential \notin revokedCredentials

BrokerInv == BrokerTypeOK /\ MappingSound /\ AdapterSound /\ ToldSound /\ SessionsSound

\* What is known of every number drawn.
LEMMA SentKnown ==
    ASSUME BrokerTypeOK
    PROVE  /\ Len(sent) \in Nat
           /\ \A n \in Sends : n \in Nat /\ sent[n].order \in BrokerOrder
<1> DEFINE Numbered == [order : BrokerOrder, session : Session]
<1>1. \A e \in Numbered : e.order \in BrokerOrder
  OBVIOUS
<1>2. sent \in Seq(Numbered)
  BY DEF BrokerTypeOK
<1> HIDE DEF Numbered
<1>3. \A n \in Sends : n \in Nat /\ sent[n] \in Numbered
  BY <1>2 DEF Sends
<1> QED
  BY <1>1, <1>2, <1>3

LEMMA SentAppended ==
    ASSUME BrokerTypeOK, NEW s \in Session, NEW o \in BrokerOrder,
           sent' = Append(sent, [order |-> o, session |-> s])
    PROVE  /\ Sends' = Sends \cup {Len(sent) + 1} /\ sent'[Len(sent) + 1].order = o
           /\ \A m \in Sends : sent'[m] = sent[m]
BY DEF BrokerTypeOK, Sends

LEMMA BrokerInitInv == BrokerInit => BrokerInv
BY BrokerConstants
DEF BrokerInit, BrokerInv, BrokerTypeOK, MappingSound, AdapterSound, ToldSound, SessionsSound,
    Recorded, Live, Sends, NoAnswer, NoSession

\* The invariant does not mention the window, and sessions only by themselves.
LEMMA SessionsOnly ==
    ASSUME BrokerInv, UNCHANGED <<outcomes, submissions, sent, told>>
    PROVE  (MappingSound /\ AdapterSound /\ ToldSound)'
BY DEF BrokerInv, MappingSound, AdapterSound, ToldSound, Sends, Recorded

LEMMA SessionsKeep ==
    ASSUME BrokerInv,
           \/ \E s \in Session, k \in Credential : Authenticate(s, k)
           \/ \E s \in Session, state \in {"revoked", "expired"} : EndSession(s, state)
           \/ \E k \in Credential : RevokeCredential(k) \/ WithdrawCredential(k)
           \/ WindowSlides
    PROVE  BrokerInv'
<1>1. UNCHANGED <<outcomes, submissions, sent, told>>
  BY DEF Authenticate, EndSession, RevokeCredential, WithdrawCredential, WindowSlides, orderVars
<1>2. CASE \E s \in Session, k \in Credential : Authenticate(s, k)
  <2>1. BrokerTypeOK' /\ SessionsSound'
    BY <1>2 DEF BrokerInv, BrokerTypeOK, SessionsSound, Authenticate, Live, SessionState, NoSession,
       orderVars
  <2> QED
    BY <1>1, <2>1, SessionsOnly DEF BrokerInv
<1>3. CASE \E s \in Session, state \in {"revoked", "expired"} : EndSession(s, state)
  <2>1. PICK s \in Session, state \in {"revoked", "expired"} : EndSession(s, state)
    BY <1>3
  <2>2. sessions[s] \in SessionState
    BY <2>1 DEF EndSession, Live, BrokerInv, BrokerTypeOK, NoSession
  <2>3. [sessions[s] EXCEPT !.state = state] \in SessionState
    BY <2>2 DEF SessionState
  <2>4. sessions' \in [Session -> SessionState \cup {NoSession}]
    BY <2>1, <2>3 DEF EndSession, BrokerInv, BrokerTypeOK
  <2>5. BrokerTypeOK' /\ SessionsSound'
    BY <1>1, <2>1, <2>4 DEF EndSession, BrokerInv, BrokerTypeOK, SessionsSound, Live, orderVars, SessionState
  <2> QED
    BY <1>1, <2>5, SessionsOnly DEF BrokerInv
<1>4. CASE \E k \in Credential : RevokeCredential(k)
  <2>1. PICK k \in Credential : RevokeCredential(k)
    BY <1>4
  <2>2. ASSUME NEW s \in Session, Live(s)
        PROVE  sessions[s] \in SessionState /\ [sessions[s] EXCEPT !.state = "revoked"] \in SessionState
    BY <2>2 DEF Live, BrokerInv, BrokerTypeOK, NoSession, SessionState
  <2>3. sessions' \in [Session -> SessionState \cup {NoSession}]
    BY <2>1, <2>2 DEF RevokeCredential, BrokerInv, BrokerTypeOK
  <2>4. ASSUME NEW s \in Session, Live(s)' PROVE (sessions[s].credential \notin revokedCredentials)'
    <3>1. CASE Live(s) /\ sessions[s].credential = k
      BY <2>1, <2>2, <2>4, <3>1 DEF RevokeCredential, Live, SessionState
    <3>2. CASE ~(Live(s) /\ sessions[s].credential = k)
      BY <2>1, <2>4, <3>2 DEF RevokeCredential, Live, BrokerInv, SessionsSound
    <3> QED
      BY <3>1, <3>2
  <2>5. BrokerTypeOK' /\ SessionsSound'
    BY <1>1, <2>1, <2>3, <2>4 DEF RevokeCredential, BrokerInv, BrokerTypeOK, SessionsSound, orderVars
  <2> QED
    BY <1>1, <2>5, SessionsOnly DEF BrokerInv
<1>5. CASE WindowSlides
  <2>1. BrokerTypeOK' /\ SessionsSound'
    BY <1>5, BrokerConstants DEF WindowSlides, BrokerInv, BrokerTypeOK, SessionsSound, Live
  <2> QED
    BY <1>1, <2>1, SessionsOnly DEF BrokerInv
<1>6. CASE \E k \in Credential : WithdrawCredential(k)
  <2>1. BrokerTypeOK' /\ SessionsSound'
    BY <1>6 DEF WithdrawCredential, BrokerInv, BrokerTypeOK, SessionsSound, Live, orderVars
  <2> QED
    BY <1>1, <2>1, SessionsOnly DEF BrokerInv
<1> QED
  BY <1>2, <1>3, <1>4, <1>5, <1>6

-----------------------------------------------------------------------------
\* An answer of the gateway: the mapping has it, and a new number is the order's only
\* mapping, nothing being told of a number before.
LEMMA GatewayAnswers ==
    ASSUME BrokerInv, NEW s \in Session, NEW o \in BrokerOrder, NEW result \in Result,
           NEW answer \in Answer, GatewaySubmit(s, o, result, answer)
    PROVE  /\ recent' \in 0..MaxRate
           /\ outcomes' \in [BrokerOrder -> Answer \cup {NoAnswer}]
           /\ sent' \in Seq([order : BrokerOrder, session : Session]) /\ Len(sent') <= MaxSends
           /\ MappingSound'
           /\ \A q \in BrokerOrder : outcomes[q].broker # 0 => outcomes'[q] = outcomes[q]
           /\ answer.broker # 0 =>
                /\ answer.broker = outcomes'[o].broker
                /\ answer.outcome = "ACCEPTED" <=> outcomes'[o].outcome = "ACCEPTED"
           /\ \/ UNCHANGED sent
              \/ sent' = Append(sent, [order |-> o, session |-> s])
<1>1. recent' \in 0..MaxRate
  BY BrokerConstants DEF GatewaySubmit, MaySubmit, BrokerInv, BrokerTypeOK
<1>2. CASE Mapped(o)
  <2>1. answer = Repeated(o) /\ UNCHANGED <<outcomes, sent>>
    BY <1>2 DEF GatewaySubmit
  <2> QED
    BY <1>1, <2>1 DEF BrokerInv, BrokerTypeOK, MappingSound, Repeated, Sends
<1>3. CASE ~Mapped(o)
  <2> DEFINE n == Len(sent) + 1
  <2>1. /\ n <= MaxSends /\ answer = Answered(n, result)
        /\ outcomes' = [outcomes EXCEPT ![o] = answer]
        /\ sent' = Append(sent, [order |-> o, session |-> s])
    BY <1>3 DEF GatewaySubmit
  <2>2. /\ sent' \in Seq([order : BrokerOrder, session : Session]) /\ Len(sent') = n /\ n \in Nat
        /\ sent'[n].order = o /\ \A m \in Sends : sent'[m] = sent[m]
        /\ Sends' = Sends \cup {n}
    BY <2>1 DEF BrokerInv, BrokerTypeOK, Sends
  <2>3. /\ answer.broker \in {0, n} /\ n # 0
        /\ answer.outcome # "NONE"
        /\ answer.broker # 0 => answer.outcome \in {"ACCEPTED", "REJECTED"}
    BY <2>1, <2>2 DEF Answered, Lost, Result
  <2>4. outcomes'[o] = answer /\ \A q \in BrokerOrder : q # o => outcomes'[q] = outcomes[q]
    BY <2>1 DEF BrokerInv, BrokerTypeOK
  <2>5. MappingSound'
    <3> SUFFICES ASSUME NEW q \in BrokerOrder
                 PROVE  /\ outcomes'[q].outcome = "NONE" => outcomes'[q].broker = 0
                        /\ outcomes'[q].broker # 0 =>
                            /\ outcomes'[q].broker \in Sends' /\ sent'[outcomes'[q].broker].order = q
                            /\ outcomes'[q].outcome \in {"ACCEPTED", "REJECTED"}
                            /\ \A m \in Sends' : sent'[m].order = q => m <= outcomes'[q].broker
      BY DEF MappingSound
    <3>1. CASE q = o
      BY <2>2, <2>3, <2>4, <3>1 DEF Sends, BrokerInv, BrokerTypeOK
    <3>2. CASE q # o
      BY <2>2, <2>4, <3>2 DEF BrokerInv, MappingSound
    <3> QED
      BY <3>1, <3>2
  <2> QED
    BY <1>1, <1>3, <2>1, <2>2, <2>4, <2>5 DEF Mapped, BrokerInv, BrokerTypeOK
<1> QED
  BY <1>2, <1>3

\* The answers told before an answer still agree, and the new one with them.
LEMMA AnswersAgree ==
    ASSUME BrokerInv, NEW s \in Session, NEW o \in BrokerOrder, NEW result \in Result,
           NEW answer \in Answer, GatewaySubmit(s, o, result, answer),
           told' = told \cup {<<o, answer>>}
    PROVE  \A x \in told' : x[2].broker # 0 =>
               /\ x[2].broker = outcomes'[x[1]].broker
               /\ x[2].outcome = "ACCEPTED" <=> outcomes'[x[1]].outcome = "ACCEPTED"
<1>1. \A x \in told : x[1] \in BrokerOrder
  BY DEF BrokerInv, BrokerTypeOK
<1>2. ASSUME NEW x \in told, x[2].broker # 0
      PROVE  /\ x[2].broker = outcomes'[x[1]].broker
             /\ x[2].outcome = "ACCEPTED" <=> outcomes'[x[1]].outcome = "ACCEPTED"
  <2>1. x[2].broker = outcomes[x[1]].broker /\ outcomes[x[1]].broker # 0
    BY <1>2 DEF BrokerInv, ToldSound
  <2>2. outcomes'[x[1]] = outcomes[x[1]]
    BY <1>1, <2>1, GatewayAnswers
  <2> QED
    BY <1>2, <2>1, <2>2 DEF BrokerInv, ToldSound
<1>3. answer.broker # 0 =>
          /\ answer.broker = outcomes'[o].broker
          /\ answer.outcome = "ACCEPTED" <=> outcomes'[o].outcome = "ACCEPTED"
  BY GatewayAnswers
<1> QED
  BY <1>2, <1>3

LEMMA DirectKeeps ==
    ASSUME BrokerInv, NEW s \in Session, NEW o \in BrokerOrder, SubmitDirectly(s, o)
    PROVE  BrokerInv'
<1>1. PICK result \in Result, answer \in Answer :
          GatewaySubmit(s, o, result, answer) /\ told' = told \cup {<<o, answer>>}
  BY DEF SubmitDirectly
<1>2. o \in DirectOrder /\ UNCHANGED <<credentials, sessions, revokedCredentials, submissions>>
  BY DEF SubmitDirectly
<1>3. BrokerTypeOK' /\ MappingSound' /\ SessionsSound'
  <2>1. told' \subseteq BrokerOrder \X Answer
    BY <1>1 DEF BrokerInv, BrokerTypeOK
  <2>2. MappingSound'
    BY <1>1, GatewayAnswers
  <2>3. SessionsSound'
    BY <1>2 DEF BrokerInv, SessionsSound, Live
  <2>4. BrokerTypeOK'
    BY <1>1, <1>2, <2>1, GatewayAnswers DEF BrokerInv, BrokerTypeOK
  <2> QED
    BY <2>2, <2>3, <2>4
<1>4. ToldSound'
  BY <1>1, <1>2, AnswersAgree DEF BrokerInv, ToldSound, Recorded
<1>5. AdapterSound'
  <2>1. CASE sent' = sent
    BY <1>2, <2>1 DEF BrokerInv, AdapterSound, Sends, Recorded
  <2>2. CASE sent' = Append(sent, [order |-> o, session |-> s])
    <3>1. /\ Sends' = Sends \cup {Len(sent) + 1} /\ sent'[Len(sent) + 1].order = o
          /\ \A m \in Sends : sent'[m] = sent[m]
      BY <2>2 DEF BrokerInv, BrokerTypeOK, Sends
    <3> QED
      BY <1>2, <3>1 DEF BrokerInv, AdapterSound, Recorded
  <2> QED
    BY <1>1, <2>1, <2>2, GatewayAnswers
<1> QED
  BY <1>3, <1>4, <1>5 DEF BrokerInv

\* What the adapter records is an answer, so that the order counts as recorded.
LEMMA RecordsAnswer ==
    ASSUME BrokerInv, NEW o \in BrokerOrder, NEW answer \in Answer, Record(o, answer)
    PROVE  /\ submissions' \in [BrokerOrder -> Answer \cup {NoAnswer}]
           /\ submissions'[o] = answer /\ Recorded(o)'
           /\ \A q \in BrokerOrder : q # o => submissions'[q] = submissions[q]
           /\ told' = told \cup {<<o, answer>>} /\ told' \subseteq BrokerOrder \X Answer
BY DEF BrokerInv, BrokerTypeOK, Record, Recorded, Answer, NoAnswer, Outcome

LEMMA AdapterKeeps ==
    ASSUME BrokerInv, NEW s \in Session, NEW o \in BrokerOrder, SubmitByAdapter(s, o)
    PROVE  BrokerInv'
<1>1. o \notin DirectOrder /\ UNCHANGED <<credentials, sessions, revokedCredentials>>
  BY DEF SubmitByAdapter
<1>2. CASE /\ Recorded(o) /\ told' = told \cup {<<o, submissions[o]>>}
           /\ UNCHANGED <<recent, outcomes, submissions, sent>>
  <2>1. told' = told
    BY <1>2 DEF BrokerInv, ToldSound
  <2>2. BrokerTypeOK' /\ SessionsSound'
    BY <1>1, <1>2, <2>1 DEF BrokerInv, BrokerTypeOK, SessionsSound, Live
  <2> QED
    BY <1>2, <2>1, <2>2, SessionsOnly DEF BrokerInv
<1>3. ASSUME ~Recorded(o), NEW result \in Result, NEW answer \in Answer,
             GatewaySubmit(s, o, result, answer), Record(o, answer)
      PROVE  BrokerInv'
  <2>1. BrokerTypeOK' /\ MappingSound' /\ SessionsSound'
    BY <1>1, <1>3, GatewayAnswers, RecordsAnswer DEF BrokerInv, BrokerTypeOK, SessionsSound, Live
  <2>2. ToldSound'
    BY <1>3, AnswersAgree, RecordsAnswer DEF BrokerInv, ToldSound, Recorded
  <2>3. \A q \in BrokerOrder : Recorded(q) => Recorded(q)'
    BY <1>3, RecordsAnswer DEF Recorded
  <2>4. AdapterSound'
    <3>1. CASE sent' = sent
      <4>1. Sends' = Sends
        BY <3>1 DEF Sends
      <4> QED
        BY <2>3, <3>1, <4>1, SentKnown DEF BrokerInv, AdapterSound
    <3>2. CASE sent' = Append(sent, [order |-> o, session |-> s])
      <4>1. /\ Sends' = Sends \cup {Len(sent) + 1} /\ sent'[Len(sent) + 1].order = o
            /\ \A m \in Sends : sent'[m] = sent[m] /\ sent[m].order \in BrokerOrder
        BY <3>2, SentKnown, SentAppended DEF BrokerInv
      <4>2. \A m \in Sends : sent[m].order # o
        BY <1>1, <1>3 DEF BrokerInv, AdapterSound
      <4> QED
        BY <1>3, <2>3, <4>1, <4>2, RecordsAnswer DEF BrokerInv, AdapterSound
    <3> QED
      BY <1>3, <3>1, <3>2, GatewayAnswers
  <2> QED
    BY <2>1, <2>2, <2>4 DEF BrokerInv
<1>4. CASE ~Recorded(o) /\ Record(o, Lost) /\ UNCHANGED <<recent, outcomes, sent>>
  <2>1. Lost \in Answer
    BY BrokerConstants DEF Lost, Answer, Outcome
  <2>2. BrokerTypeOK' /\ SessionsSound' /\ MappingSound'
    BY <1>1, <1>4, <2>1, RecordsAnswer
    DEF BrokerInv, BrokerTypeOK, SessionsSound, Live, MappingSound, Sends
  <2>3. \A q \in BrokerOrder : Recorded(q) => Recorded(q)'
    BY <1>4, <2>1, RecordsAnswer DEF Recorded
  <2>4. AdapterSound'
    <3>1. Sends' = Sends
      BY <1>4 DEF Sends
    <3> QED
      BY <1>4, <2>3, <3>1, SentKnown DEF BrokerInv, AdapterSound
  <2>5. ToldSound'
    BY <1>4, <2>1, RecordsAnswer DEF BrokerInv, ToldSound, Recorded, Lost
  <2> QED
    BY <2>2, <2>4, <2>5 DEF BrokerInv
<1> QED
  BY <1>2, <1>3, <1>4 DEF SubmitByAdapter

LEMMA BrokerStepKeeps == BrokerInv /\ [BrokerNext]_brokerVars => BrokerInv'
<1> SUFFICES ASSUME BrokerInv, [BrokerNext]_brokerVars PROVE BrokerInv'
  OBVIOUS
<1>1. CASE UNCHANGED brokerVars
  <2>1. BrokerTypeOK' /\ SessionsSound'
    BY <1>1 DEF brokerVars, BrokerInv, BrokerTypeOK, SessionsSound, Live
  <2> QED
    BY <1>1, <2>1, SessionsOnly DEF brokerVars, BrokerInv
<1> QED
  BY <1>1, SessionsKeep, DirectKeeps, AdapterKeeps DEF BrokerNext

\* Type correctness and what is sent, recorded and told.
THEOREM BrokerInvariant == BrokerSpec => []BrokerInv
BY BrokerInitInv, BrokerStepKeeps, PTL DEF BrokerSpec

\* An order is sent once, or again while every answer to it was lost.
THEOREM BrokerSendsOnceHolds == BrokerSpec => []BrokerSendsOnce
<1>1. BrokerInv => BrokerSendsOnce
  <2> SUFFICES ASSUME BrokerInv, NEW m \in Sends, NEW n \in Sends, m < n,
                      sent[m].order = sent[n].order
               PROVE  sent[n].order \in DirectOrder /\ outcomes[sent[m].order].broker # m
    BY DEF BrokerSendsOnce
  <2>1. sent[m].order \in BrokerOrder /\ m \in Nat /\ n \in Nat
    BY SentKnown DEF BrokerInv
  <2> QED
    BY <2>1 DEF BrokerInv, AdapterSound, MappingSound, Sends
<1> QED
  BY <1>1, BrokerInvariant, PTL

\* All answers about an order name one broker id, and agree whether it was accepted.
THEOREM BrokerAnswersAgreeHolds == BrokerSpec => []BrokerAnswersAgree
<1>1. BrokerInv => BrokerAnswersAgree
  <2> SUFFICES ASSUME BrokerInv PROVE BrokerAnswersAgree
    OBVIOUS
  <2>1. \A x \in told : x[1] \in BrokerOrder
    BY DEF BrokerInv, BrokerTypeOK
  <2>2. ASSUME NEW x \in told, x[2].broker # 0
        PROVE  /\ x[2].broker = outcomes[x[1]].broker
               /\ x[2].outcome = "ACCEPTED" <=> outcomes[x[1]].outcome = "ACCEPTED"
               /\ x[2].broker \in Sends /\ sent[x[2].broker].order = x[1]
    <3>1. /\ x[2].broker = outcomes[x[1]].broker
          /\ x[2].outcome = "ACCEPTED" <=> outcomes[x[1]].outcome = "ACCEPTED"
      BY <2>2 DEF BrokerInv, ToldSound
    <3> QED
      BY <2>1, <2>2, <3>1 DEF BrokerInv, MappingSound, Mapped
  <2>3. ASSUME NEW x \in told, NEW y \in told, x[1] = y[1], x[2].broker # 0, y[2].broker # 0
        PROVE  /\ x[2].broker = y[2].broker
               /\ {x[2].outcome, y[2].outcome} # {"ACCEPTED", "REJECTED"}
    <3>1. x[2].outcome = "ACCEPTED" <=> y[2].outcome = "ACCEPTED"
      BY <2>2, <2>3
    <3>2. "ACCEPTED" # "REJECTED"
      OBVIOUS
    <3> QED
      BY <2>2, <2>3, <3>1, <3>2
  <2> QED
    BY <2>2, <2>3 DEF BrokerAnswersAgree
<1> QED
  BY <1>1, BrokerInvariant, PTL

\* What is sent is sent on a live session, of a credential that was not revoked.
THEOREM BrokerSendsAuthorisedHolds == BrokerSpec => BrokerSendsAuthorised
<1>1. ASSUME BrokerInv, [BrokerNext]_brokerVars, NEW n \in Sends' \ Sends
      PROVE  Live(sent'[n].session) /\ sessions[sent'[n].session].credential \notin revokedCredentials
  <2>1. PICK s \in Session, o \in BrokerOrder, result \in Result, answer \in Answer :
            GatewaySubmit(s, o, result, answer)
    BY <1>1
    DEF BrokerNext, brokerVars, orderVars, Authenticate, EndSession, RevokeCredential,
        WithdrawCredential, WindowSlides, SubmitDirectly, SubmitByAdapter, Sends
  <2>2. MaySubmit(s) /\ sent' = Append(sent, [order |-> o, session |-> s])
    BY <1>1, <2>1 DEF GatewaySubmit, Sends
  <2>3. n = Len(sent) + 1 /\ sent'[n].session = s
    BY <1>1, <2>2 DEF Sends, BrokerInv, BrokerTypeOK
  <2> QED
    BY <1>1, <2>2, <2>3 DEF MaySubmit, BrokerInv, SessionsSound
<1>2. BrokerInv /\ [BrokerNext]_brokerVars =>
          [\A n \in Sends' \ Sends :
              /\ Live(sent'[n].session)
              /\ sessions[sent'[n].session].credential \notin revokedCredentials]_brokerVars
  BY <1>1
<1> QED
  BY <1>2, BrokerInvariant, PTL DEF BrokerSpec, BrokerSendsAuthorised

-----------------------------------------------------------------------------
(***************************************************************************)
(* Alerts: what was applied until a snapshot came.                         *)
(***************************************************************************)

AlertInv == AlertTypeOK /\ AlertInTurn

LEMMA AlertInitInv == AlertInit => AlertInv
BY AlertConstants
DEF AlertInit, AlertInv, AlertTypeOK, Contents, AlertInTurn, Waiting, Tracked, AlertVersion, NoStatus

LEMMA VersionNat == \A v \in AlertVersion : v \in 0..MaxVersion /\ v # 0
BY AlertConstants DEF AlertVersion

LEMMA StatusKinds == ModelStatus \subseteq AlertStatus /\ NoStatus \notin AlertStatus
BY DEF ModelStatus, AlertStatus, NoStatus

\* An event that comes too early only waits.
LEMMA GapKeeps ==
    ASSUME AlertInv, NEW a \in Alert, NEW v \in AlertVersion, NEW status \in ModelStatus,
           gaps' = [gaps EXCEPT ![a][v] = status], paused' = paused \cup {a},
           UNCHANGED <<lifecycle, hashes, filled>>
    PROVE  AlertInv'
<1>1. AlertTypeOK'
  BY StatusKinds DEF AlertInv, AlertTypeOK, Contents
<1>2. \A b \in Alert, u \in AlertVersion :
          gaps'[b][u] = IF b = a /\ u = v THEN status ELSE gaps[b][u]
  BY DEF AlertInv, AlertTypeOK, Contents
<1>3. \A b \in Alert : b \in paused' <=> Waiting(b)' # {}
  BY <1>2, StatusKinds DEF AlertInv, AlertInTurn, Waiting
<1> QED
  BY <1>1, <1>3 DEF AlertInv, AlertInTurn, Tracked

\* An event in turn is on record and is the alert's version and status.
LEMMA ApplyKeeps ==
    ASSUME AlertInv, NEW a \in Alert, NEW v \in AlertVersion, NEW status \in ModelStatus,
           hashes[a][v] = NoStatus, IsNotStale(a, v), FollowsOn(a, v), ~EndedBefore(a, v),
           Apply(a, v, status), hashes' = [hashes EXCEPT ![a][v] = status],
           UNCHANGED <<gaps, paused, filled>>
    PROVE  AlertInv'
<1>1. AlertTypeOK'
  BY StatusKinds, VersionNat DEF AlertInv, AlertTypeOK, Contents, Apply
<1>2. \A b \in Alert, u \in AlertVersion :
          hashes'[b][u] = IF b = a /\ u = v THEN status ELSE hashes[b][u]
  BY DEF AlertInv, AlertTypeOK, Contents
<1>3. /\ lifecycle'[a].version = v /\ lifecycle'[a].status = status
      /\ \A b \in Alert : b # a => lifecycle'[b] = lifecycle[b]
  BY DEF AlertInv, AlertTypeOK, Apply
<1>4. \A b \in Alert : b \in paused' <=> Waiting(b)' # {}
  BY DEF AlertInv, AlertInTurn, Waiting
<1>5. ASSUME NEW b \in Alert, b \notin filled, b # a
      PROVE  /\ \A u \in AlertVersion : hashes'[b][u] # NoStatus =>
                 /\ u <= lifecycle'[b].version
                 /\ u < lifecycle'[b].version =>
                     /\ u + 1 \in AlertVersion /\ hashes'[b][u + 1] # NoStatus
                     /\ hashes'[b][u] \notin AlertTerminal
             /\ lifecycle'[b].version # 0 =>
                 /\ lifecycle'[b].version \in AlertVersion
                 /\ hashes'[b][lifecycle'[b].version] # NoStatus
                 /\ hashes'[b][lifecycle'[b].version] = lifecycle'[b].status
  BY <1>2, <1>3, <1>5 DEF AlertInv, AlertInTurn, Tracked
<1>6. ASSUME a \notin filled, NEW u \in AlertVersion, hashes'[a][u] # NoStatus
      PROVE  /\ u <= v
             /\ u < v =>
                 /\ u + 1 \in AlertVersion /\ hashes'[a][u + 1] # NoStatus
                 /\ hashes'[a][u] \notin AlertTerminal
  <2>1. /\ u \in Nat /\ v \in Nat /\ u # 0 /\ v # 0 /\ MaxVersion \in Nat /\ v <= MaxVersion
        /\ lifecycle[a].version \in Nat
    BY AlertConstants DEF AlertVersion, AlertInv, AlertTypeOK
  <2>2. CASE u = v
    BY <2>1, <2>2
  <2>3. CASE u # v
    <3>1. /\ hashes'[a][u] = hashes[a][u] /\ hashes[a][u] # NoStatus
          /\ u <= lifecycle[a].version
      BY <1>2, <1>6, <2>3 DEF AlertInv, AlertInTurn
    <3>2. /\ Tracked(a) /\ hashes[a][lifecycle[a].version] = lifecycle[a].status
          /\ hashes[a][lifecycle[a].version] # NoStatus
      BY <1>6, <2>1, <3>1 DEF AlertInv, AlertInTurn, Tracked
    <3>3. v = lifecycle[a].version + 1 /\ lifecycle[a].status \notin AlertTerminal
      BY <2>1, <3>2 DEF IsNotStale, FollowsOn, EndedBefore
    <3>4. CASE u = lifecycle[a].version
      BY <1>2, <2>1, <3>1, <3>2, <3>3, <3>4, StatusKinds DEF AlertVersion
    <3>5. CASE u < lifecycle[a].version
      <4>1. u + 1 \in AlertVersion /\ hashes[a][u + 1] # NoStatus /\ hashes[a][u] \notin AlertTerminal
        BY <1>6, <3>1, <3>5 DEF AlertInv, AlertInTurn
      <4> QED
        BY <1>2, <2>1, <3>1, <3>3, <3>5, <4>1
    <3> QED
      BY <2>1, <3>1, <3>4, <3>5
  <2> QED
    BY <2>2, <2>3
<1>7. hashes'[a][v] = status /\ status # NoStatus
  BY <1>2, StatusKinds
<1>8. AlertInTurn'
  BY <1>3, <1>4, <1>5, <1>6, <1>7 DEF AlertInTurn, Tracked
<1> QED
  BY <1>1, <1>8 DEF AlertInv

\* A snapshot takes what waits up to it; the alert counts as filled if anything did.
LEMMA SnapshotKeeps ==
    ASSUME AlertInv, NEW a \in Alert, NEW verified \in AlertVersion,
           ApplyVerifiedSnapshot(a, verified)
    PROVE  AlertInv'
<1> DEFINE dueNow == {v \in Waiting(a) : v <= verified}
<1>1. /\ gaps' = [gaps EXCEPT ![a] = [v \in AlertVersion |-> IF v \in dueNow THEN NoStatus ELSE @[v]]]
      /\ paused' = IF Waiting(a) = dueNow THEN paused \ {a} ELSE paused
      /\ hashes' = hashes
      /\ \/ UNCHANGED <<lifecycle, filled>>
         \/ /\ filled' = filled \cup {a}
            /\ \E last \in dueNow : Apply(a, last, gaps[a][last])
  BY DEF ApplyVerifiedSnapshot
<1>2. \A b \in Alert, u \in AlertVersion :
          gaps'[b][u] = IF b = a /\ u \in dueNow THEN NoStatus ELSE gaps[b][u]
  BY <1>1 DEF AlertInv, AlertTypeOK, Contents
<1>3. \A b \in Alert : Waiting(b)' = IF b = a THEN Waiting(b) \ dueNow ELSE Waiting(b)
  BY <1>2 DEF Waiting
<1>4. \A b \in Alert : b \in paused' <=> Waiting(b)' # {}
  <2>1. dueNow \subseteq Waiting(a)
    OBVIOUS
  <2> HIDE DEF dueNow
  <2> QED
    BY <1>1, <1>3, <2>1 DEF AlertInv, AlertInTurn
<1>5. gaps' \in Contents
  BY <1>1 DEF AlertInv, AlertTypeOK, Contents
<1>6. /\ lifecycle' \in [Alert -> [version : 0..MaxVersion, status : AlertStatus \cup {NoStatus}]]
      /\ filled' \subseteq Alert
      /\ \A b \in Alert : b \notin filled' => b \notin filled /\ lifecycle'[b] = lifecycle[b]
  <2>1. CASE UNCHANGED <<lifecycle, filled>>
    BY <2>1 DEF AlertInv, AlertTypeOK
  <2>2. ASSUME NEW last \in dueNow, Apply(a, last, gaps[a][last]), filled' = filled \cup {a}
        PROVE  <1>6!1 /\ <1>6!2 /\ <1>6!3
    <3>1. last \in AlertVersion /\ gaps[a][last] \in AlertStatus \cup {NoStatus}
      BY DEF Waiting, AlertInv, AlertTypeOK, Contents
    <3> QED
      BY <2>2, <3>1, VersionNat DEF Apply, AlertInv, AlertTypeOK
  <2> QED
    BY <1>1, <2>1, <2>2
<1>7. AlertTypeOK'
  BY <1>1, <1>5, <1>6 DEF AlertInv, AlertTypeOK
<1>8. AlertInTurn'
  BY <1>1, <1>4, <1>6 DEF AlertInv, AlertInTurn, Tracked
<1> QED
  BY <1>7, <1>8 DEF AlertInv

\* Versions are applied in turn, for any number of versions and any order of delivery.
THEOREM AlertInTurnHolds == AlertSpec => [](AlertTypeOK /\ AlertInTurn)
<1>1. ASSUME AlertInv, [AlertNext]_alertVars PROVE AlertInv'
  <2>1. CASE UNCHANGED alertVars
    BY <1>1, <2>1 DEF alertVars, AlertInv, AlertTypeOK, AlertInTurn, Waiting, Tracked
  <2>2. ASSUME NEW a \in Alert, NEW v \in AlertVersion, NEW status \in ModelStatus,
               Process(a, v, status)
        PROVE  AlertInv'
    BY <1>1, <2>2, GapKeeps, ApplyKeeps DEF Process
  <2> QED
    BY <1>1, <2>1, <2>2, SnapshotKeeps DEF AlertNext
<1>2. AlertInv /\ [AlertNext]_alertVars => AlertInv'
  BY <1>1
<1>3. AlertInv => AlertTypeOK /\ AlertInTurn
  BY DEF AlertInv
<1> QED
  BY AlertInitInv, <1>2, <1>3, PTL DEF AlertSpec

-----------------------------------------------------------------------------
(***************************************************************************)
(* MessageDelivery: from the outbox to the effects.                        *)
(***************************************************************************)

OutboxRow == [id : Message, status : {"PENDING", "PUBLISHED"}]

\* The outbox: each message once, the published ones first.
OutboxSound ==
    /\ \A i, j \in 1..Len(outbox) : outbox[i].id = outbox[j].id => i = j
    /\ \A i, j \in 1..Len(outbox) :
           j < i /\ outbox[i].status = "PUBLISHED" => outbox[j].status = "PUBLISHED"

\* The stream: entries of messages whose turn had come, and all that are published.
StreamSound ==
    /\ \A k \in Entry : \E i \in 1..Len(outbox) : stream[k] = outbox[i].id
    /\ \A i \in 1..Len(outbox) : outbox[i].status = "PUBLISHED" =>
           \E k \in Entry : stream[k] = outbox[i].id

\* The readers: what the group was given waits for its acknowledgement or was taken.
ReadersSound ==
    /\ \A k \in 1..lastRead : k \in unacked \/ stream[k] \in inbox
    /\ \A r \in Reader : accepted[r] => hands[r] # <<>> /\ stream[Head(hands[r])] \in inbox

\* The effects: one for each message taken, which came by the stream.
AppliedSound ==
    /\ \A m \in inbox : \E k \in Entry : stream[k] = m
    /\ \A k \in 1..Len(applied) : applied[k] \in inbox
    /\ \A j, k \in 1..Len(applied) : applied[j] = applied[k] => j = k

DeliveryInv ==
    /\ DeliveryTypeOK
    /\ OutboxSound
    /\ StreamSound
    /\ DeliveryInCommitOrder
    /\ ReadersSound
    /\ AppliedSound

LEMMA DeliveryInitInv == DeliveryInit => DeliveryInv
BY DEF DeliveryInit, DeliveryInv, DeliveryTypeOK, OutboxSound, StreamSound, DeliveryInCommitOrder,
   ReadersSound, AppliedSound, Entry

LEMMA OutboxKnown ==
    ASSUME DeliveryTypeOK
    PROVE  /\ Len(outbox) \in Nat /\ outbox \in Seq(OutboxRow)
           /\ \A i \in 1..Len(outbox) :
                  i \in Nat /\ outbox[i].id \in Message /\ outbox[i].status \in {"PENDING", "PUBLISHED"}
<1>1. \A e \in OutboxRow : e.id \in Message /\ e.status \in {"PENDING", "PUBLISHED"}
  BY DEF OutboxRow
<1>2. outbox \in Seq(OutboxRow)
  BY DEF DeliveryTypeOK, OutboxRow
<1>3. \A i \in 1..Len(outbox) : i \in Nat /\ outbox[i] \in OutboxRow
  BY <1>2
<1> QED
  BY <1>1, <1>2, <1>3

LEMMA StreamKnown ==
    ASSUME DeliveryTypeOK
    PROVE  Len(stream) \in Nat /\ \A k \in Entry : k \in Nat /\ stream[k] \in Message
BY DEF DeliveryTypeOK, Entry

-----------------------------------------------------------------------------
\* A commit leaves the rows that are there and adds pending ones of new messages.
LEMMA CommitKeeps ==
    ASSUME DeliveryInv, NEW messages \in Transaction, CommitTransaction(messages)
    PROVE  DeliveryInv'
<1> DEFINE n == Len(outbox)
           more == [i \in 1..Len(messages) |-> [id |-> messages[i], status |-> "PENDING"]]
<1>1. messages \in Seq(Message) /\ \A i, j \in 1..Len(messages) : messages[i] = messages[j] => i = j
  BY DeliveryConstants
<1>2. \A i \in 1..Len(messages) : [id |-> messages[i], status |-> "PENDING"] \in OutboxRow
  BY <1>1 DEF OutboxRow
<1>3. /\ more \in Seq(OutboxRow) /\ Len(more) = Len(messages) /\ Len(messages) \in Nat
      /\ \A i \in 1..Len(messages) : more[i].id = messages[i] /\ more[i].status = "PENDING"
  BY <1>1, <1>2
<1>4. outbox' = outbox \o more /\ UNCHANGED <<stream, readerVars>>
  BY DEF CommitTransaction
<1>5. \A i \in 1..Len(messages) : messages[i] \notin Known
  BY DEF CommitTransaction
<1> HIDE DEF more
<1>6. /\ outbox' \in Seq(OutboxRow) /\ Len(outbox') = n + Len(messages) /\ n \in Nat
      /\ \A i \in 1..n : outbox'[i] = outbox[i]
      /\ \A i \in (n + 1)..(n + Len(messages)) :
             /\ i - n \in 1..Len(messages)
             /\ outbox'[i].id = messages[i - n] /\ outbox'[i].status = "PENDING"
  <2>1. n \in Nat /\ outbox \in Seq(OutboxRow)
    BY OutboxKnown DEF DeliveryInv
  <2>2. outbox' \in Seq(OutboxRow) /\ Len(outbox') = n + Len(messages)
    <3>1. more \in Seq(OutboxRow) /\ Len(more) = Len(messages)
      BY <1>3
    <3>2. outbox \o more \in Seq(OutboxRow) /\ Len(outbox \o more) = n + Len(more)
      BY <2>1, <3>1
    <3> QED
      BY <1>4, <3>1, <3>2
  <2>3. \A i \in 1..n : outbox'[i] = outbox[i]
    BY <1>3, <1>4, <2>1
  <2>4. ASSUME NEW i \in (n + 1)..(n + Len(messages))
        PROVE  i - n \in 1..Len(messages) /\ outbox'[i] = more[i - n]
    <3>1. i \in Int /\ n + 1 <= i /\ i <= n + Len(messages)
      BY <1>3, <2>1
    <3> QED
      BY <1>3, <1>4, <2>1, <3>1
  <2> QED
    BY <1>3, <2>1, <2>2, <2>3, <2>4
<1>7. DeliveryTypeOK'
  BY <1>4, <1>6 DEF DeliveryInv, DeliveryTypeOK, readerVars, OutboxRow
<1>8. \A i \in 1..n, j \in (n + 1)..(n + Len(messages)) : outbox[i].id # outbox'[j].id
  BY <1>5, <1>6 DEF Known
<1>9. \A i \in 1..Len(outbox') : i \in Nat /\ (i \in 1..n \/ i \in (n + 1)..(n + Len(messages)))
  BY <1>3, <1>6
<1>10. OutboxSound'
  <2>1. ASSUME NEW i \in 1..Len(outbox'), NEW j \in 1..Len(outbox'), outbox'[i].id = outbox'[j].id
        PROVE  i = j
    <3>1. CASE i \in 1..n /\ j \in 1..n
      BY <1>6, <2>1, <3>1 DEF DeliveryInv, OutboxSound
    <3>2. CASE i \in (n + 1)..(n + Len(messages)) /\ j \in (n + 1)..(n + Len(messages))
      <4>1. i - n = j - n
        BY <1>1, <1>6, <2>1, <3>2
      <4> QED
        BY <1>6, <1>9, <4>1
    <3> QED
      BY <1>6, <1>8, <1>9, <2>1, <3>1, <3>2
  <2>2. ASSUME NEW i \in 1..Len(outbox'), NEW j \in 1..Len(outbox'), j < i,
               outbox'[i].status = "PUBLISHED"
        PROVE  outbox'[j].status = "PUBLISHED"
    <3>1. i \in 1..n
      BY <1>6, <1>9, <2>2
    <3>2. j \in 1..n
      BY <1>6, <1>9, <2>2, <3>1
    <3> QED
      BY <1>6, <2>2, <3>1, <3>2 DEF DeliveryInv, OutboxSound
  <2> QED
    BY <2>1, <2>2 DEF OutboxSound
<1>11. StreamSound'
  <2>1. Entry' = Entry /\ stream' = stream
    BY <1>4 DEF Entry
  <2>2. \A i \in 1..n : i \in 1..Len(outbox')
    BY <1>3, <1>6
  <2>3. ASSUME NEW i \in 1..Len(outbox'), outbox'[i].status = "PUBLISHED"
        PROVE  i \in 1..n /\ outbox[i].status = "PUBLISHED" /\ outbox[i].id = outbox'[i].id
    BY <1>6, <1>9, <2>3
  <2> QED
    BY <1>6, <2>1, <2>2, <2>3 DEF DeliveryInv, StreamSound
<1>12. DeliveryInCommitOrder'
  <2> SUFFICES ASSUME NEW i \in 1..Len(outbox'), NEW j \in 1..Len(outbox'), NEW k \in Entry,
                      i < j, stream[k] = outbox'[j].id
               PROVE  \E l \in 1..(k - 1) : stream[l] = outbox'[i].id
    <3>1. stream' = stream /\ Entry' = Entry
      BY <1>4 DEF Entry
    <3> QED
      BY <3>1 DEF DeliveryInCommitOrder
  <2>1. PICK m \in 1..n : stream[k] = outbox[m].id
    BY DEF DeliveryInv, StreamSound
  <2>2. j \in 1..n
    BY <1>8, <1>9, <2>1
  <2>3. i \in 1..n
    BY <1>6, <1>9, <2>2
  <2> QED
    BY <1>6, <2>2, <2>3 DEF DeliveryInv, DeliveryInCommitOrder
<1>13. ReadersSound' /\ AppliedSound'
  BY <1>4 DEF DeliveryInv, ReadersSound, AppliedSound, readerVars, Entry
<1> QED
  BY <1>7, <1>10, <1>11, <1>12, <1>13 DEF DeliveryInv

\* A publication adds an entry after those of the messages before it, and the message
\* is marked or is not.
LEMMA PublicationKeeps ==
    ASSUME DeliveryInv, NEW i \in 1..Len(outbox), NextPending(i), AddEntry(i),
           Published(i) \/ outbox' = outbox, UNCHANGED readerVars
    PROVE  DeliveryInv'
<1>1. /\ Len(outbox') = Len(outbox) /\ outbox' \in Seq(OutboxRow) /\ i \in Nat /\ Len(outbox) \in Nat
      /\ \A j \in 1..Len(outbox) :
             /\ outbox'[j].id = outbox[j].id
             /\ j # i => outbox'[j].status = outbox[j].status
  <2>1. outbox[i] \in OutboxRow
    BY OutboxKnown DEF DeliveryInv
  <2>2. /\ [outbox[i] EXCEPT !.status = "PUBLISHED"] \in OutboxRow
        /\ [outbox[i] EXCEPT !.status = "PUBLISHED"].id = outbox[i].id
    BY <2>1 DEF OutboxRow
  <2>3. CASE outbox' = outbox
    BY <2>3, OutboxKnown DEF DeliveryInv
  <2>4. CASE Published(i)
    <3>1. outbox' = [outbox EXCEPT ![i] = [outbox[i] EXCEPT !.status = "PUBLISHED"]]
      BY <2>4 DEF Published
    <3>2. outbox' \in Seq(OutboxRow) /\ Len(outbox') = Len(outbox)
      BY <2>2, <3>1, OutboxKnown DEF DeliveryInv
    <3>3. /\ outbox'[i].id = outbox[i].id
          /\ \A j \in 1..Len(outbox) : j # i => outbox'[j] = outbox[j]
      BY <2>2, <3>1, OutboxKnown DEF DeliveryInv
    <3> QED
      BY <3>2, <3>3, OutboxKnown DEF DeliveryInv
  <2> QED
    BY <2>3, <2>4
<1>2. /\ stream' = Append(stream, outbox[i].id) /\ Len(stream) \in Nat
      /\ Len(stream') = Len(stream) + 1
      /\ Entry' = Entry \cup {Len(stream) + 1}
      /\ \A k \in Entry : stream'[k] = stream[k]
      /\ stream'[Len(stream) + 1] = outbox[i].id
      /\ stream' \in Seq(Message)
  BY OutboxKnown DEF DeliveryInv, DeliveryTypeOK, AddEntry, Entry
<1>3. DeliveryTypeOK'
  BY <1>1, <1>2 DEF DeliveryInv, DeliveryTypeOK, readerVars, OutboxRow
<1>4. \A j \in 1..Len(outbox) : j < i => outbox[j].status = "PUBLISHED"
  <2> TAKE j \in 1..Len(outbox)
  <2> HAVE j < i
  <2>1. j \in 1..(i - 1)
    BY <1>1
  <2> QED
    BY <2>1 DEF NextPending
<1>5. \A j \in 1..Len(outbox) : i < j => outbox[j].status # "PUBLISHED"
  BY DEF DeliveryInv, OutboxSound, NextPending
<1>6. OutboxSound'
  <2>1. \A j, k \in 1..Len(outbox) : outbox'[j].id = outbox'[k].id => j = k
    BY <1>1 DEF DeliveryInv, OutboxSound
  <2>2. \A j, k \in 1..Len(outbox) :
            k < j /\ outbox'[j].status = "PUBLISHED" => outbox'[k].status = "PUBLISHED"
    <3> SUFFICES ASSUME NEW j \in 1..Len(outbox), NEW k \in 1..Len(outbox), k < j,
                        outbox'[j].status = "PUBLISHED"
                 PROVE  outbox'[k].status = "PUBLISHED"
      OBVIOUS
    <3>1. j \in Nat /\ k \in Nat
      BY OutboxKnown DEF DeliveryInv
    <3>2. CASE j = i
      BY <1>1, <1>4, <3>1, <3>2
    <3>3. CASE j # i
      <4>1. outbox[j].status = "PUBLISHED"
        BY <1>1, <3>3
      <4>2. outbox[k].status = "PUBLISHED" /\ k # i
        BY <1>5, <4>1 DEF DeliveryInv, OutboxSound, NextPending
      <4> QED
        BY <1>1, <4>2
    <3> QED
      BY <3>2, <3>3
  <2> QED
    BY <1>1, <2>1, <2>2 DEF OutboxSound
<1>7. StreamSound'
  <2>1. ASSUME NEW k \in Entry' PROVE \E j \in 1..Len(outbox') : stream'[k] = outbox'[j].id
    <3>1. CASE k \in Entry
      <4>1. PICK j \in 1..Len(outbox) : stream[k] = outbox[j].id
        BY <3>1 DEF DeliveryInv, StreamSound
      <4> QED
        BY <1>1, <1>2, <3>1, <4>1
    <3> QED
      BY <1>1, <1>2, <2>1, <3>1
  <2>2. ASSUME NEW j \in 1..Len(outbox'), outbox'[j].status = "PUBLISHED"
        PROVE  \E k \in Entry' : stream'[k] = outbox'[j].id
    <3>1. CASE j = i
      BY <1>1, <1>2, <3>1
    <3>2. CASE j # i
      <4>1. j \in 1..Len(outbox) /\ outbox[j].status = "PUBLISHED"
        BY <1>1, <2>2, <3>2
      <4>2. PICK k \in Entry : stream[k] = outbox[j].id
        BY <4>1 DEF DeliveryInv, StreamSound
      <4> QED
        BY <1>1, <1>2, <4>1, <4>2
    <3> QED
      BY <3>1, <3>2
  <2> QED
    BY <2>1, <2>2 DEF StreamSound
<1>8. DeliveryInCommitOrder'
  <2> SUFFICES ASSUME NEW j \in 1..Len(outbox), NEW m \in 1..Len(outbox), NEW k \in Entry', j < m,
                      stream'[k] = outbox[m].id
               PROVE  \E l \in 1..(k - 1) : stream'[l] = outbox[j].id
    BY <1>1 DEF DeliveryInCommitOrder
  <2>1. CASE k \in Entry
    <3>1. PICK l \in 1..(k - 1) : stream[l] = outbox[j].id
      BY <1>2, <2>1 DEF DeliveryInv, DeliveryInCommitOrder
    <3>2. l \in Entry
      BY <1>2, <2>1, <3>1 DEF Entry
    <3> QED
      BY <1>2, <3>1, <3>2
  <2>2. CASE k = Len(stream) + 1
    <3>1. m = i
      BY <1>2, <2>2 DEF DeliveryInv, OutboxSound
    <3>2. PICK l \in Entry : stream[l] = outbox[j].id
      BY <1>4, <3>1 DEF DeliveryInv, StreamSound
    <3>3. l \in 1..(k - 1)
      BY <1>2, <2>2, <3>2 DEF Entry
    <3> QED
      BY <1>2, <3>2, <3>3
  <2> QED
    BY <1>2, <2>1, <2>2
<1>9. ReadersSound' /\ AppliedSound'
  <2>1. \A k \in 1..lastRead : k \in Entry
    BY <1>2 DEF DeliveryInv, DeliveryTypeOK, Entry
  <2>2. \A r \in Reader : hands[r] # <<>> => Head(hands[r]) \in Entry
    BY <2>1 DEF DeliveryInv, DeliveryTypeOK
  <2>3. UNCHANGED <<lastRead, unacked, hands, accepted, inbox, applied>>
    BY DEF readerVars
  <2> QED
    BY <1>2, <2>1, <2>2, <2>3 DEF DeliveryInv, ReadersSound, AppliedSound
<1> QED
  BY <1>3, <1>6, <1>7, <1>8, <1>9 DEF DeliveryInv

-----------------------------------------------------------------------------
\* What the readers do leaves the outbox and the stream alone.
LEMMA ReadersOnly ==
    ASSUME DeliveryInv, UNCHANGED <<outbox, stream>>
    PROVE  /\ Entry' = Entry
           /\ OutboxSound' /\ StreamSound' /\ DeliveryInCommitOrder'
<1>1. Entry' = Entry
  BY DEF Entry
<1>2. OutboxSound'
  BY DEF DeliveryInv, OutboxSound
<1>3. StreamSound'
  BY <1>1, Zenon DEF DeliveryInv, StreamSound
<1>4. DeliveryInCommitOrder'
  <2> SUFFICES ASSUME NEW i \in 1..Len(outbox), NEW j \in 1..Len(outbox), NEW k \in Entry,
                      i < j, stream[k] = outbox[j].id
               PROVE  \E l \in 1..(k - 1) : stream[l] = outbox[i].id
    BY <1>1 DEF DeliveryInCommitOrder
  <2> QED
    BY DEF DeliveryInv, DeliveryInCommitOrder
<1> QED
  BY <1>1, <1>2, <1>3, <1>4

LEMMA FirstInHand ==
    ASSUME DeliveryTypeOK, NEW r \in Reader, hands[r] # <<>>
    PROVE  /\ Head(hands[r]) \in 1..lastRead /\ Head(hands[r]) \in Entry
           /\ stream[Head(hands[r])] \in Message
           /\ Tail(hands[r]) \in Seq(1..lastRead)
<1>1. hands[r] \in Seq(1..lastRead) /\ lastRead \in 0..Len(stream) /\ Len(stream) \in Nat
  BY DEF DeliveryTypeOK
<1>2. Head(hands[r]) \in 1..lastRead /\ Tail(hands[r]) \in Seq(1..lastRead)
  <2> DEFINE Given == 1..lastRead
  <2>1. hands[r] \in Seq(Given) /\ hands[r] # <<>>
    BY <1>1
  <2> HIDE DEF Given
  <2>2. Head(hands[r]) \in Given /\ Tail(hands[r]) \in Seq(Given)
    BY <2>1
  <2> QED
    BY <2>2 DEF Given
<1> QED
  BY <1>1, <1>2, StreamKnown DEF Entry

LEMMA ReadNewKeeps ==
    ASSUME DeliveryInv, NEW r \in Reader, ReadNew(r)
    PROVE  DeliveryInv'
<1>1. PICK n \in Nat \ {0} :
          /\ lastRead' = lastRead + n /\ lastRead + n <= Len(stream)
          /\ unacked' = unacked \cup (lastRead + 1)..(lastRead + n)
          /\ hands' = [hands EXCEPT ![r] = [i \in 1..n |-> lastRead + i]]
  <2> DEFINE n == Least(Limit, Len(stream) - lastRead)
  <2>1. n \in Nat \ {0} /\ lastRead + n <= Len(stream)
    BY DeliveryConstants DEF ReadNew, Least, DeliveryInv, DeliveryTypeOK
  <2>2. /\ lastRead' = lastRead + n
        /\ unacked' = unacked \cup (lastRead + 1)..(lastRead + n)
        /\ hands' = [hands EXCEPT ![r] = [i \in 1..n |-> lastRead + i]]
    BY DEF ReadNew
  <2> HIDE DEF n
  <2> QED
    BY <2>1, <2>2
<1>2. hands[r] = <<>> /\ UNCHANGED <<outbox, stream, accepted, inbox, applied>>
  BY DEF ReadNew
<1>3. lastRead \in Nat /\ Len(stream) \in Nat /\ lastRead' \in 0..Len(stream)
  BY <1>1 DEF DeliveryInv, DeliveryTypeOK
<1>4. hands' \in [Reader -> Seq(1..lastRead')]
  <2>1. [i \in 1..n |-> lastRead + i] \in Seq(1..lastRead')
    BY <1>1, <1>3
  <2>2. \A q \in Reader : hands[q] \in Seq(1..lastRead')
    <3>1. 1..lastRead \subseteq 1..lastRead'
      BY <1>1, <1>3
    <3> DEFINE S == 1..lastRead
               T == 1..lastRead'
    <3>2. \A q \in Reader : hands[q] \in Seq(S)
      BY DEF DeliveryInv, DeliveryTypeOK
    <3> HIDE DEF S, T
    <3>3. S \subseteq T
      BY <3>1 DEF S, T
    <3>4. \A q \in Reader : hands[q] \in Seq(T)
      BY <3>2, <3>3
    <3> QED
      BY <3>4 DEF T
  <2> QED
    BY <1>1, <2>1, <2>2 DEF DeliveryInv, DeliveryTypeOK
<1>5. unacked' \subseteq 1..lastRead'
  BY <1>1, <1>3 DEF DeliveryInv, DeliveryTypeOK
<1>6. DeliveryTypeOK'
  BY <1>2, <1>3, <1>4, <1>5 DEF DeliveryInv, DeliveryTypeOK
<1>7. ReadersSound'
  <2>1. ASSUME NEW k \in 1..lastRead' PROVE k \in unacked' \/ stream[k] \in inbox
    <3>1. k \in 1..lastRead \/ k \in (lastRead + 1)..(lastRead + n)
      BY <1>1, <1>3
    <3> QED
      BY <1>1, <3>1 DEF DeliveryInv, ReadersSound
  <2>2. ASSUME NEW q \in Reader, accepted[q] PROVE hands'[q] = hands[q]
    BY <1>1, <1>2, <2>2 DEF DeliveryInv, DeliveryTypeOK, ReadersSound
  <2> QED
    BY <1>2, <2>1, <2>2 DEF DeliveryInv, ReadersSound
<1>8. AppliedSound'
  BY <1>2, ReadersOnly DEF DeliveryInv, AppliedSound
<1> QED
  BY <1>2, <1>6, <1>7, <1>8, ReadersOnly DEF DeliveryInv

\* A reader takes other entries in hand, or none: it had accepted nothing.
LEMMA HandKeeps ==
    ASSUME DeliveryInv, NEW r \in Reader, NEW batch \in Seq(1..lastRead),
           hands' = [hands EXCEPT ![r] = batch],
           \/ accepted' = accepted /\ hands[r] = <<>>
           \/ accepted' = [accepted EXCEPT ![r] = FALSE],
           UNCHANGED <<outbox, stream, lastRead, unacked, inbox, applied>>
    PROVE  DeliveryInv'
<1>1. DeliveryTypeOK'
  BY DEF DeliveryInv, DeliveryTypeOK
<1>2. ASSUME NEW q \in Reader, accepted'[q] PROVE accepted[q] /\ hands'[q] = hands[q]
  BY <1>2 DEF DeliveryInv, DeliveryTypeOK, ReadersSound
<1>3. ReadersSound'
  BY <1>2 DEF DeliveryInv, ReadersSound
<1>4. AppliedSound'
  BY ReadersOnly DEF DeliveryInv, AppliedSound
<1> QED
  BY <1>1, <1>3, <1>4, ReadersOnly DEF DeliveryInv

LEMMA ReadPendingKeeps ==
    ASSUME DeliveryInv, NEW r \in Reader, ReadPending(r)
    PROVE  DeliveryInv'
<1>1. Cardinality(unacked) \in Nat /\ unacked \subseteq 1..lastRead
  <2>1. lastRead \in Nat /\ unacked \subseteq 1..lastRead
    BY DEF DeliveryInv, DeliveryTypeOK
  <2>2. IsFiniteSet(1..lastRead)
    BY <2>1, FS_Interval
  <2>3. IsFiniteSet(unacked)
    BY <2>1, <2>2, FS_Subset
  <2> QED
    BY <2>1, <2>3, FS_CardinalityType
<1>2. PICK n \in Nat :
          \E batch \in [1..n -> unacked] : hands' = [hands EXCEPT ![r] = batch]
  BY <1>1, DeliveryConstants DEF ReadPending, Least
<1>3. PICK batch \in [1..n -> unacked] : hands' = [hands EXCEPT ![r] = batch]
  BY <1>2
<1>4. batch \in Seq(1..lastRead)
  <2> DEFINE Given == 1..lastRead
  <2>1. batch \in [1..n -> Given]
    BY <1>1
  <2> HIDE DEF Given
  <2>2. batch \in Seq(Given)
    BY <2>1
  <2> QED
    BY <2>2 DEF Given
<1> QED
  BY <1>3, <1>4, HandKeeps DEF ReadPending

LEMMA AcceptKeeps ==
    ASSUME DeliveryInv, NEW r \in Reader, AcceptEntry(r)
    PROVE  DeliveryInv'
<1>1. PICK m \in Message :
          /\ m = stream[Head(hands[r])]
          /\ inbox' = inbox \cup {m}
          /\ applied' = IF m \in inbox THEN applied ELSE Append(applied, m)
  BY FirstInHand DEF AcceptEntry, DeliveryInv
<1>2. /\ hands[r] # <<>> /\ accepted' = [accepted EXCEPT ![r] = TRUE]
      /\ UNCHANGED <<outbox, stream, lastRead, unacked, hands>>
  BY DEF AcceptEntry
<1>3. Head(hands[r]) \in Entry
  BY <1>2, FirstInHand DEF DeliveryInv
<1>4. DeliveryTypeOK'
  BY <1>1, <1>2 DEF DeliveryInv, DeliveryTypeOK
<1>5. ReadersSound'
  <2>1. \A q \in Reader : accepted'[q] => q = r \/ accepted[q]
    BY <1>2 DEF DeliveryInv, DeliveryTypeOK
  <2> QED
    BY <1>1, <1>2, <2>1 DEF DeliveryInv, ReadersSound
<1>6. AppliedSound'
  <2>1. \A x \in inbox' : \E k \in Entry' : stream'[k] = x
    BY <1>1, <1>2, <1>3, ReadersOnly DEF DeliveryInv, AppliedSound
  <2>2. CASE m \in inbox
    BY <1>1, <2>1, <2>2 DEF DeliveryInv, AppliedSound
  <2>3. CASE m \notin inbox
    <3>1. /\ Len(applied) \in Nat /\ Len(applied') = Len(applied) + 1 /\ applied'[Len(applied) + 1] = m
          /\ \A k \in 1..Len(applied) : applied'[k] = applied[k]
      BY <1>1, <2>3 DEF DeliveryInv, DeliveryTypeOK
    <3>2. \A k \in 1..Len(applied') : k \in 1..Len(applied) \/ k = Len(applied) + 1
      BY <3>1
    <3>3. \A k \in 1..Len(applied) : applied[k] # m
      BY <2>3 DEF DeliveryInv, AppliedSound
    <3>4. \A j, k \in 1..Len(applied) : applied[j] = applied[k] => j = k
      BY DEF DeliveryInv, AppliedSound
    <3>5. \A j, k \in 1..Len(applied') : applied'[j] = applied'[k] => j = k
      BY <3>1, <3>2, <3>3, <3>4
    <3>6. \A k \in 1..Len(applied') : applied'[k] \in inbox'
      BY <1>1, <3>1, <3>2 DEF DeliveryInv, AppliedSound
    <3> QED
      BY <2>1, <3>5, <3>6 DEF AppliedSound
  <2> QED
    BY <2>2, <2>3
<1> QED
  BY <1>2, <1>4, <1>5, <1>6, ReadersOnly DEF DeliveryInv

LEMMA AcknowledgeKeeps ==
    ASSUME DeliveryInv, NEW r \in Reader, Acknowledge(r)
    PROVE  DeliveryInv'
<1>1. /\ accepted[r] /\ unacked' = unacked \ {Head(hands[r])}
      /\ hands' = [hands EXCEPT ![r] = Tail(hands[r])]
      /\ accepted' = [accepted EXCEPT ![r] = FALSE]
      /\ UNCHANGED <<outbox, stream, lastRead, inbox, applied>>
  BY DEF Acknowledge
<1>2. hands[r] # <<>> /\ stream[Head(hands[r])] \in inbox
  BY <1>1 DEF DeliveryInv, ReadersSound
<1>3. Tail(hands[r]) \in Seq(1..lastRead)
  BY <1>2, FirstInHand DEF DeliveryInv
<1>4. DeliveryTypeOK'
  BY <1>1, <1>3 DEF DeliveryInv, DeliveryTypeOK
<1>5. ASSUME NEW q \in Reader, accepted'[q] PROVE accepted[q] /\ hands'[q] = hands[q]
  BY <1>1, <1>5 DEF DeliveryInv, DeliveryTypeOK
<1>6. ReadersSound'
  <2>1. \A k \in 1..lastRead : k \in unacked' \/ stream[k] \in inbox
    BY <1>1, <1>2 DEF DeliveryInv, ReadersSound
  <2>2. \A q \in Reader : accepted'[q] => hands'[q] # <<>> /\ stream[Head(hands'[q])] \in inbox
    BY <1>5 DEF DeliveryInv, ReadersSound
  <2> QED
    BY <1>1, <2>1, <2>2 DEF ReadersSound
<1>7. AppliedSound'
  BY <1>1, ReadersOnly DEF DeliveryInv, AppliedSound
<1> QED
  BY <1>1, <1>4, <1>6, <1>7, ReadersOnly DEF DeliveryInv

LEMMA DeliveryStepKeeps == DeliveryInv /\ [DeliveryNext]_deliveryVars => DeliveryInv'
<1> SUFFICES ASSUME DeliveryInv, [DeliveryNext]_deliveryVars PROVE DeliveryInv'
  OBVIOUS
<1>1. ASSUME NEW i \in 1..Len(outbox), Publish(i) PROVE DeliveryInv'
  BY <1>1, PublicationKeeps DEF Publish
<1>2. ASSUME NEW i \in 1..Len(outbox), PublishFails(i) PROVE DeliveryInv'
  BY <1>2, PublicationKeeps DEF PublishFails
<1>3. ASSUME NEW r \in Reader, StopReader(r) PROVE DeliveryInv'
  <2>1. <<>> \in Seq(1..lastRead)
    OBVIOUS
  <2> QED
    BY <1>3, <2>1, HandKeeps DEF StopReader
<1>4. CASE UNCHANGED deliveryVars
  <2>1. UNCHANGED <<outbox, stream, lastRead, unacked, hands, accepted, inbox, applied>>
    BY <1>4 DEF deliveryVars
  <2>2. DeliveryTypeOK' /\ ReadersSound' /\ AppliedSound'
    BY <2>1, ReadersOnly DEF DeliveryInv, DeliveryTypeOK, ReadersSound, AppliedSound
  <2> QED
    BY <2>1, <2>2, ReadersOnly DEF DeliveryInv
<1> QED
  BY <1>1, <1>2, <1>3, <1>4, CommitKeeps, ReadNewKeeps, ReadPendingKeeps, AcceptKeeps,
     AcknowledgeKeeps DEF DeliveryNext

\* Type correctness, and what the outbox, the stream and the readers hold.
THEOREM DeliveryInvariant == DeliverySpec => []DeliveryInv
BY DeliveryInitInv, DeliveryStepKeeps, PTL DEF DeliverySpec

\* The stream holds the messages in commit order, whatever publications fail.
THEOREM DeliveryInCommitOrderHolds == DeliverySpec => []DeliveryInCommitOrder
<1>1. DeliveryInv => DeliveryInCommitOrder
  BY DEF DeliveryInv
<1> QED
  BY <1>1, DeliveryInvariant, PTL

\* No message is lost or applied twice, for any number of readers that stop at will.
THEOREM DeliveryLosesNothingHolds == DeliverySpec => []DeliveryLosesNothing
<1>1. ASSUME DeliveryInv PROVE DeliveryLosesNothing
  <2>1. ASSUME NEW i \in 1..Len(outbox), outbox[i].status = "PUBLISHED"
        PROVE  \/ outbox[i].id \in inbox
               \/ \E k \in Entry : stream[k] = outbox[i].id /\ (k > lastRead \/ k \in unacked)
    <3>1. PICK k \in Entry : stream[k] = outbox[i].id
      BY <1>1, <2>1 DEF DeliveryInv, StreamSound
    <3>2. k \in 1..lastRead \/ k > lastRead
      BY <1>1, StreamKnown DEF DeliveryInv, DeliveryTypeOK, Entry
    <3> QED
      BY <1>1, <3>1, <3>2 DEF DeliveryInv, ReadersSound
  <2>2. ASSUME NEW k \in 1..Len(applied) PROVE applied[k] \in Known
    <3>1. PICK l \in Entry : stream[l] = applied[k]
      BY <1>1 DEF DeliveryInv, AppliedSound
    <3> QED
      BY <1>1, <3>1 DEF DeliveryInv, StreamSound, Known
  <2> QED
    BY <1>1, <2>1, <2>2 DEF DeliveryLosesNothing, DeliveryInv, AppliedSound
<1> QED
  BY <1>1, DeliveryInvariant, PTL

-----------------------------------------------------------------------------
(***************************************************************************)
(* EventBus: which calls a delivery owes.                                  *)
(***************************************************************************)

\* A consumer is registered once.
RegisteredOnce ==
    \A i, j \in 1..Len(subscriptions) : subscriptions[i] = subscriptions[j] => i = j

\* Nothing was delivered before the bus was frozen.
FrozenFirst == ~frozen => delivered = <<>> /\ calls = <<>> /\ stoppedBy = {} /\ due = {}

\* What waits belongs to the last event, which nobody has stopped.
DueSound == \A d \in due :
    /\ Now >= 1 /\ isolated[d] = 0
    /\ d \in Consumers(delivered[Now].type)
    /\ \A c \in Consumer : <<Now, c>> \notin stoppedBy

HistorySound ==
    /\ \A c \in Consumer : isolated[c] <= Now
    /\ \A x \in stoppedBy : x[1] \in 1..Now /\ x[2] \in Registered
    /\ \A k \in 1..Len(calls) : calls[k][1] \in 1..Now

\* The calls that returned are those owed, but for those that wait.
CallsOwed == \A i \in 1..Now, c \in Consumer :
    Returned(i, c) <=> Owed(i, c) /\ ~(i = Now /\ c \in due)

\* The calls came in the frozen order, and what waits comes behind them.
CallsOrdered ==
    /\ \A j, k \in 1..Len(calls) : j < k =>
        \/ calls[j][1] < calls[k][1]
        \/ calls[j][1] = calls[k][1] /\ Before(calls[j][2], calls[k][2])
    /\ \A k \in 1..Len(calls), d \in due : calls[k][1] = Now => Before(calls[k][2], d)

BusInv ==
    /\ BusTypeOK /\ RegisteredOnce /\ FrozenFirst /\ DueSound
    /\ HistorySound /\ CallsOwed /\ CallsOrdered

\* The frozen order is strict.
LEMMA BeforeStrict ==
    ASSUME BusTypeOK, RegisteredOnce, NEW c \in Registered, NEW d \in Registered, Before(c, d)
    PROVE  c # d /\ ~Before(d, c)
<1>1. Len(subscriptions) \in Nat
  BY DEF BusTypeOK
<1>2. c \in Consumer /\ d \in Consumer
  BY DEF BusTypeOK, Registered
<1>3. Subscription[c].rank \in Nat /\ Subscription[d].rank \in Nat
  BY <1>2, BusConstants
<1>4. RegisteredBefore(c, d) => ~RegisteredBefore(d, c) /\ c # d
  BY <1>1 DEF RegisteredOnce, RegisteredBefore
<1> QED
  BY <1>3, <1>4 DEF Before

LEMMA BusInitInv == BusInit => BusInv
<1> SUFFICES ASSUME BusInit PROVE BusInv
  OBVIOUS
<1>1. Now = 0 /\ calls = <<>> /\ due = {} /\ subscriptions = <<>> /\ stoppedBy = {}
  BY DEF BusInit, Now
<1>2. BusTypeOK
  <2>1. delivered = <<>> /\ clock = 0 /\ frozen = FALSE /\ failures = 0
        /\ isolated \in [Consumer -> Nat]
    BY DEF BusInit
  <2>2. 0 \in 0..MaxTs
    BY BusConstants
  <2>3. delivered \in Seq([type : EventType, ts : 0..MaxTs]) /\ calls \in Seq(Nat \X Consumer)
    BY <1>1, <2>1
  <2>4. due \subseteq Registered /\ stoppedBy \subseteq Nat \X Consumer
    BY <1>1
  <2>5. frozen \in BOOLEAN
    BY <2>1
  <2>6. subscriptions \in Seq(Consumer)
    BY <1>1
  <2>7. clock \in 0..MaxTs /\ failures \in Nat
    BY <2>1, <2>2
  <2> QED
    BY <2>1, <2>3, <2>4, <2>5, <2>6, <2>7 DEF BusTypeOK
<1>3. RegisteredOnce /\ FrozenFirst /\ DueSound /\ HistorySound
  BY <1>1 DEF BusInit, RegisteredOnce, FrozenFirst, DueSound, HistorySound
<1>4. CallsOwed /\ CallsOrdered
  BY <1>1 DEF CallsOwed, CallsOrdered
<1> QED
  BY <1>2, <1>3, <1>4 DEF BusInv

\* Which consumers there are and how they are ordered changes with the subscriptions.
LEMMA OrderKept ==
    ASSUME UNCHANGED subscriptions
    PROVE  /\ Registered' = Registered
           /\ \A c, d : Before(c, d)' <=> Before(c, d)
BY DEF Registered, Before, RegisteredBefore

\* What a delivery owes changes with the consumers, the events and what stopped them.
LEMMA OwedKept ==
    ASSUME UNCHANGED <<subscriptions, delivered, isolated, stoppedBy>>
    PROVE  \A i, c : Owed(i, c)' <=> Owed(i, c)
<1>1. \A c, d : Before(c, d)' <=> Before(c, d)
  BY OrderKept
<1>2. \A i, c : CutOff(i, c)' <=> CutOff(i, c)
  BY <1>1 DEF CutOff
<1>3. \A i : Consumers(delivered[i].type)' = Consumers(delivered[i].type)
  BY OrderKept DEF Consumers
<1> QED
  BY <1>2, <1>3 DEF Owed

LEMMA CallsKept ==
    ASSUME BusInv, UNCHANGED <<subscriptions, delivered, isolated, stoppedBy, calls, due>>
    PROVE  DueSound' /\ HistorySound' /\ CallsOwed' /\ CallsOrdered'
<1>1. Now' = Now /\ \A i, c : Returned(i, c)' <=> Returned(i, c)
  BY DEF Now, Returned
<1>2. Registered' = Registered /\ \A c, d : Before(c, d)' <=> Before(c, d)
  BY OrderKept
<1>3. \A t : Consumers(t)' = Consumers(t)
  BY <1>2 DEF Consumers
<1>4. DueSound' /\ HistorySound'
  BY <1>1, <1>2, <1>3 DEF BusInv, DueSound, HistorySound
<1>5. CallsOwed'
  BY <1>1, OwedKept DEF BusInv, CallsOwed
<1>6. CallsOrdered'
  BY <1>1, <1>2 DEF BusInv, CallsOrdered
<1> QED
  BY <1>4, <1>5, <1>6

LEMMA SubscribeKeeps ==
    ASSUME BusInv, NEW c \in Consumer, Subscribe(c) PROVE BusInv'
<1>1. ~frozen /\ c \notin Registered /\ subscriptions' = Append(subscriptions, c)
  BY DEF Subscribe, Subscribes
<1>2. delivered = <<>> /\ calls = <<>> /\ stoppedBy = {} /\ due = {}
  BY <1>1 DEF BusInv, FrozenFirst
<1>3. /\ delivered' = <<>> /\ calls' = <<>> /\ stoppedBy' = {} /\ due' = {}
      /\ UNCHANGED <<frozen, clock, failures, isolated>>
  BY <1>2 DEF Subscribe
<1>4. subscriptions' \in Seq(Consumer)
  BY <1>1 DEF BusInv, BusTypeOK
<1>5. BusTypeOK'
  BY <1>3, <1>4, BusConstants DEF BusInv, BusTypeOK
<1>6. RegisteredOnce'
  <2>1. /\ Len(subscriptions) \in Nat /\ Len(subscriptions') = Len(subscriptions) + 1
        /\ subscriptions'[Len(subscriptions) + 1] = c
        /\ \A i \in 1..Len(subscriptions) : subscriptions'[i] = subscriptions[i]
    BY <1>1 DEF BusInv, BusTypeOK
  <2>2. \A i \in 1..Len(subscriptions) : subscriptions[i] # c
    BY <1>1 DEF Registered
  <2> QED
    BY <2>1, <2>2 DEF BusInv, RegisteredOnce
<1>7. HistorySound'
  BY <1>2, <1>3 DEF BusInv, HistorySound, Now
<1> QED
  BY <1>3, <1>5, <1>6, <1>7 DEF BusInv, FrozenFirst, DueSound, CallsOwed, CallsOrdered, Now

LEMMA DeliverKeeps ==
    ASSUME BusInv, NEW type \in EventType, NEW ts \in 0..MaxTs, Deliver(type, ts) PROVE BusInv'
<1>1. due = {} /\ frozen' = TRUE /\ UNCHANGED <<subscriptions, failures, isolated, calls, stoppedBy>>
  BY DEF Deliver
<1>2. CASE ts < clock
  <2>1. UNCHANGED <<clock, delivered, due>>
    BY <1>2 DEF Deliver
  <2> QED
    BY <1>1, <2>1, OrderKept, CallsKept DEF BusInv, BusTypeOK, RegisteredOnce, FrozenFirst
<1>3. CASE ~(ts < clock)
  <2> DEFINE taken == [type |-> type, ts |-> ts]
  <2>1. /\ clock' = ts /\ delivered' = Append(delivered, taken)
        /\ due' = {c \in Consumers(type) : isolated[c] = 0}
    BY <1>3 DEF Deliver
  <2>2. /\ Now \in Nat /\ Now' = Now + 1 /\ delivered'[Now + 1] = taken
        /\ \A i \in 1..Now : delivered'[i] = delivered[i]
    BY <2>1 DEF BusInv, BusTypeOK, Now
  <2>3. Registered' = Registered /\ \A c, d : Before(c, d)' <=> Before(c, d)
    BY <1>1, OrderKept
  <2>4. \A t : Consumers(t)' = Consumers(t)
    BY <2>3 DEF Consumers
  <2>5. BusTypeOK'
    <3>1. delivered' \in Seq([type : EventType, ts : 0..MaxTs])
      BY <2>1 DEF BusInv, BusTypeOK
    <3>2. due' \subseteq Registered'
      BY <2>1, <2>3 DEF Consumers
    <3> QED
      BY <1>1, <2>1, <3>1, <3>2, <2>3 DEF BusInv, BusTypeOK
  <2>6. RegisteredOnce' /\ FrozenFirst'
    BY <1>1 DEF BusInv, RegisteredOnce, FrozenFirst
  <2>7. HistorySound'
    BY <1>1, <2>2, <2>3 DEF BusInv, BusTypeOK, HistorySound
  <2>8. \A c : <<Now + 1, c>> \notin stoppedBy /\ ~Returned(Now + 1, c)
    BY <2>2 DEF BusInv, HistorySound, Returned
  <2>9. /\ \A i, c : CutOff(i, c)' <=> CutOff(i, c)
        /\ \A i, c : Returned(i, c)' <=> Returned(i, c)
        /\ \A c : ~CutOff(Now + 1, c)
    BY <1>1, <2>3, <2>8 DEF CutOff, Returned
  <2>10. \A i \in 1..Now, c \in Consumer : Owed(i, c)' <=> Owed(i, c)
    BY <1>1, <2>2, <2>4, <2>9 DEF Owed
  <2>11. \A c \in Consumer : c \in due' => isolated[c] = 0 /\ c \in Consumers(type)
    BY <2>1
  <2>12. delivered'[Now + 1].type = type
    BY <2>2
  <2>13. \A i, c : i = Now + 1 /\ Owed(i, c)' /\ c \in Consumer => c \in due'
    <3>1. SUFFICES ASSUME NEW i, i = Now + 1, NEW c \in Consumer, Owed(i, c)' PROVE c \in due'
      OBVIOUS
    <3>2. c \in Consumers(delivered[i].type)' /\ (isolated[c] = 0 \/ i < isolated[c])
      BY <1>1, <3>1 DEF Owed
    <3>3. c \in Consumers(type)
      BY <2>4, <2>12, <3>1, <3>2
    <3>4. ~(i < isolated[c])
      BY <2>2, <3>1 DEF BusInv, BusTypeOK, HistorySound
    <3> QED
      BY <2>1, <3>2, <3>3, <3>4
  <2>16. DueSound'
    <3>1. SUFFICES ASSUME NEW d \in due'
                   PROVE  /\ Now' >= 1 /\ isolated'[d] = 0
                          /\ d \in Consumers(delivered[Now].type)'
                          /\ \A c \in Consumer : <<Now', c>> \notin stoppedBy'
      BY DEF DueSound
    <3>2. d \in Consumers(type) /\ isolated[d] = 0
      BY <2>1, <3>1
    <3>3. d \in Consumers(delivered[Now].type)'
      BY <2>2, <2>4, <2>12, <3>2
    <3> QED
      BY <1>1, <2>2, <2>8, <3>2, <3>3
  <2>14. CallsOwed'
    <3>1. SUFFICES ASSUME NEW i \in 1..(Now + 1), NEW c \in Consumer
                   PROVE  Returned(i, c)' <=> Owed(i, c)' /\ ~(i = Now + 1 /\ c \in due')
      BY <2>2 DEF CallsOwed
    <3>2. CASE i = Now + 1
      BY <3>2, <2>8, <2>9, <2>13
    <3>3. CASE i \in 1..Now
      BY <1>1, <3>3, <2>2, <2>9, <2>10 DEF BusInv, CallsOwed
    <3> QED
      BY <2>2, <3>2, <3>3
  <2>15. CallsOrdered'
    <3>1. \A k \in 1..Len(calls) : calls[k][1] # Now'
      BY <2>2 DEF BusInv, HistorySound
    <3> QED
      BY <1>1, <2>3, <3>1 DEF BusInv, CallsOrdered
  <2> QED
    BY <2>5, <2>6, <2>7, <2>14, <2>15, <2>16 DEF BusInv
<1> QED
  BY <1>2, <1>3

\* A handler that returned or was isolated no longer waits; what waits is in order.
LEMMA DueShrinks ==
    ASSUME BusInv, NEW c \in Consumer, Called(c), UNCHANGED <<subscriptions, delivered>>
    PROVE  /\ c \in Registered /\ Now \in Nat /\ Now >= 1 /\ Now' = Now
           /\ isolated[c] = 0 /\ Owed(Now, c)
           /\ Registered' = Registered
           /\ \A t : Consumers(t)' = Consumers(t)
           /\ \A d, e : Before(d, e)' <=> Before(d, e)
           /\ \A d \in due : d = c \/ Before(c, d)
<1>1. c \in due
  BY DEF Called
<1> QED
  <2>1. Now \in Nat /\ Now' = Now
    BY DEF BusInv, BusTypeOK, Now
  <2>2. /\ c \in Registered /\ Now >= 1 /\ isolated[c] = 0 /\ c \in Consumers(delivered[Now].type)
        /\ \A d \in Consumer : <<Now, d>> \notin stoppedBy
    BY <1>1 DEF BusInv, BusTypeOK, DueSound
  <2>3. Owed(Now, c)
    BY <2>2 DEF Owed, CutOff
  <2>4. Registered' = Registered /\ \A d, e : Before(d, e)' <=> Before(d, e)
    BY OrderKept
  <2>5. \A t : Consumers(t)' = Consumers(t)
    BY <2>4 DEF Consumers
  <2>6. \A d \in due : d = c \/ Before(c, d)
    BY DEF Called
  <2> QED
    BY <2>1, <2>2, <2>3, <2>4, <2>5, <2>6

LEMMA ReturnKeeps ==
    ASSUME BusInv, NEW c \in Consumer, HandlerReturns(c) PROVE BusInv'
<1>1. /\ Called(c) /\ due' = due \ {c} /\ failures' = 0 /\ calls' = Append(calls, <<Now, c>>)
      /\ UNCHANGED <<subscriptions, frozen, clock, delivered, isolated, stoppedBy>>
  BY DEF HandlerReturns
<1>2. /\ c \in Registered /\ Now \in Nat /\ Now >= 1 /\ Now' = Now /\ Owed(Now, c)
      /\ Registered' = Registered
      /\ \A t : Consumers(t)' = Consumers(t)
      /\ \A d, e : Before(d, e)' <=> Before(d, e)
      /\ \A d \in due : d = c \/ Before(c, d)
  BY <1>1, DueShrinks
<1>3. c \in due
  BY <1>1 DEF Called
<1>4. /\ Len(calls) \in Nat /\ Len(calls') = Len(calls) + 1
      /\ calls'[Len(calls) + 1] = <<Now, c>>
      /\ \A k \in 1..Len(calls) : calls'[k] = calls[k]
  BY <1>1 DEF BusInv, BusTypeOK
<1>5. BusTypeOK'
  BY <1>1, <1>2 DEF BusInv, BusTypeOK
<1>6. RegisteredOnce' /\ FrozenFirst' /\ DueSound'
  BY <1>1, <1>2, <1>3 DEF BusInv, RegisteredOnce, FrozenFirst, DueSound
<1>7. HistorySound'
  BY <1>1, <1>2, <1>4 DEF BusInv, HistorySound
<1>8. CallsOwed'
  <2>1. \A i, d : Owed(i, d)' <=> Owed(i, d)
    BY <1>1, OwedKept
  <2>2. \A i, d : Returned(i, d)' <=> Returned(i, d) \/ (i = Now /\ d = c)
    BY <1>4 DEF Returned
  <2> QED
    BY <1>1, <1>2, <1>3, <2>1, <2>2 DEF BusInv, CallsOwed
<1>9. CallsOrdered'
  <2>1. \A k \in 1..Len(calls) : calls[k][1] \in 1..Now
    BY DEF BusInv, HistorySound
  <2>2. \A k \in 1..Len(calls) : calls[k][1] = Now => Before(calls[k][2], c)
    BY <1>3 DEF BusInv, CallsOrdered
  <2>3. \A j \in 1..Len(calls) :
            calls[j][1] < Now \/ (calls[j][1] = Now /\ Before(calls[j][2], c))
    BY <1>2, <2>1, <2>2
  <2>4. ASSUME NEW j \in 1..(Len(calls) + 1), NEW k \in 1..(Len(calls) + 1), j < k
        PROVE  \/ calls'[j][1] < calls'[k][1]
               \/ calls'[j][1] = calls'[k][1] /\ Before(calls'[j][2], calls'[k][2])
    <3>1. j \in 1..Len(calls) /\ calls'[j] = calls[j]
      BY <1>4, <2>4
    <3>2. CASE k = Len(calls) + 1
      BY <1>4, <2>3, <3>1, <3>2
    <3>3. CASE k \in 1..Len(calls)
      <4>1. calls'[k] = calls[k]
        BY <1>4, <3>3
      <4> QED
        BY <2>4, <3>1, <3>3, <4>1 DEF BusInv, CallsOrdered
    <3> QED
      BY <1>4, <3>2, <3>3
  <2>5. ASSUME NEW k \in 1..(Len(calls) + 1), NEW d \in due', calls'[k][1] = Now
        PROVE  Before(calls'[k][2], d)
    <3>1. d \in due /\ d # c
      BY <1>1, <2>5
    <3>2. CASE k = Len(calls) + 1
      BY <1>2, <1>4, <3>1, <3>2
    <3>3. CASE k \in 1..Len(calls)
      BY <1>4, <2>5, <3>1, <3>3 DEF BusInv, CallsOrdered
    <3> QED
      BY <1>4, <3>2, <3>3
  <2> QED
    BY <1>2, <1>4, <2>4, <2>5 DEF CallsOrdered
<1> QED
  BY <1>5, <1>6, <1>7, <1>8, <1>9 DEF BusInv

LEMMA RaiseKeeps ==
    ASSUME BusInv, NEW c \in Consumer, HandlerRaises(c) PROVE BusInv'
<1>1. Called(c) /\ UNCHANGED <<subscriptions, frozen, clock, delivered, calls>>
  BY DEF HandlerRaises
<1>2. /\ c \in Registered /\ Now \in Nat /\ Now >= 1 /\ Now' = Now
      /\ isolated[c] = 0 /\ Owed(Now, c)
      /\ Registered' = Registered
      /\ \A t : Consumers(t)' = Consumers(t)
      /\ \A d, e : Before(d, e)' <=> Before(d, e)
      /\ \A d \in due : d = c \/ Before(c, d)
  BY <1>1, DueShrinks
<1>3. c \in due /\ Subscription[c].policy \in Policy
  BY <1>1, BusConstants DEF Called
<1>4. RegisteredOnce'
  BY <1>1 DEF BusInv, RegisteredOnce
<1>5. CASE failures < Retries(c)
  <2>1. failures' = failures + 1 /\ UNCHANGED <<due, isolated, stoppedBy>>
    BY <1>5 DEF HandlerRaises
  <2>2. BusTypeOK' /\ FrozenFirst'
    BY <1>1, <1>2, <2>1 DEF BusInv, BusTypeOK, FrozenFirst
  <2> QED
    BY <1>1, <1>4, <2>1, <2>2, CallsKept DEF BusInv
<1>6. CASE ~(failures < Retries(c)) /\ Subscription[c].policy = "IsolateConsumer"
  <2>1. /\ failures' = 0 /\ due' = due \ {c} /\ stoppedBy' = stoppedBy
        /\ isolated' = [isolated EXCEPT ![c] = Now]
    BY <1>6 DEF HandlerRaises, DueAfterFailure
  <2>2. \A d \in Consumer : isolated'[d] = IF d = c THEN Now ELSE isolated[d]
    BY <2>1 DEF BusInv, BusTypeOK
  <2>3. \A i \in 1..Now, d \in Consumer :
            Owed(i, d)' <=> Owed(i, d) /\ ~(i = Now /\ d = c)
    <3>1. \A i, d : CutOff(i, d)' <=> CutOff(i, d)
      BY <1>2, <2>1 DEF CutOff
    <3> QED
      BY <1>1, <1>2, <2>2, <3>1 DEF Owed
  <2>4. BusTypeOK'
    BY <1>1, <1>2, <2>1 DEF BusInv, BusTypeOK
  <2>5. FrozenFirst' /\ DueSound' /\ HistorySound'
    <3>1. FrozenFirst'
      BY <1>1, <1>2, <2>1 DEF BusInv, FrozenFirst
    <3>2. DueSound'
      BY <1>1, <1>2, <1>3, <2>1, <2>2 DEF BusInv, BusTypeOK, DueSound, Consumers
    <3>3. HistorySound'
      BY <1>1, <1>2, <1>3, <2>1, <2>2 DEF BusInv, BusTypeOK, HistorySound, Consumers
    <3> QED
      BY <3>1, <3>2, <3>3
  <2>6. CallsOwed'
    <3>1. \A i, d : Returned(i, d)' <=> Returned(i, d)
      BY <1>1 DEF Returned
    <3> QED
      BY <1>1, <1>2, <1>3, <2>1, <2>3, <3>1 DEF BusInv, CallsOwed
  <2>7. CallsOrdered'
    BY <1>1, <1>2, <2>1 DEF BusInv, CallsOrdered
  <2> QED
    BY <1>4, <2>4, <2>5, <2>6, <2>7 DEF BusInv
<1>7. CASE ~(failures < Retries(c)) /\ Subscription[c].policy # "IsolateConsumer"
  <2>1. /\ failures' = 0 /\ due' = {} /\ isolated' = isolated
        /\ stoppedBy' = stoppedBy \cup {<<Now, c>>}
    BY <1>7 DEF HandlerRaises, DueAfterFailure
  <2>2. BusTypeOK' /\ FrozenFirst' /\ DueSound' /\ HistorySound'
    BY <1>1, <1>2, <1>3, <2>1
    DEF BusInv, BusTypeOK, FrozenFirst, DueSound, HistorySound
  <2>3. \A i \in 1..Now, d \in Consumer :
            Owed(i, d)' <=> Owed(i, d) /\ ~(i = Now /\ (d = c \/ Before(c, d)))
    <3>1. \A i, d : CutOff(i, d)' <=> CutOff(i, d) \/ (i = Now /\ (d = c \/ Before(c, d)))
      BY <1>2, <2>1 DEF CutOff
    <3> QED
      BY <1>1, <1>2, <2>1, <3>1 DEF Owed
  <2>4. \A d \in Consumer : Owed(Now, d) /\ d \notin due => d # c /\ ~Before(c, d)
    <3>1. SUFFICES ASSUME NEW d \in Consumer, Owed(Now, d), d \notin due
                   PROVE  d # c /\ ~Before(c, d)
      OBVIOUS
    <3>2. Returned(Now, d)
      BY <1>2, <3>1 DEF BusInv, CallsOwed
    <3>3. Before(d, c)
      BY <1>3, <3>2 DEF BusInv, CallsOrdered, Returned
    <3>4. d \in Registered
      BY <3>1 DEF Owed, Consumers
    <3> QED
      BY <1>2, <3>3, <3>4, BeforeStrict DEF BusInv
  <2>5. CallsOwed'
    <3>1. \A i, d : Returned(i, d)' <=> Returned(i, d)
      BY <1>1 DEF Returned
    <3>2. \A d \in Consumer : d \in due => d = c \/ Before(c, d)
      BY <1>2
    <3> QED
      BY <1>1, <1>2, <2>1, <2>3, <2>4, <3>1, <3>2 DEF BusInv, CallsOwed
  <2>6. CallsOrdered'
    BY <1>1, <1>2, <2>1 DEF BusInv, CallsOrdered
  <2> QED
    BY <1>4, <2>2, <2>5, <2>6 DEF BusInv
<1> QED
  BY <1>3, <1>5, <1>6, <1>7 DEF Policy

LEMMA BusStepKeeps == BusInv /\ [BusNext]_busVars => BusInv'
<1> SUFFICES ASSUME BusInv, [BusNext]_busVars PROVE BusInv'
  OBVIOUS
<1>1. CASE UNCHANGED busVars
  BY <1>1, OrderKept, CallsKept DEF busVars, BusInv, BusTypeOK, RegisteredOnce, FrozenFirst
<1> QED
  BY <1>1, SubscribeKeeps, DeliverKeeps, ReturnKeeps, RaiseKeeps DEF BusNext

\* Between deliveries the calls that returned are exactly those the events owe.
THEOREM BusCallsExactHolds == BusSpec => []BusCallsExact
<1>1. BusInv => BusCallsExact
  BY DEF BusInv, CallsOwed, CallsOrdered, BusCallsExact
<1> QED
  BY <1>1, BusInitInv, BusStepKeeps, PTL DEF BusSpec

-----------------------------------------------------------------------------
(***************************************************************************)
(* GroupWorkers: what a group has handled, event by event.                 *)
(***************************************************************************)

Queued(g) == g \in unsent \/ g \in futures

\* A group is in one place, and its handlers run for one of its accounts.
PlaceSound(g) ==
    /\ g \in unsent => g \notin futures
    /\ Queued(g) => event >= 1 /\ running[g] = 0
    /\ running[g] # 0 => event >= 1 /\ running[g] \in Ranks(g)

PastOnly(g, history) ==
    \A k \in 1..Len(history) : history[k][1] \in 1..event /\ history[k][2] \in Ranks(g)

HistorySoundOf(g) ==
    /\ InTurn(handled[g]) /\ InTurn(breaks[g])
    /\ PastOnly(g, handled[g]) /\ PastOnly(g, breaks[g])
    /\ \A e \in Nat : <<e, g>> \in turnedAway => e \in 1..event

FailedSound(g) == failed[g] = [i \in 1..Len(breaks[g]) |-> AccountsByRank[g][breaks[g][i][2]]]

\* What the running event has come to in a group that has yet to finish it.
NowSound(g) ==
    /\ Queued(g) \/ running[g] # 0 => <<event, g>> \notin turnedAway
    /\ Queued(g) => \A r \in Ranks(g) :
        ~Holds(handled[g], <<event, r>>) /\ ~Holds(breaks[g], <<event, r>>)
    /\ running[g] # 0 => \A r \in Ranks(g) :
        /\ Holds(handled[g], <<event, r>>) <=> r < running[g]
        /\ ~Holds(breaks[g], <<event, r>>)

ThroughSound(g) == \A e \in 1..event :
    e < event \/ (~Queued(g) /\ running[g] = 0) => Through(g, e)

GroupSound(g) ==
    PlaceSound(g) /\ HistorySoundOf(g) /\ FailedSound(g) /\ NowSound(g) /\ ThroughSound(g)

GroupInv == GroupTypeOK /\ \A g \in Group : GroupSound(g)

LEMMA RanksNat ==
    ASSUME NEW g \in Group
    PROVE  /\ Len(AccountsByRank[g]) \in Nat /\ Len(AccountsByRank[g]) >= 1
           /\ Ranks(g) = 1..Len(AccountsByRank[g])
           /\ \A r \in Ranks(g) : r \in Nat /\ AccountsByRank[g][r] \in Account
BY GroupConstants DEF Ranks

LEMMA HoldsAppended ==
    ASSUME NEW h \in Seq(Nat \X Nat), NEW x \in Nat \X Nat
    PROVE  \A y : Holds(Append(h, x), y) <=> Holds(h, y) \/ y = x
<1>1. Len(Append(h, x)) = Len(h) + 1 /\ Len(h) \in Nat /\ Append(h, x)[Len(h) + 1] = x
      /\ \A k \in 1..Len(h) : Append(h, x)[k] = h[k]
  OBVIOUS
<1> QED
  BY <1>1 DEF Holds

LEMMA InTurnAppended ==
    ASSUME NEW h \in Seq(Nat \X Nat), NEW x \in Nat \X Nat, InTurn(h),
           \A k \in 1..Len(h) : h[k][1] < x[1] \/ (h[k][1] = x[1] /\ h[k][2] < x[2])
    PROVE  InTurn(Append(h, x))
<1>1. Len(Append(h, x)) = Len(h) + 1 /\ Len(h) \in Nat /\ Append(h, x)[Len(h) + 1] = x
      /\ \A k \in 1..Len(h) : Append(h, x)[k] = h[k]
  OBVIOUS
<1> DEFINE longer == Append(h, x)
<1>2. SUFFICES ASSUME NEW j \in 1..(Len(h) + 1), NEW k \in 1..(Len(h) + 1), j < k
               PROVE  \/ longer[j][1] < longer[k][1]
                      \/ longer[j][1] = longer[k][1] /\ longer[j][2] < longer[k][2]
  BY <1>1 DEF InTurn
<1>3. j \in 1..Len(h) /\ longer[j] = h[j]
  BY <1>1, <1>2
<1>4. CASE k = Len(h) + 1
  <2>1. longer[k] = x
    BY <1>1, <1>4
  <2> HIDE DEF longer
  <2> QED
    BY <1>3, <2>1
<1>5. CASE k \in 1..Len(h)
  <2>1. longer[k] = h[k]
    BY <1>1, <1>5
  <2> HIDE DEF longer
  <2> QED
    BY <1>2, <1>3, <1>5, <2>1 DEF InTurn
<1> QED
  BY <1>1, <1>4, <1>5

\* An entry of a history of pairs is held.
LEMMA EntryHeld ==
    ASSUME NEW h \in Seq(Nat \X Nat), NEW k \in 1..Len(h)
    PROVE  Holds(h, <<h[k][1], h[k][2]>>)
<1>1. h[k] \in Nat \X Nat
  OBVIOUS
<1>2. h[k] = <<h[k][1], h[k][2]>>
  BY <1>1
<1> QED
  BY <1>2 DEF Holds

\* A group that a step leaves alone.
LEMMA GroupLeftAlone ==
    ASSUME NEW g \in Group, GroupSound(g), event' = event,
           Queued(g)' <=> Queued(g), g \in unsent' => g \in unsent,
           g \in futures' /\ g \in unsent' => g \in futures,
           running'[g] = running[g], handled'[g] = handled[g], breaks'[g] = breaks[g],
           failed'[g] = failed[g], \A e : <<e, g>> \in turnedAway' <=> <<e, g>> \in turnedAway
    PROVE  GroupSound(g)'
<1>1. PlaceSound(g)' /\ FailedSound(g)'
  BY DEF GroupSound, PlaceSound, FailedSound
<1>2. HistorySoundOf(g)'
  BY DEF GroupSound, HistorySoundOf, PastOnly
<1>3. NowSound(g)'
  BY DEF GroupSound, NowSound
<1>4. \A e : Through(g, e)' <=> Through(g, e)
  BY DEF Through
<1>5. ThroughSound(g)'
  BY <1>4 DEF GroupSound, ThroughSound
<1> QED
  BY <1>1, <1>2, <1>3, <1>5 DEF GroupSound

LEMMA GroupInitInv == GroupInit => GroupInv
<1> SUFFICES ASSUME GroupInit PROVE GroupInv
  OBVIOUS
<1>1. GroupTypeOK
  BY DEF GroupInit, GroupTypeOK, GroupState
<1>2. ASSUME NEW g \in Group PROVE GroupSound(g)
  <2>1. /\ event = 0 /\ unsent = {} /\ futures = {} /\ turnedAway = {} /\ running[g] = 0
        /\ handled[g] = <<>> /\ breaks[g] = <<>> /\ failed[g] = <<>>
    BY DEF GroupInit
  <2>2. PlaceSound(g) /\ NowSound(g) /\ ThroughSound(g)
    BY <2>1 DEF PlaceSound, NowSound, ThroughSound, Queued
  <2>3. HistorySoundOf(g) /\ FailedSound(g)
    BY <2>1 DEF HistorySoundOf, FailedSound, InTurn, PastOnly
  <2> QED
    BY <2>2, <2>3 DEF GroupSound
<1> QED
  BY <1>1, <1>2 DEF GroupInv

LEMMA FanOutKeeps == GroupInv /\ FanOut => GroupInv'
<1> SUFFICES ASSUME GroupInv, FanOut PROVE GroupInv'
  OBVIOUS
<1>1. /\ event \in Nat /\ event' = event + 1 /\ unsent = {} /\ unsent' = Group
      /\ futures = {} /\ futures' = {} /\ \A g \in Group : running[g] = 0
      /\ UNCHANGED <<groupState, failed, running, handled, breaks, turnedAway>>
  BY DEF GroupInv, GroupTypeOK, FanOut, AllAnswered, Busy
<1>2. GroupTypeOK'
  BY <1>1 DEF GroupInv, GroupTypeOK
<1>3. ASSUME NEW g \in Group PROVE GroupSound(g)'
  <2>1. GroupSound(g) /\ running[g] = 0 /\ ~Queued(g) /\ Queued(g)'
    BY <1>1, <1>3 DEF GroupInv, Queued
  <2>2. PlaceSound(g)' /\ FailedSound(g)'
    BY <1>1, <2>1 DEF GroupSound, PlaceSound, FailedSound
  <2>3. HistorySoundOf(g)'
    BY <1>1, <2>1 DEF GroupSound, HistorySoundOf, PastOnly
  <2>4. <<event + 1, g>> \notin turnedAway
    BY <1>1, <2>1 DEF GroupSound, HistorySoundOf
  <2>5. \A r : ~Holds(handled[g], <<event + 1, r>>) /\ ~Holds(breaks[g], <<event + 1, r>>)
    BY <1>1, <2>1 DEF GroupSound, HistorySoundOf, PastOnly, Holds
  <2>6. NowSound(g)'
    BY <1>1, <2>1, <2>4, <2>5 DEF NowSound
  <2>7. \A e : Through(g, e)' <=> Through(g, e)
    BY <1>1 DEF Through
  <2>8. ThroughSound(g)'
    BY <1>1, <2>1, <2>7 DEF GroupSound, ThroughSound
  <2> QED
    BY <2>2, <2>3, <2>6, <2>8 DEF GroupSound
<1> QED
  BY <1>2, <1>3 DEF GroupInv

\* A queued group whose worker is stopped is through with the event.
LEMMA TurnedAwayKeeps ==
    ASSUME GroupInv, NEW g \in Group, Queued(g), ~Queued(g)',
           turnedAway' = turnedAway \cup {<<event, g>>},
           UNCHANGED <<event, running, handled, breaks, failed>>
    PROVE  GroupSound(g)'
<1>1. event \in Nat /\ event >= 1 /\ GroupSound(g) /\ running[g] = 0
  BY DEF GroupInv, GroupTypeOK, GroupSound, PlaceSound
<1>2. PlaceSound(g)' /\ FailedSound(g)' /\ NowSound(g)'
  BY <1>1 DEF GroupSound, PlaceSound, FailedSound, NowSound, Queued
<1>3. HistorySoundOf(g)'
  BY <1>1 DEF GroupSound, HistorySoundOf, PastOnly
<1>4. Through(g, event)'
  BY <1>1 DEF GroupSound, NowSound, Through
<1>5. \A e : e # event => (Through(g, e)' <=> Through(g, e))
  BY DEF Through
<1>6. ThroughSound(g)'
  BY <1>1, <1>4, <1>5 DEF GroupSound, ThroughSound
<1> QED
  BY <1>2, <1>3, <1>6 DEF GroupSound

LEMMA SubmitGroupKeeps ==
    ASSUME GroupInv, NEW g \in Group, SubmitGroup(g) PROVE GroupInv'
<1>1. /\ g \in unsent /\ unsent' = unsent \ {g}
      /\ UNCHANGED <<groupState, failed, event, running, handled, breaks>>
  BY DEF SubmitGroup
<1>2. /\ futures' = futures \/ futures' = futures \cup {g}
      /\ turnedAway' = turnedAway \/ turnedAway' = turnedAway \cup {<<event, g>>}
  BY DEF SubmitGroup
<1>3. GroupTypeOK'
  BY <1>1, <1>2 DEF GroupInv, GroupTypeOK
<1>4. ASSUME NEW h \in Group, h # g PROVE GroupSound(h)'
  <2>1. /\ Queued(h)' <=> Queued(h)
        /\ \A e : <<e, h>> \in turnedAway' <=> <<e, h>> \in turnedAway
    BY <1>1, <1>2, <1>4 DEF Queued
  <2>2. GroupSound(h) /\ (h \in unsent' => h \in unsent) /\ (h \in futures' => h \in futures)
    BY <1>1, <1>2, <1>4 DEF GroupInv
  <2> QED
    BY <1>1, <2>1, <2>2, GroupLeftAlone
<1>5. GroupSound(g)'
  <2>1. GroupSound(g) /\ Queued(g) /\ g \notin futures /\ running[g] = 0
    BY <1>1 DEF GroupInv, GroupSound, PlaceSound, Queued
  <2>2. CASE groupState[g] = "STOPPED"
    <3>1. turnedAway' = turnedAway \cup {<<event, g>>} /\ ~Queued(g)'
      BY <1>1, <2>1, <2>2 DEF SubmitGroup, Queued
    <3> QED
      BY <1>1, <2>1, <3>1, TurnedAwayKeeps
  <2>3. CASE groupState[g] # "STOPPED"
    <3>1. turnedAway' = turnedAway /\ futures' = futures \cup {g} /\ Queued(g)' /\ g \notin unsent'
      BY <1>1, <2>3 DEF SubmitGroup, Queued
    <3> QED
      BY <1>1, <2>1, <3>1, GroupLeftAlone
  <2> QED
    BY <2>2, <2>3
<1> QED
  BY <1>3, <1>4, <1>5 DEF GroupInv

LEMMA StartGroupKeeps ==
    ASSUME GroupInv, NEW g \in Group, StartGroup(g) PROVE GroupInv'
<1>1. /\ g \in futures /\ futures' = futures \ {g}
      /\ UNCHANGED <<groupState, failed, event, unsent, handled, breaks>>
  BY DEF StartGroup
<1>2. /\ running' = running \/ running' = [running EXCEPT ![g] = 1]
      /\ turnedAway' = turnedAway \/ turnedAway' = turnedAway \cup {<<event, g>>}
  BY DEF StartGroup
<1>3. GroupTypeOK'
  <2>1. event \in Nat /\ running \in [Group -> Nat]
    BY DEF GroupInv, GroupTypeOK
  <2>2. turnedAway' \subseteq Nat \X Group
    BY <1>2, <2>1 DEF GroupInv, GroupTypeOK
  <2>3. running' \in [Group -> Nat]
    BY <1>2, <2>1
  <2> QED
    BY <1>1, <2>1, <2>2, <2>3 DEF GroupInv, GroupTypeOK
<1>4. ASSUME NEW h \in Group, h # g PROVE GroupSound(h)'
  <2>1. /\ Queued(h)' <=> Queued(h)
        /\ \A e : <<e, h>> \in turnedAway' <=> <<e, h>> \in turnedAway
    BY <1>1, <1>2, <1>4 DEF Queued
  <2>2. /\ GroupSound(h) /\ (h \in futures' => h \in futures)
        /\ running'[h] = running[h]
    BY <1>1, <1>2, <1>4 DEF GroupInv, GroupTypeOK
  <2> QED
    BY <1>1, <2>1, <2>2, GroupLeftAlone
<1>5. GroupSound(g)'
  <2>1. GroupSound(g) /\ Queued(g) /\ g \notin unsent /\ event >= 1 /\ ~Queued(g)'
    BY <1>1 DEF GroupInv, GroupSound, PlaceSound, Queued
  <2>2. CASE groupState[g] = "STOPPED"
    <3>1. turnedAway' = turnedAway \cup {<<event, g>>} /\ running' = running
      BY <2>2 DEF StartGroup
    <3> QED
      BY <1>1, <2>1, <3>1, TurnedAwayKeeps
  <2>3. CASE groupState[g] # "STOPPED"
    <3>1. turnedAway' = turnedAway /\ running'[g] = 1
      BY <2>3 DEF StartGroup, GroupInv, GroupTypeOK
    <3>2. 1 \in Ranks(g) /\ \A r \in Ranks(g) : ~(r < 1)
      BY RanksNat
    <3>3. PlaceSound(g)' /\ FailedSound(g)'
      BY <1>1, <2>1, <3>1, <3>2 DEF GroupSound, PlaceSound, FailedSound, Ranks
    <3>4. HistorySoundOf(g)'
      BY <1>1, <2>1, <3>1 DEF GroupSound, HistorySoundOf, PastOnly
    <3>5. NowSound(g)'
      BY <1>1, <2>1, <3>1, <3>2 DEF GroupSound, NowSound
    <3>6. \A e : Through(g, e)' <=> Through(g, e)
      BY <1>1, <3>1 DEF Through
    <3>7. ThroughSound(g)'
      BY <1>1, <2>1, <3>1, <3>6 DEF GroupSound, ThroughSound
    <3> QED
      BY <3>3, <3>4, <3>5, <3>7 DEF GroupSound
  <2> QED
    BY <2>2, <2>3
<1> QED
  BY <1>3, <1>4, <1>5 DEF GroupInv

\* A running group, and what it held of the event before the step.
LEMMA RunningGroup ==
    ASSUME GroupInv, NEW g \in Group, running[g] # 0
    PROVE  /\ event \in Nat /\ event >= 1 /\ running[g] \in Nat /\ running[g] \in Ranks(g)
           /\ GroupSound(g) /\ ~Queued(g) /\ <<event, g>> \notin turnedAway
           /\ handled[g] \in Seq(Nat \X Nat) /\ breaks[g] \in Seq(Nat \X Nat)
           /\ \A k \in 1..Len(handled[g]) :
               handled[g][k][1] < event \/ (handled[g][k][1] = event /\ handled[g][k][2] < running[g])
           /\ \A k \in 1..Len(breaks[g]) : breaks[g][k][1] < event
<1>1. GroupSound(g) /\ handled[g] \in Seq(Nat \X Nat) /\ breaks[g] \in Seq(Nat \X Nat)
      /\ event \in Nat /\ running[g] \in Nat
  BY DEF GroupInv, GroupTypeOK
<1>2. event >= 1 /\ running[g] \in Ranks(g) /\ ~Queued(g) /\ <<event, g>> \notin turnedAway
  BY <1>1 DEF GroupSound, PlaceSound, NowSound
<1>3. ASSUME NEW k \in 1..Len(handled[g]), ~(handled[g][k][1] < event)
      PROVE  handled[g][k][1] = event /\ handled[g][k][2] < running[g]
  <2>1. handled[g][k][1] = event /\ handled[g][k][2] \in Ranks(g)
    BY <1>1, <1>3 DEF GroupSound, HistorySoundOf, PastOnly
  <2>2. Holds(handled[g], <<event, handled[g][k][2]>>)
    BY <1>1, <2>1, EntryHeld
  <2> QED
    BY <1>1, <2>1, <2>2 DEF GroupSound, NowSound
<1>4. ASSUME NEW k \in 1..Len(breaks[g]), ~(breaks[g][k][1] < event)
      PROVE  FALSE
  <2>1. breaks[g][k][1] = event /\ breaks[g][k][2] \in Ranks(g)
    BY <1>1, <1>4 DEF GroupSound, HistorySoundOf, PastOnly
  <2>2. Holds(breaks[g], <<event, breaks[g][k][2]>>)
    BY <1>1, <2>1, EntryHeld
  <2> QED
    BY <1>1, <2>1, <2>2 DEF GroupSound, NowSound
<1> QED
  BY <1>1, <1>2, <1>3, <1>4

LEMMA AccountHandledKeeps ==
    ASSUME GroupInv, NEW g \in Group, AccountHandled(g) PROVE GroupInv'
<1> DEFINE entry == <<event, running[g]>>
<1>1. /\ running[g] # 0 /\ handled' = [handled EXCEPT ![g] = Append(handled[g], entry)]
      /\ running' = [running EXCEPT ![g] = NextRank(g)]
      /\ UNCHANGED <<groupState, failed, event, unsent, futures, breaks, turnedAway>>
  BY DEF AccountHandled
<1>2. /\ event \in Nat /\ event >= 1 /\ running[g] \in Nat /\ running[g] \in Ranks(g)
      /\ GroupSound(g) /\ ~Queued(g) /\ <<event, g>> \notin turnedAway
      /\ handled[g] \in Seq(Nat \X Nat) /\ breaks[g] \in Seq(Nat \X Nat)
      /\ \A k \in 1..Len(handled[g]) :
          handled[g][k][1] < event \/ (handled[g][k][1] = event /\ handled[g][k][2] < running[g])
  BY <1>1, RunningGroup
<1>3. /\ NextRank(g) \in Nat
      /\ NextRank(g) # 0 => NextRank(g) \in Ranks(g) /\ NextRank(g) = running[g] + 1
      /\ NextRank(g) = 0 => running[g] = Len(AccountsByRank[g])
  BY <1>2, RanksNat DEF NextRank
<1>4. /\ handled'[g] = Append(handled[g], entry) /\ running'[g] = NextRank(g)
      /\ \A h \in Group : h # g => handled'[h] = handled[h] /\ running'[h] = running[h]
  BY <1>1 DEF GroupInv, GroupTypeOK
<1>5. entry \in Nat \X Nat
  BY <1>2
<1>6. GroupTypeOK'
  BY <1>1, <1>2, <1>3, <1>5 DEF GroupInv, GroupTypeOK
<1>7. ASSUME NEW h \in Group, h # g PROVE GroupSound(h)'
  BY <1>1, <1>4, <1>7, GroupLeftAlone DEF GroupInv, Queued
<1>8. GroupSound(g)'
  <2>1. \A y : Holds(handled[g], y)' <=> Holds(handled[g], y) \/ y = entry
    <3>1. \A y : Holds(Append(handled[g], entry), y) <=> Holds(handled[g], y) \/ y = entry
      BY <1>2, <1>5, HoldsAppended
    <3> HIDE DEF entry
    <3> QED
      BY <1>4, <3>1
  <2>2. /\ \A y : Holds(breaks[g], y)' <=> Holds(breaks[g], y)
        /\ ~Queued(g)' /\ Ranks(g)' = Ranks(g)
    BY <1>1, <1>2 DEF Holds, Queued, Ranks
  <2>3. InTurn(handled[g])'
    BY <1>2, <1>4, <1>5, InTurnAppended DEF GroupSound, HistorySoundOf
  <2>4. PastOnly(g, handled[g])'
    BY <1>1, <1>2, <1>4, <1>5 DEF GroupSound, HistorySoundOf, PastOnly, Ranks
  <2>5. HistorySoundOf(g)'
    BY <1>1, <1>2, <2>3, <2>4 DEF GroupSound, HistorySoundOf, PastOnly
  <2>6. PlaceSound(g)' /\ FailedSound(g)'
    BY <1>1, <1>2, <1>3, <1>4, <2>2 DEF GroupSound, PlaceSound, FailedSound, Queued
  <2>7. NowSound(g)'
    <3>1. \A r \in Ranks(g) : r < running[g] + 1 <=> r < running[g] \/ <<event, r>> = entry
      BY <1>2, RanksNat
    <3> HIDE DEF entry
    <3> QED
      BY <1>1, <1>2, <1>3, <1>4, <2>1, <2>2, <3>1 DEF GroupSound, NowSound
  <2>8. \A e : e # event => (Through(g, e)' <=> Through(g, e))
    <3>1. \A e, r : e # event => <<e, r>> # entry
      OBVIOUS
    <3> HIDE DEF entry
    <3> QED
      BY <1>1, <2>1, <2>2, <3>1 DEF Through
  <2>9. NextRank(g) = 0 => Through(g, event)'
    <3>1. SUFFICES ASSUME NextRank(g) = 0 PROVE Through(g, event)'
      OBVIOUS
    <3> DEFINE end == Len(AccountsByRank[g]) + 1
    <3>2. \A r \in Ranks(g) : /\ Holds(handled[g], <<event, r>>)' <=> r < end
                              /\ Holds(breaks[g], <<event, r>>)' <=> r = end
      <4>1. \A r \in Ranks(g) : r \in Nat /\ (r < running[g] \/ <<event, r>> = entry)
        BY <1>2, <1>3, <3>1, RanksNat
      <4> HIDE DEF entry
      <4>2. \A r \in Ranks(g) : r < end /\ r # end
        BY RanksNat
      <4> HIDE DEF end
      <4> QED
        BY <1>1, <1>2, <2>1, <2>2, <4>1, <4>2 DEF GroupSound, NowSound
    <3>3. end \in 1..(Len(AccountsByRank[g]) + 1)
      BY RanksNat
    <3> HIDE DEF end
    <3> QED
      BY <1>1, <1>2, <2>2, <3>2, <3>3 DEF Through
  <2>10. ThroughSound(g)'
    BY <1>1, <1>2, <1>4, <2>8, <2>9 DEF GroupSound, ThroughSound
  <2> QED
    BY <2>5, <2>6, <2>7, <2>10 DEF GroupSound
<1> QED
  BY <1>6, <1>7, <1>8 DEF GroupInv

LEMMA AccountFailsKeeps ==
    ASSUME GroupInv, NEW g \in Group, AccountFails(g) PROVE GroupInv'
<1> DEFINE entry == <<event, running[g]>>
<1>1. /\ running[g] # 0 /\ breaks' = [breaks EXCEPT ![g] = Append(breaks[g], entry)]
      /\ running' = [running EXCEPT ![g] = 0]
      /\ groupState' = [groupState EXCEPT ![g] = "ISOLATED"]
      /\ failed' = [failed EXCEPT ![g] = Append(failed[g], AccountsByRank[g][running[g]])]
      /\ UNCHANGED <<event, unsent, futures, handled, turnedAway>>
  BY DEF AccountFails, RankAfterFailure
<1>2. /\ event \in Nat /\ event >= 1 /\ running[g] \in Nat /\ running[g] \in Ranks(g)
      /\ GroupSound(g) /\ ~Queued(g) /\ <<event, g>> \notin turnedAway
      /\ handled[g] \in Seq(Nat \X Nat) /\ breaks[g] \in Seq(Nat \X Nat)
      /\ \A k \in 1..Len(breaks[g]) : breaks[g][k][1] < event
  BY <1>1, RunningGroup
<1>3. /\ breaks'[g] = Append(breaks[g], entry) /\ running'[g] = 0
      /\ failed'[g] = Append(failed[g], AccountsByRank[g][running[g]])
      /\ \A h \in Group : h # g =>
          breaks'[h] = breaks[h] /\ running'[h] = running[h] /\ failed'[h] = failed[h]
  BY <1>1 DEF GroupInv, GroupTypeOK
<1>4. entry \in Nat \X Nat /\ AccountsByRank[g][running[g]] \in Account
  BY <1>2, RanksNat
<1>5. GroupTypeOK'
  <2>1. groupState' \in [Group -> GroupState]
    BY <1>1 DEF GroupInv, GroupTypeOK, GroupState
  <2>2. failed' \in [Group -> Seq(Account)] /\ breaks' \in [Group -> Seq(Nat \X Nat)]
    BY <1>1, <1>2, <1>4 DEF GroupInv, GroupTypeOK
  <2>3. running' \in [Group -> Nat]
    BY <1>1 DEF GroupInv, GroupTypeOK
  <2> QED
    BY <1>1, <2>1, <2>2, <2>3 DEF GroupInv, GroupTypeOK
<1>6. ASSUME NEW h \in Group, h # g PROVE GroupSound(h)'
  BY <1>1, <1>3, <1>6, GroupLeftAlone DEF GroupInv, Queued
<1>7. GroupSound(g)'
  <2>1. \A y : Holds(breaks[g], y)' <=> Holds(breaks[g], y) \/ y = entry
    <3>1. \A y : Holds(Append(breaks[g], entry), y) <=> Holds(breaks[g], y) \/ y = entry
      BY <1>2, <1>4, HoldsAppended
    <3> HIDE DEF entry
    <3> QED
      BY <1>3, <3>1
  <2>2. /\ \A y : Holds(handled[g], y)' <=> Holds(handled[g], y)
        /\ ~Queued(g)' /\ Ranks(g)' = Ranks(g)
    BY <1>1, <1>2 DEF Holds, Queued, Ranks
  <2>3. InTurn(breaks[g])'
    BY <1>2, <1>3, <1>4, InTurnAppended DEF GroupSound, HistorySoundOf
  <2>4. PastOnly(g, breaks[g])'
    <3>1. /\ Len(breaks[g]) \in Nat /\ Len(breaks'[g]) = Len(breaks[g]) + 1
          /\ breaks'[g][Len(breaks[g]) + 1] = entry
          /\ \A i \in 1..Len(breaks[g]) : breaks'[g][i] = breaks[g][i]
      BY <1>2, <1>3, <1>4
    <3>2. entry[1] \in 1..event /\ entry[2] \in Ranks(g)
      BY <1>2
    <3> HIDE DEF entry
    <3> QED
      BY <1>1, <1>2, <2>2, <3>1, <3>2 DEF GroupSound, HistorySoundOf, PastOnly
  <2>5. HistorySoundOf(g)'
    BY <1>1, <1>2, <2>3, <2>4 DEF GroupSound, HistorySoundOf, PastOnly
  <2>6. PlaceSound(g)' /\ NowSound(g)'
    BY <1>3, <2>2 DEF PlaceSound, NowSound, Queued
  <2>7. FailedSound(g)'
    <3>1. Len(breaks[g]) \in Nat /\ Len(breaks'[g]) = Len(breaks[g]) + 1
          /\ breaks'[g][Len(breaks[g]) + 1] = entry
          /\ \A i \in 1..Len(breaks[g]) : breaks'[g][i] = breaks[g][i]
      BY <1>2, <1>3, <1>4
    <3>2. failed[g] = [i \in 1..Len(breaks[g]) |-> AccountsByRank[g][breaks[g][i][2]]]
          /\ failed[g] \in Seq(Account)
      BY <1>2 DEF GroupSound, FailedSound, GroupInv, GroupTypeOK
    <3>3. Len(failed[g]) = Len(breaks[g])
      BY <3>1, <3>2
    <3>4. failed'[g] \in Seq(Account) /\ Len(failed'[g]) = Len(breaks[g]) + 1
          /\ failed'[g][Len(breaks[g]) + 1] = AccountsByRank[g][running[g]]
          /\ \A i \in 1..Len(breaks[g]) : failed'[g][i] = failed[g][i]
      BY <1>3, <1>4, <3>2, <3>3
    <3>5. \A i \in 1..(Len(breaks[g]) + 1) :
              failed'[g][i] = AccountsByRank[g][breaks'[g][i][2]]
      <4>1. SUFFICES ASSUME NEW i \in 1..(Len(breaks[g]) + 1)
                     PROVE  failed'[g][i] = AccountsByRank[g][breaks'[g][i][2]]
        OBVIOUS
      <4>2. CASE i = Len(breaks[g]) + 1
        BY <3>1, <3>4, <4>2
      <4>3. CASE i \in 1..Len(breaks[g])
        <5>1. failed'[g][i] = AccountsByRank[g][breaks[g][i][2]]
          BY <3>2, <3>4, <4>3
        <5> QED
          BY <3>1, <4>3, <5>1
      <4> QED
        BY <3>1, <4>2, <4>3
    <3>6. DOMAIN failed'[g] = 1..(Len(breaks[g]) + 1) /\ failed'[g] = [i \in DOMAIN failed'[g] |-> failed'[g][i]]
      BY <3>4
    <3> QED
      BY <3>1, <3>5, <3>6 DEF FailedSound
  <2>8. \A e : e # event => (Through(g, e)' <=> Through(g, e))
    <3>1. \A e, r : e # event => <<e, r>> # entry
      OBVIOUS
    <3> HIDE DEF entry
    <3> QED
      BY <1>1, <2>1, <2>2, <3>1 DEF Through
  <2>9. Through(g, event)'
    <3>1. \A r \in Ranks(g) : r = running[g] <=> <<event, r>> = entry
      OBVIOUS
    <3> HIDE DEF entry
    <3>2. \A r \in Ranks(g) : /\ Holds(handled[g], <<event, r>>)' <=> r < running[g]
                              /\ Holds(breaks[g], <<event, r>>)' <=> r = running[g]
      BY <1>1, <1>2, <2>1, <2>2, <3>1 DEF GroupSound, NowSound
    <3>3. running[g] \in 1..(Len(AccountsByRank[g]) + 1)
      BY <1>2, RanksNat
    <3> QED
      BY <1>1, <1>2, <2>2, <3>2, <3>3 DEF Through
  <2>10. ThroughSound(g)'
    BY <1>1, <1>2, <1>3, <2>8, <2>9 DEF GroupSound, ThroughSound
  <2> QED
    BY <2>5, <2>6, <2>7, <2>10 DEF GroupSound
<1> QED
  BY <1>5, <1>6, <1>7 DEF GroupInv

LEMMA GroupStepKeeps == GroupInv /\ [GroupNext]_groupVars => GroupInv'
<1> SUFFICES ASSUME GroupInv, [GroupNext]_groupVars PROVE GroupInv'
  OBVIOUS
<1>1. ASSUME UNCHANGED <<failed, event, unsent, futures, running, handled, breaks, turnedAway>>,
             groupState' \in [Group -> GroupState]
      PROVE  GroupInv'
  <2>1. GroupTypeOK'
    BY <1>1 DEF GroupInv, GroupTypeOK
  <2>2. ASSUME NEW g \in Group PROVE GroupSound(g)'
    BY <1>1, GroupLeftAlone DEF GroupInv, Queued
  <2> QED
    BY <2>1, <2>2 DEF GroupInv
<1>2. ASSUME NEW g \in Group, StopGroup(g) PROVE GroupInv'
  <2>1. groupState' \in [Group -> GroupState]
    BY <1>2 DEF StopGroup, GroupInv, GroupTypeOK, GroupState
  <2> QED
    BY <1>1, <1>2, <2>1 DEF StopGroup
<1>3. CASE UNCHANGED groupVars
  BY <1>1, <1>3 DEF groupVars, GroupInv, GroupTypeOK
<1> QED
  BY <1>2, <1>3, FanOutKeeps, SubmitGroupKeeps, StartGroupKeeps, AccountHandledKeeps, AccountFailsKeeps
  DEF GroupNext

\* Between two calls of fanOut() every group is through with every event, in turn.
THEOREM GroupsSeeEveryEventHolds == GroupSpec => []GroupsSeeEveryEvent
<1>1. GroupInv => GroupsSeeEveryEvent
  <2> SUFFICES ASSUME GroupInv, AllAnswered, NEW g \in Group
               PROVE  /\ InTurn(handled[g]) /\ InTurn(breaks[g])
                      /\ failed[g] = [i \in 1..Len(breaks[g]) |-> AccountsByRank[g][breaks[g][i][2]]]
                      /\ \A e \in 1..event : Through(g, e)
    BY DEF GroupsSeeEveryEvent
  <2>1. GroupSound(g) /\ ~Queued(g) /\ running[g] = 0
    BY DEF GroupInv, AllAnswered, Busy, Queued
  <2> QED
    BY <2>1 DEF GroupSound, HistorySoundOf, FailedSound, ThroughSound
<1> QED
  BY <1>1, GroupInitInv, GroupStepKeeps, PTL DEF GroupSpec

(***************************************************************************)
(* Liquidity: the orders of a bar are served in the order of their keys.   *)
(***************************************************************************)

\* Keys of numbers, compared at the first position where they differ, are ordered
\* in one way only.
LEMMA KeyLessIsAsymmetric ==
    ASSUME NEW s, NEW t, DOMAIN s = 1..5, DOMAIN t = 1..5,
           \A i \in 1..5 : s[i] \in Nat /\ t[i] \in Nat
    PROVE  ~(KeyLess(s, t) /\ KeyLess(t, s))
<1> SUFFICES ASSUME KeyLess(s, t), KeyLess(t, s)
             PROVE  FALSE
    OBVIOUS
<1>1. PICK i \in 1..5 : s[i] < t[i] /\ \A j \in 1..(i - 1) : s[j] = t[j]
    BY DEF KeyLess
<1>2. PICK m \in 1..5 : t[m] < s[m] /\ \A j \in 1..(m - 1) : t[j] = s[j]
    BY DEF KeyLess
<1>3. i < m \/ i = m \/ m < i
    OBVIOUS
<1>4. CASE i < m
    <2>1. i \in 1..(m - 1)
      BY <1>4
    <2> QED
      BY <1>1, <1>2, <2>1
<1>5. CASE m < i
    <2>1. m \in 1..(i - 1)
      BY <1>5
    <2> QED
      BY <1>1, <1>2, <2>1
<1>6. CASE i = m
    BY <1>1, <1>2, <1>6
<1> QED
    BY <1>3, <1>4, <1>5, <1>6

KeyBefore(x, y) == KeyLess(AllocationKey(x), AllocationKey(y))

\* No two orders come before each other, none before itself.
LEMMA AllocationOrder ==
    ASSUME NEW x \in Candidate, NEW y \in Candidate
    PROVE  ~(KeyBefore(x, y) /\ KeyBefore(y, x)) /\ ~KeyBefore(x, x)
<1>1. ASSUME NEW z \in Candidate
      PROVE  DOMAIN AllocationKey(z) = 1..5 /\ \A i \in 1..5 : AllocationKey(z)[i] \in Nat
    <2>1. OrderOf[z] \in LiquidityOrder
      BY LiquidityConstants
    <2> DEFINE o == OrderOf[z]
               price == IF o.market THEN 0 ELSE o.price
    <2>2. price \in Nat /\ o.group \in Nat /\ o.account \in Nat /\ o.key \in Nat /\ o.id \in Nat
      BY <2>1 DEF LiquidityOrder
    <2>3. AllocationKey(z) = <<price, o.group, o.account, o.key, o.id>>
      BY DEF AllocationKey
    <2> HIDE DEF price, o
    <2> QED
      BY <2>2, <2>3
<1>2. ~(KeyBefore(x, y) /\ KeyBefore(y, x))
    BY <1>1, KeyLessIsAsymmetric DEF KeyBefore
<1>3. ~(KeyBefore(x, x) /\ KeyBefore(x, x))
    BY <1>1, KeyLessIsAsymmetric DEF KeyBefore
<1> QED
    BY <1>2, <1>3

\* What an order may get and its share, and what a pool has left, are quantities.
LEMMA ShareBounds ==
    ASSUME LiquidityTypeOK, consumed <= PoolQuantity, NEW x \in Candidate
    PROVE  /\ Asked(x) \in Nat /\ Remaining \in Nat /\ Share(x) \in Nat
           /\ Share(x) <= Asked(x) /\ Share(x) <= Remaining
           /\ Fillable(x) /\ Share(x) < Asked(x) => Share(x) = Remaining
<1> DEFINE all == OrderOf[x].remaining * OrderOf[x].rate
<1>1. OrderOf[x] \in LiquidityOrder /\ RateUnit \in Nat \ {0} /\ PoolQuantity \in Nat
    BY LiquidityConstants
<1>2. all \in Nat
    BY <1>1 DEF LiquidityOrder
<1>3. Cap(x) = all \div RateUnit
    BY DEF Cap
<1> HIDE DEF all
<1>4. Asked(x) \in Nat
    BY <1>1, <1>2, <1>3 DEF Asked, Smaller, LiquidityOrder
<1>5. Remaining \in Nat
    BY <1>1 DEF Remaining, LiquidityTypeOK
<1> QED
    BY <1>4, <1>5 DEF Share, Smaller

\* Whoever was served comes before whoever waits, and nobody is both.
ServedBeforeWaiting ==
    \A x \in DOMAIN plan, y \in toServe : x # y /\ KeyBefore(x, y)

\* An order that got less than it may found the pool empty, as did all after it.
ShortFindsEmpty ==
    \A x \in DOMAIN plan :
        /\ plan[x] <= Asked(x)
        /\ Fillable(x) /\ plan[x] < Asked(x) =>
              Remaining = 0 /\ \A y \in DOMAIN plan : KeyBefore(x, y) => plan[y] = 0

LiquidityInv ==
    /\ LiquidityTypeOK
    /\ consumed = earlier + SumFunction(plan)
    /\ consumed <= PoolQuantity
    /\ ServedBeforeWaiting
    /\ ShortFindsEmpty

\* A plan is of finitely many orders and its sum is a quantity.
LEMMA PlanIsFinite ==
    ASSUME LiquidityTypeOK
    PROVE  /\ IsFiniteSet(DOMAIN plan) /\ NaturalOn(plan, DOMAIN plan)
           /\ SumFunctionOnSet(plan, DOMAIN plan) \in Nat
<1>1. IsFiniteSet(DOMAIN plan) /\ NaturalOn(plan, DOMAIN plan)
    BY LiquidityConstants, FS_Subset DEF LiquidityTypeOK, NaturalOn
<1> QED
    BY <1>1, SumIsNatural

\* Nothing is allocated before the first call.
LEMMA EmptyPlan == ASSUME NEW f, DOMAIN f = {} PROVE SumFunction(f) = 0
BY SumEmpty DEF SumFunction

\* The next order of the loop gets what the pool has for it.
LEMMA ServeKeeps ==
    ASSUME LiquidityInv, NEW x \in Candidate, Serve(x)
    PROVE  LiquidityInv'
<1> DEFINE D == DOMAIN plan
           q == Share(x)
<1>1. /\ consumed \in Nat /\ toServe \subseteq Candidate /\ D \subseteq Candidate
      /\ earlier \in Nat /\ allocateCalls \in Nat
      /\ (\A y \in D : plan[y] \in Nat) /\ PoolQuantity \in Nat
    BY LiquidityConstants DEF LiquidityInv, LiquidityTypeOK
<1>2. /\ q \in Nat /\ q <= Asked(x) /\ q <= Remaining /\ Remaining \in Nat
      /\ Fillable(x) /\ q < Asked(x) => q = Remaining
    BY ShareBounds DEF LiquidityInv
<1>3. /\ x \in toServe /\ toServe' = toServe \ {x}
      /\ \A y \in toServe : x = y \/ KeyBefore(x, y)
      /\ plan' = [y \in D \cup {x} |-> IF y = x THEN q ELSE plan[y]]
      /\ consumed' = consumed + q
      /\ UNCHANGED <<earlier, allocateCalls>>
    BY DEF Serve, ServedNext, KeyBefore
<1>4. x \notin D /\ \A y \in D : KeyBefore(y, x)
    BY <1>3 DEF LiquidityInv, ServedBeforeWaiting
<1>5. Remaining' = Remaining - q
    BY <1>1, <1>2, <1>3 DEF Remaining
<1> HIDE DEF D, q
<1>6. /\ DOMAIN plan' = D \cup {x} /\ plan'[x] = q /\ \A y \in D : plan'[y] = plan[y]
    BY <1>3, <1>4
<1>7. LiquidityTypeOK'
    BY <1>1, <1>2, <1>3, <1>6 DEF LiquidityTypeOK
<1>8. consumed' = earlier' + SumFunction(plan')
    <2>1. /\ IsFiniteSet(D) /\ SumFunctionOnSet(plan, D) \in Nat
      BY PlanIsFinite DEF LiquidityInv, D
    <2>2. SumFunctionOnSet(plan', D) = SumFunctionOnSet(plan, D)
      BY <1>6, <2>1, SumOfSameValues
    <2>3. NaturalOn(plan', D \cup {x})
      BY <1>1, <1>2, <1>6 DEF NaturalOn
    <2>4. SumFunctionOnSet(plan', D \cup {x}) = q + SumFunctionOnSet(plan', D)
      BY <1>4, <1>6, <2>1, <2>3, SumWith
    <2>5. SumFunction(plan') = SumFunctionOnSet(plan', D \cup {x})
      BY <1>6 DEF SumFunction
    <2>6. consumed = earlier + SumFunctionOnSet(plan, D)
      BY DEF LiquidityInv, SumFunction, D
    <2> QED
      BY <1>1, <1>2, <1>3, <2>1, <2>2, <2>4, <2>5, <2>6
<1>9. consumed' <= PoolQuantity
    BY <1>1, <1>2, <1>3 DEF Remaining
<1>10. ServedBeforeWaiting'
    <2>1. ASSUME NEW y \in D \cup {x}, NEW z \in toServe \ {x}
          PROVE  y # z /\ KeyBefore(y, z)
      <3>1. CASE y = x
        BY <1>3, <2>1, <3>1
      <3>2. CASE y \in D
        BY <2>1, <3>2 DEF LiquidityInv, ServedBeforeWaiting, D
      <3> QED
        BY <2>1, <3>1, <3>2
    <2> QED
      BY <1>3, <1>6, <2>1 DEF ServedBeforeWaiting, KeyBefore
<1>11. ShortFindsEmpty'
    <2> SUFFICES ASSUME NEW y \in D \cup {x}
                 PROVE  /\ plan'[y] <= Asked(y)
                        /\ Fillable(y) /\ plan'[y] < Asked(y) =>
                              Remaining' = 0
                              /\ \A z \in D \cup {x} : KeyBefore(y, z) => plan'[z] = 0
        BY <1>6 DEF ShortFindsEmpty, KeyBefore, Asked, Cap, Fillable
    <2>1. CASE y = x
      <3>1. \A z \in D \cup {x} : ~KeyBefore(x, z)
        BY <1>1, <1>4, AllocationOrder
      <3>2. Fillable(x) /\ q < Asked(x) => Remaining' = 0
        BY <1>2, <1>5
      <3> QED
        BY <1>2, <1>6, <2>1, <3>1, <3>2
    <2>2. CASE y \in D
      <3>1. plan'[y] = plan[y] /\ plan[y] <= Asked(y)
        BY <1>6, <2>2 DEF LiquidityInv, ShortFindsEmpty, D
      <3> SUFFICES ASSUME Fillable(y), plan[y] < Asked(y)
                   PROVE  Remaining' = 0 /\ \A z \in D \cup {x} : KeyBefore(y, z) => plan'[z] = 0
        BY <3>1
      <3>2. Remaining = 0 /\ \A z \in D : KeyBefore(y, z) => plan[z] = 0
        BY <2>2 DEF LiquidityInv, ShortFindsEmpty, D
      <3>3. q = 0
        BY <1>2, <3>2
      <3> QED
        BY <1>5, <1>6, <3>2, <3>3
    <2> QED
      BY <2>1, <2>2
<1> QED
    BY <1>7, <1>8, <1>9, <1>10, <1>11 DEF LiquidityInv

\* A call begins with an empty plan and the pool as earlier calls left it.
LEMMA AllocateKeeps ==
    ASSUME LiquidityInv, NEW some \in SUBSET Candidate, Allocate(some)
    PROVE  LiquidityInv'
<1>1. /\ DOMAIN plan' = {} /\ earlier' = consumed /\ consumed' = consumed
      /\ toServe' \subseteq Candidate /\ allocateCalls' = allocateCalls + 1
    BY DEF Allocate
<1>2. LiquidityTypeOK'
    BY <1>1 DEF LiquidityInv, LiquidityTypeOK
<1>3. SumFunction(plan') = 0
    BY <1>1, EmptyPlan
<1>4. consumed' = earlier' + SumFunction(plan')
    BY <1>1, <1>3 DEF LiquidityInv, LiquidityTypeOK
<1>5. ServedBeforeWaiting' /\ ShortFindsEmpty'
    BY <1>1 DEF ServedBeforeWaiting, ShortFindsEmpty
<1> QED
    BY <1>1, <1>2, <1>4, <1>5 DEF LiquidityInv

\* The calls on one pool keep what they share.
LEMMA LiquidityCorrect == LiquiditySpec => []LiquidityInv
<1>1. LiquidityInit => LiquidityInv
    <2> SUFFICES ASSUME LiquidityInit
                 PROVE  LiquidityInv
        OBVIOUS
    <2>1. DOMAIN plan = {} /\ toServe = {} /\ consumed = 0 /\ earlier = 0 /\ allocateCalls = 0
      BY DEF LiquidityInit
    <2>2. SumFunction(plan) = 0
      BY <2>1, EmptyPlan
    <2> QED
      BY <2>1, <2>2, LiquidityConstants
         DEF LiquidityInv, LiquidityTypeOK, ServedBeforeWaiting, ShortFindsEmpty
<1>2. LiquidityInv /\ [LiquidityNext]_liquidityVars => LiquidityInv'
    <2> SUFFICES ASSUME LiquidityInv, [LiquidityNext]_liquidityVars
                 PROVE  LiquidityInv'
        OBVIOUS
    <2>1. CASE UNCHANGED liquidityVars
      BY <2>1 DEF liquidityVars, LiquidityInv, LiquidityTypeOK, ServedBeforeWaiting, ShortFindsEmpty,
         SumFunction, Remaining, KeyBefore, Asked, Cap, Fillable
    <2> QED
      BY <2>1, ServeKeeps, AllocateKeeps DEF LiquidityNext
<1> QED
    BY <1>1, <1>2, PTL DEF LiquiditySpec

\* For any orders, keys, caps and pools: the plans add up to what the pool gave, no
\* order gets more than its cap or than remains of it, and none jumps the queue.
THEOREM LiquidityIsShared == LiquiditySpec => []LiquidityShared
<1>1. LiquidityInv => LiquidityShared
    BY DEF LiquidityInv, LiquidityShared, ShortFindsEmpty, KeyBefore
<1> QED
    BY <1>1, LiquidityCorrect, PTL

(***************************************************************************)
(* Settlement: what is sellable was bought before a settlement's date.     *)
(***************************************************************************)

LotQuantity == [l \in Lot |-> l.quantity]

\* The lots of a set of lots, one taken in or some taken out.
LEMMA LotSums ==
    ASSUME NEW L, IsFiniteSet(L), L \subseteq Lot
    PROVE  /\ QuantityOf(L) \in Nat
           /\ \A l \in Lot : l \notin L => QuantityOf(L \cup {l}) = l.quantity + QuantityOf(L)
           /\ \A M \in SUBSET L : /\ QuantityOf(L) = QuantityOf(M) + QuantityOf(L \ M)
                                  /\ QuantityOf(M) \in Nat /\ QuantityOf(L \ M) \in Nat
<1> DEFINE f == LotQuantity
<1>1. \A l \in Lot : f[l] = l.quantity /\ f[l] \in Nat
    BY SettlementConstants DEF LotQuantity, Lot
<1> HIDE DEF f
<1>2. ASSUME NEW M, IsFiniteSet(M), M \subseteq Lot
      PROVE  QuantityOf(M) = SumFunctionOnSet(f, M) /\ NaturalOn(f, M)
    <2> DEFINE g == [l \in M |-> l.quantity]
    <2>1. \A l \in M : g[l] = f[l]
      BY <1>1, <1>2
    <2>2. QuantityOf(M) = SumFunctionOnSet(g, M)
      BY DEF QuantityOf, SumFunction
    <2> HIDE DEF g
    <2>3. SumFunctionOnSet(g, M) = SumFunctionOnSet(f, M)
      BY <1>2, <2>1, SumOfSameValues
    <2> QED
      BY <1>1, <1>2, <2>2, <2>3 DEF NaturalOn
<1>3. QuantityOf(L) = SumFunctionOnSet(f, L) /\ SumFunctionOnSet(f, L) \in Nat
    BY <1>2, SumIsNatural
<1>4. ASSUME NEW l \in Lot, l \notin L
      PROVE  QuantityOf(L \cup {l}) = l.quantity + QuantityOf(L)
    <2> DEFINE K == L \cup {l}
    <2>1. IsFiniteSet(K) /\ K \subseteq Lot
      BY FS_AddElement
    <2>2. QuantityOf(K) = SumFunctionOnSet(f, K) /\ NaturalOn(f, K)
      BY <1>2, <2>1
    <2>3. SumFunctionOnSet(f, K) = f[l] + SumFunctionOnSet(f, L)
      BY <1>4, <2>2, SumWith
    <2> QED
      BY <1>1, <1>3, <2>2, <2>3
<1>5. ASSUME NEW M \in SUBSET L
      PROVE  /\ QuantityOf(L) = QuantityOf(M) + QuantityOf(L \ M)
             /\ QuantityOf(M) \in Nat /\ QuantityOf(L \ M) \in Nat
    <2>1. IsFiniteSet(M) /\ IsFiniteSet(L \ M) /\ M \subseteq Lot /\ L \ M \subseteq Lot
      BY FS_Subset
    <2>2. QuantityOf(M) = SumFunctionOnSet(f, M) /\ QuantityOf(L \ M) = SumFunctionOnSet(f, L \ M)
      BY <1>2, <2>1
    <2>3. /\ SumFunctionOnSet(f, L) = SumFunctionOnSet(f, M) + SumFunctionOnSet(f, L \ M)
          /\ SumFunctionOnSet(f, M) \in Nat /\ SumFunctionOnSet(f, L \ M) \in Nat
      BY <1>2, SumOfParts
    <2> QED
      BY <1>3, <2>2, <2>3
<1> QED
    BY <1>3, <1>4, <1>5

\* The purchases of some dates, with a purchase added or a split applied.
LEMMA DateSums ==
    ASSUME NEW D, D \subseteq TradeDate, NEW f \in [TradeDate -> Nat]
    PROVE  /\ SumFunctionOnSet(f, D) \in Nat
           /\ \A E \in SUBSET D :
                 /\ SumFunctionOnSet(f, D) = SumFunctionOnSet(f, E) + SumFunctionOnSet(f, D \ E)
                 /\ SumFunctionOnSet(f, E) \in Nat /\ SumFunctionOnSet(f, D \ E) \in Nat
           /\ \A d \in TradeDate, v \in Nat :
                 SumFunctionOnSet([f EXCEPT ![d] = @ + v], D)
                    = SumFunctionOnSet(f, D) + (IF d \in D THEN v ELSE 0)
           /\ \A n \in Nat :
                 SumFunctionOnSet([d \in TradeDate |-> n * f[d]], D) = n * SumFunctionOnSet(f, D)
<1>1. IsFiniteSet(D) /\ NaturalOn(f, D)
    <2>1. IsFiniteSet(TradeDate)
      BY SettlementConstants, FS_Interval DEF TradeDate
    <2> QED
      BY <2>1, FS_Subset DEF NaturalOn
<1>2. SumFunctionOnSet(f, D) \in Nat
    BY <1>1, SumIsNatural
<1>3. ASSUME NEW E \in SUBSET D
      PROVE  /\ SumFunctionOnSet(f, D) = SumFunctionOnSet(f, E) + SumFunctionOnSet(f, D \ E)
             /\ SumFunctionOnSet(f, E) \in Nat /\ SumFunctionOnSet(f, D \ E) \in Nat
    BY <1>1, SumOfParts
<1>4. ASSUME NEW d \in TradeDate, NEW v \in Nat
      PROVE  SumFunctionOnSet([f EXCEPT ![d] = @ + v], D)
                = SumFunctionOnSet(f, D) + (IF d \in D THEN v ELSE 0)
    <2> DEFINE g == [f EXCEPT ![d] = @ + v]
    <2>1. g \in [TradeDate -> Nat] /\ g[d] = f[d] + v /\ \A e \in TradeDate \ {d} : g[e] = f[e]
      OBVIOUS
    <2> HIDE DEF g
    <2>2. NaturalOn(g, D)
      BY <2>1 DEF NaturalOn
    <2>3. CASE d \in D
      <3>1. \A e \in D \ {d} : f[e] = g[e]
        BY <2>1
      <3>2. SumFunctionOnSet(g, D) + f[d] = SumFunctionOnSet(f, D) + g[d]
        BY <1>1, <2>2, <2>3, <3>1, SumChanged
      <3>3. SumFunctionOnSet(g, D) \in Nat /\ f[d] \in Nat
        BY <1>1, <2>2, SumIsNatural
      <3> QED
        BY <1>2, <2>1, <2>3, <3>2, <3>3 DEF g
    <2>4. CASE d \notin D
      <3>1. \A e \in D : f[e] = g[e]
        BY <2>1, <2>4
      <3>2. SumFunctionOnSet(f, D) = SumFunctionOnSet(g, D)
        BY <1>1, <3>1, SumOfSameValues
      <3> QED
        BY <1>2, <2>4, <3>2 DEF g
    <2> QED
      BY <2>3, <2>4
<1>5. ASSUME NEW n \in Nat
      PROVE  SumFunctionOnSet([d \in TradeDate |-> n * f[d]], D) = n * SumFunctionOnSet(f, D)
    <2> DEFINE g == [d \in TradeDate |-> n * f[d]]
    <2>1. \A d \in D : g[d] = n * f[d]
      OBVIOUS
    <2> HIDE DEF g
    <2>2. SumFunctionOnSet(g, D) = n * SumFunctionOnSet(f, D)
      BY <1>1, <2>1, SumScaled
    <2> QED
      BY <2>2 DEF g
<1> QED
    BY <1>2, <1>3, <1>4, <1>5

DatesFrom(x) == {d \in TradeDate : d >= x}
LotsFrom(s, x) == {l \in LotsOf(s) : l.date >= x}
Worth(s, lots) == parts[s] * QuantityOf(lots)

\* Nothing is lost: the position and what was sold are what was bought.
NothingLost == \A s \in Security :
    settled[s] >= 0 /\ settled[s] + unsettled[s] + sold[s] = Total(TradeDate, s)

\* The lots of a security that was not split over them are its unsettled quantity,
\* and those of any date on which, or after which, nothing was settled are all that
\* was bought from then on.
LotsHoldUnsettled == \A s \in Security \ splitLate :
    /\ unsettled[s] = Worth(s, LotsOf(s))
    /\ \A x \in Nat : x >= settledTo => Total(DatesFrom(x), s) <= Worth(s, LotsFrom(s, x))

SettlementInv ==
    SettlementTypeOK /\ IsFiniteSet(pendingLots) /\ NothingLost /\ LotsHoldUnsettled

\* The types of what a step reads.
LEMMA SettlementValues ==
    ASSUME SettlementInv, NEW s \in Security
    PROVE  /\ parts[s] \in Nat \ {0} /\ settled[s] \in Int /\ unsettled[s] \in Int
           /\ sold[s] \in Nat /\ bought[s] \in [TradeDate -> Nat] /\ settledTo \in Nat
           /\ LotsOf(s) \subseteq Lot /\ IsFiniteSet(LotsOf(s))
           /\ \A x : LotsFrom(s, x) \subseteq LotsOf(s)
           /\ \A x : DatesFrom(x) \subseteq TradeDate
           /\ \A l \in Lot : l.date \in Nat
<1>1. LotsOf(s) \subseteq pendingLots /\ pendingLots \subseteq Lot
    BY DEF LotsOf, SettlementInv, SettlementTypeOK
<1>2. IsFiniteSet(LotsOf(s))
    BY <1>1, FS_Subset DEF SettlementInv
<1>3. \A l \in Lot : l.date \in Nat
    BY DEF Lot, TradeDate
<1> QED
    BY <1>1, <1>2, <1>3 DEF SettlementInv, SettlementTypeOK, LotsFrom, DatesFrom

LEMMA Distributes ==
    ASSUME NEW a \in Nat, NEW b \in Nat, NEW c \in Nat
    PROVE  a * (b + c) = a * b + a * c /\ a * b \in Nat /\ a * c \in Nat /\ a * b <= a * (b + c)
<1>1. a * (b + c) = a * b + a * c /\ a * b \in Nat /\ a * c \in Nat
    OBVIOUS
<1> QED
    BY <1>1

\* A buy adds its lot to what is unsettled and to what was bought on its date.
LEMMA BuyKeeps ==
    ASSUME SettlementInv, NEW t \in Trade, NEW s \in Security, NEW d \in TradeDate,
           NEW quantity \in Quantity, RecordBuy(t, s, d, quantity)
    PROVE  SettlementInv'
<1> DEFINE v == quantity * parts[s]
           lot == [trade |-> t, security |-> s, date |-> d, quantity |-> quantity]
<1>1. /\ \A l \in pendingLots : l.trade # t
      /\ unsettled' = [unsettled EXCEPT ![s] = @ + v]
      /\ pendingLots' = pendingLots \cup {lot}
      /\ bought' = [bought EXCEPT ![s][d] = @ + v]
      /\ UNCHANGED <<parts, settled, appliedActions, sold, settledTo, splitLate>>
    BY DEF RecordBuy
<1>2. /\ lot \in Lot /\ lot \notin pendingLots /\ lot.security = s /\ lot.date = d
      /\ lot.quantity = quantity /\ quantity \in Nat /\ d \in Nat
    BY <1>1, SettlementConstants DEF Lot, TradeDate
<1>3. parts[s] \in Nat /\ v \in Nat /\ v = parts[s] * quantity
    BY <1>2, SettlementValues
<1> HIDE DEF v, lot
<1>4. /\ unsettled[s] \in Int /\ bought[s] \in [TradeDate -> Nat]
      /\ unsettled'[s] = unsettled[s] + v
      /\ bought'[s] = [bought[s] EXCEPT ![d] = @ + v]
      /\ \A z \in Security \ {s} : unsettled'[z] = unsettled[z] /\ bought'[z] = bought[z]
    BY <1>1, SettlementValues DEF SettlementInv, SettlementTypeOK
<1>5. SettlementTypeOK'
    <2>1. bought'[s] \in [TradeDate -> Nat]
      BY <1>3, <1>4
    <2>2. bought' \in [Security -> [TradeDate -> Nat]]
      BY <1>1, <2>1 DEF SettlementInv, SettlementTypeOK
    <2>3. unsettled' \in [Security -> Int]
      BY <1>1, <1>3 DEF SettlementInv, SettlementTypeOK
    <2> QED
      BY <1>1, <1>2, <2>2, <2>3 DEF SettlementInv, SettlementTypeOK
<1>6. IsFiniteSet(pendingLots')
    BY <1>1, FS_AddElement DEF SettlementInv
<1>7. ASSUME NEW D, D \subseteq TradeDate
      PROVE  /\ Total(D, s)' = Total(D, s) + (IF d \in D THEN v ELSE 0)
             /\ Total(D, s) \in Nat
             /\ \A z \in Security \ {s} : Total(D, z)' = Total(D, z)
    <2> DEFINE f == bought[s]
    <2>1. f \in [TradeDate -> Nat]
      BY <1>4
    <2> HIDE DEF f
    <2>2. /\ SumFunctionOnSet([f EXCEPT ![d] = @ + v], D)
                = SumFunctionOnSet(f, D) + (IF d \in D THEN v ELSE 0)
          /\ SumFunctionOnSet(f, D) \in Nat
      <3>1. /\ \A e \in TradeDate, w \in Nat :
                  SumFunctionOnSet([f EXCEPT ![e] = @ + w], D)
                     = SumFunctionOnSet(f, D) + (IF e \in D THEN w ELSE 0)
            /\ SumFunctionOnSet(f, D) \in Nat
        BY <1>7, <2>1, DateSums
      <3> QED
        BY <1>3, <3>1
    <2>3. bought'[s] = [f EXCEPT ![d] = @ + v]
      BY <1>4 DEF f
    <2>4. Total(D, s)' = SumFunctionOnSet([f EXCEPT ![d] = @ + v], D)
      BY <2>3 DEF Total
    <2>5. Total(D, s) = SumFunctionOnSet(f, D)
      BY DEF Total, f
    <2>6. \A z \in Security \ {s} : Total(D, z)' = Total(D, z)
      BY <1>4 DEF Total
    <2> QED
      BY <2>2, <2>4, <2>5, <2>6
<1>8. NothingLost'
    <2>1. ASSUME NEW z \in Security
          PROVE  settled'[z] >= 0 /\ settled'[z] + unsettled'[z] + sold'[z] = Total(TradeDate, z)'
      <3>1. settled[z] >= 0 /\ settled[z] + unsettled[z] + sold[z] = Total(TradeDate, z)
        BY DEF SettlementInv, NothingLost
      <3>2. settled[z] \in Int /\ unsettled[z] \in Int /\ sold[z] \in Nat
        BY SettlementValues
      <3>3. CASE z = s
        BY <1>1, <1>3, <1>4, <1>7, <3>1, <3>2, <3>3
      <3>4. CASE z # s
        BY <1>1, <1>4, <1>7, <3>1, <3>2, <3>4
      <3> QED
        BY <3>3, <3>4
    <2> QED
      BY <2>1 DEF NothingLost
<1>9. /\ LotsOf(s)' = LotsOf(s) \cup {lot}
      /\ \A z \in Security \ {s} : LotsOf(z)' = LotsOf(z)
    BY <1>1, <1>2 DEF LotsOf
<1>10. ASSUME NEW L, L \subseteq LotsOf(s)
       PROVE  parts[s] * QuantityOf(L \cup {lot}) = parts[s] * QuantityOf(L) + v
    <2>1. IsFiniteSet(L) /\ L \subseteq Lot /\ lot \notin L
      BY <1>2, <1>10, SettlementValues, FS_Subset DEF LotsOf
    <2>2. QuantityOf(L \cup {lot}) = quantity + QuantityOf(L) /\ QuantityOf(L) \in Nat
      BY <1>2, <2>1, LotSums
    <2>3. parts[s] * (quantity + QuantityOf(L)) = parts[s] * quantity + parts[s] * QuantityOf(L)
      BY <1>2, <1>3, <2>2, Distributes
    <2>4. parts[s] * QuantityOf(L) \in Nat
      BY <1>3, <2>2, Distributes
    <2> QED
      BY <1>3, <2>2, <2>3, <2>4
<1>11. LotsHoldUnsettled'
    <2>1. ASSUME NEW z \in Security \ splitLate
          PROVE  unsettled'[z] = Worth(z, LotsOf(z))'
      <3>1. unsettled[z] = parts[z] * QuantityOf(LotsOf(z))
        BY DEF SettlementInv, LotsHoldUnsettled, Worth
      <3>2. CASE z = s
        <4>1. unsettled'[s] = parts[s] * QuantityOf(LotsOf(s) \cup {lot})
          BY <1>4, <1>10, <3>1, <3>2
        <4> QED
          BY <1>1, <1>9, <3>2, <4>1 DEF Worth, QuantityOf
      <3>3. CASE z # s
        BY <1>1, <1>4, <1>9, <3>1, <3>3 DEF Worth, QuantityOf
      <3> QED
        BY <3>2, <3>3
    <2>2. ASSUME NEW z \in Security \ splitLate, NEW x \in Nat, x >= settledTo
          PROVE  Total(DatesFrom(x), z)' <= Worth(z, LotsFrom(z, x))'
      <3>1. Total(DatesFrom(x), z) <= parts[z] * QuantityOf(LotsFrom(z, x))
        BY <2>2 DEF SettlementInv, LotsHoldUnsettled, Worth
      <3>2. DatesFrom(x) \subseteq TradeDate /\ LotsFrom(z, x) \subseteq LotsOf(z)
        BY SettlementValues
      <3>3. CASE z # s
        BY <1>1, <1>7, <1>9, <3>1, <3>2, <3>3 DEF Worth, QuantityOf, LotsFrom, Total, DatesFrom
      <3>4. CASE z = s /\ d >= x
        <4>1. d \in DatesFrom(x) /\ LotsFrom(s, x)' = LotsFrom(s, x) \cup {lot}
          BY <1>2, <1>9, <3>4 DEF DatesFrom, LotsFrom
        <4>2. Total(DatesFrom(x), s)' = Total(DatesFrom(x), s) + v
              /\ Total(DatesFrom(x), s) \in Nat
          BY <1>7, <3>2, <4>1 DEF Total, DatesFrom
        <4>3. Worth(s, LotsFrom(s, x))' = parts[s] * QuantityOf(LotsFrom(s, x)) + v
          BY <1>1, <1>10, <3>2, <3>4, <4>1 DEF Worth, QuantityOf
        <4>4. parts[s] * QuantityOf(LotsFrom(s, x)) \in Nat
          <5>1. IsFiniteSet(LotsFrom(s, x)) /\ LotsFrom(s, x) \subseteq Lot
            BY <3>2, <3>4, SettlementValues, FS_Subset
          <5> QED
            BY <1>3, <5>1, LotSums, Distributes
        <4> QED
          BY <1>3, <3>1, <3>4, <4>2, <4>3, <4>4
      <3>5. CASE z = s /\ ~(d >= x)
        <4>1. d \notin DatesFrom(x) /\ LotsFrom(s, x)' = LotsFrom(s, x)
          BY <1>2, <1>9, <3>5 DEF DatesFrom, LotsFrom
        <4>2. Total(DatesFrom(x), s)' = Total(DatesFrom(x), s)
          BY <1>7, <3>2, <4>1 DEF Total, DatesFrom
        <4> QED
          BY <1>1, <3>1, <3>5, <4>1, <4>2 DEF Worth, QuantityOf
      <3> QED
        BY <3>3, <3>4, <3>5
    <2> QED
      BY <1>1, <2>1, <2>2 DEF LotsHoldUnsettled
<1> QED
    BY <1>5, <1>6, <1>8, <1>11 DEF SettlementInv

\* A settlement moves the worth of its lots, all traded before its date.
LEMMA SettleKeeps ==
    ASSUME SettlementInv, NEW d \in TradeDate, SettleThrough(d)
    PROVE  SettlementInv'
<1> DEFINE moved(s) == Worth(s, Due(d) \cap LotsOf(s))
<1>1. /\ settled' = [s \in Security |-> settled[s] + moved(s)]
      /\ unsettled' = [s \in Security |-> unsettled[s] - moved(s)]
      /\ pendingLots' = pendingLots \ Due(d)
      /\ settledTo' = IF d > settledTo THEN d ELSE settledTo
      /\ UNCHANGED <<parts, appliedActions, bought, sold, splitLate>>
    BY DEF SettleThrough, Worth
<1>2. d \in Nat /\ settledTo \in Nat /\ settledTo' \in Nat /\ settledTo' >= d /\ settledTo' >= settledTo
    BY <1>1 DEF TradeDate, SettlementInv, SettlementTypeOK
<1>3. ASSUME NEW s \in Security
      PROVE  /\ LotsOf(s)' = LotsOf(s) \ (Due(d) \cap LotsOf(s))
             /\ moved(s) \in Nat /\ Worth(s, LotsOf(s))' \in Nat
             /\ Worth(s, LotsOf(s)) = moved(s) + Worth(s, LotsOf(s))'
    <2> DEFINE L == LotsOf(s)
               M == Due(d) \cap LotsOf(s)
    <2>1. LotsOf(s)' = L \ M
      BY <1>1 DEF LotsOf, Due
    <2>2. parts[s] \in Nat /\ IsFiniteSet(L) /\ L \subseteq Lot /\ M \subseteq L
      BY SettlementValues
    <2>3. moved(s) = parts[s] * QuantityOf(M) /\ Worth(s, L) = parts[s] * QuantityOf(L)
      BY DEF Worth
    <2>4. Worth(s, LotsOf(s))' = parts[s] * QuantityOf(L \ M)
      BY <1>1, <2>1 DEF Worth, QuantityOf
    <2> HIDE DEF L, M, moved
    <2>5. /\ QuantityOf(L) = QuantityOf(M) + QuantityOf(L \ M)
          /\ QuantityOf(M) \in Nat /\ QuantityOf(L \ M) \in Nat
      BY <2>2, LotSums
    <2>6. /\ parts[s] * QuantityOf(L) = parts[s] * QuantityOf(M) + parts[s] * QuantityOf(L \ M)
          /\ parts[s] * QuantityOf(M) \in Nat /\ parts[s] * QuantityOf(L \ M) \in Nat
      BY <2>2, <2>5, Distributes
    <2>7. Worth(s, L) = moved(s) + Worth(s, LotsOf(s))'
      BY <2>3, <2>4, <2>6
    <2>8. moved(s) \in Nat /\ Worth(s, LotsOf(s))' \in Nat
      BY <2>3, <2>4, <2>6
    <2> QED
      BY <2>1, <2>7, <2>8 DEF L, M
<1> HIDE DEF moved
<1>4. SettlementTypeOK'
    <2>1. settled' \in [Security -> Int] /\ unsettled' \in [Security -> Int]
      BY <1>1, <1>3 DEF SettlementInv, SettlementTypeOK
    <2>2. pendingLots' \in SUBSET Lot
      BY <1>1 DEF SettlementInv, SettlementTypeOK
    <2> QED
      BY <1>1, <1>2, <2>1, <2>2 DEF SettlementInv, SettlementTypeOK
<1>5. IsFiniteSet(pendingLots')
    BY <1>1, FS_Subset DEF SettlementInv
<1>6. \A D, s : Total(D, s)' = Total(D, s)
    BY <1>1 DEF Total
<1>7. NothingLost'
    <2>1. ASSUME NEW s \in Security
          PROVE  settled'[s] >= 0 /\ settled'[s] + unsettled'[s] + sold'[s] = Total(TradeDate, s)'
      <3>1. settled[s] >= 0 /\ settled[s] + unsettled[s] + sold[s] = Total(TradeDate, s)
        BY DEF SettlementInv, NothingLost
      <3>2. settled[s] \in Int /\ unsettled[s] \in Int /\ sold[s] \in Nat /\ moved(s) \in Nat
        BY <1>3, SettlementValues
      <3>3. settled'[s] = settled[s] + moved(s) /\ unsettled'[s] = unsettled[s] - moved(s)
        BY <1>1
      <3>4. Total(TradeDate, s)' = Total(TradeDate, s) /\ sold'[s] = sold[s]
        BY <1>1, <1>6
      <3> QED
        BY <3>1, <3>2, <3>3, <3>4
    <2> QED
      BY <2>1 DEF NothingLost
<1>8. LotsHoldUnsettled'
    <2>1. ASSUME NEW s \in Security \ splitLate
          PROVE  unsettled'[s] = Worth(s, LotsOf(s))'
      <3>1. unsettled[s] = Worth(s, LotsOf(s))
        BY DEF SettlementInv, LotsHoldUnsettled
      <3>2. unsettled'[s] = unsettled[s] - moved(s)
        BY <1>1
      <3>3. Worth(s, LotsOf(s)) = moved(s) + Worth(s, LotsOf(s))'
            /\ moved(s) \in Nat /\ Worth(s, LotsOf(s))' \in Nat
        BY <1>3
      <3> QED
        BY <3>1, <3>2, <3>3
    <2>2. ASSUME NEW s \in Security \ splitLate, NEW x \in Nat, x >= settledTo'
          PROVE  Total(DatesFrom(x), s)' <= Worth(s, LotsFrom(s, x))'
      <3>1. x >= d /\ x >= settledTo
        BY <1>2, <2>2
      <3>2. LotsFrom(s, x)' = LotsFrom(s, x)
        <4>1. \A l \in LotsOf(s) : l.date \in Nat
          BY SettlementValues
        <4>2. \A l \in LotsOf(s) : l.date >= x => l \notin Due(d)
          BY <1>2, <3>1, <4>1 DEF Due
        <4> QED
          BY <1>3, <4>2 DEF LotsFrom
      <3>3. Worth(s, LotsFrom(s, x))' = Worth(s, LotsFrom(s, x))
        BY <1>1, <3>2 DEF Worth, QuantityOf
      <3>4. Total(DatesFrom(x), s) <= Worth(s, LotsFrom(s, x))
        BY <3>1 DEF SettlementInv, LotsHoldUnsettled
      <3>5. Total(DatesFrom(x), s)' = Total(DatesFrom(x), s)
        BY <1>1 DEF Total, DatesFrom
      <3> QED
        BY <3>3, <3>4, <3>5
    <2> QED
      BY <1>1, <2>1, <2>2 DEF LotsHoldUnsettled
<1> QED
    BY <1>4, <1>5, <1>7, <1>8 DEF SettlementInv

\* A sale takes only from what is settled.
LEMMA SellKeeps ==
    ASSUME SettlementInv, NEW s \in Security, NEW quantity \in Quantity, RecordSell(s, quantity)
    PROVE  SettlementInv'
<1> DEFINE v == quantity * parts[s]
<1>1. /\ v <= settled[s]
      /\ settled' = [settled EXCEPT ![s] = @ - v]
      /\ sold' = [sold EXCEPT ![s] = @ + v]
      /\ UNCHANGED <<parts, unsettled, pendingLots, appliedActions, bought, settledTo, splitLate>>
    BY DEF RecordSell, Sellable
<1>2. v \in Nat
    BY SettlementValues, SettlementConstants
<1> HIDE DEF v
<1>3. SettlementTypeOK'
    <2>1. settled' \in [Security -> Int] /\ sold' \in [Security -> Nat]
      BY <1>1, <1>2 DEF SettlementInv, SettlementTypeOK
    <2> QED
      BY <1>1, <2>1 DEF SettlementInv, SettlementTypeOK
<1>4. NothingLost'
    <2>1. ASSUME NEW z \in Security
          PROVE  settled'[z] >= 0 /\ settled'[z] + unsettled'[z] + sold'[z] = Total(TradeDate, z)'
      <3>1. settled[z] >= 0 /\ settled[z] + unsettled[z] + sold[z] = Total(TradeDate, z)
        BY DEF SettlementInv, NothingLost
      <3>2. /\ settled[z] \in Int /\ unsettled[z] \in Int /\ sold[z] \in Nat
            /\ settled \in [Security -> Int] /\ sold \in [Security -> Nat]
        BY SettlementValues DEF SettlementInv, SettlementTypeOK
      <3>3. Total(TradeDate, z)' = Total(TradeDate, z) /\ unsettled'[z] = unsettled[z]
        BY <1>1 DEF Total
      <3>4. CASE z = s
        BY <1>1, <1>2, <3>1, <3>2, <3>3, <3>4
      <3>5. CASE z # s
        BY <1>1, <3>1, <3>2, <3>3, <3>5
      <3> QED
        BY <3>4, <3>5
    <2> QED
      BY <2>1 DEF NothingLost
<1>5. LotsHoldUnsettled'
    BY <1>1 DEF SettlementInv, LotsHoldUnsettled, Worth, QuantityOf, LotsOf, LotsFrom, Total, DatesFrom
<1> QED
    BY <1>1, <1>3, <1>4, <1>5 DEF SettlementInv

\* A split scales every quantity of its security; over pending lots, these stay as
\* they are, and the security is one of those split late.
LEMMA SplitKeeps ==
    ASSUME SettlementInv, NEW a \in Split, NEW s \in Security, NEW r \in Ratio, ApplySplit(a, s, r)
    PROVE  SettlementInv'
<1> DEFINE n == r[1]
           m == r[2]
<1>1. /\ appliedActions' = appliedActions \cup {a}
      /\ parts' = [parts EXCEPT ![s] = m * @]
      /\ settled' = [settled EXCEPT ![s] = n * @]
      /\ unsettled' = [unsettled EXCEPT ![s] = n * @]
      /\ bought' = [bought EXCEPT ![s] = [d \in TradeDate |-> n * @[d]]]
      /\ sold' = [sold EXCEPT ![s] = n * @]
      /\ splitLate' = IF LotsOf(s) = {} THEN splitLate ELSE splitLate \cup {s}
      /\ UNCHANGED <<pendingLots, settledTo>>
    BY DEF ApplySplit
<1>2. n \in Nat \ {0} /\ m \in Nat \ {0}
    BY SettlementConstants
<1> HIDE DEF n, m
<1>3. /\ settled[s] \in Int /\ unsettled[s] \in Int /\ sold[s] \in Nat /\ parts[s] \in Nat \ {0}
      /\ bought[s] \in [TradeDate -> Nat]
      /\ settled'[s] = n * settled[s] /\ unsettled'[s] = n * unsettled[s]
      /\ sold'[s] = n * sold[s] /\ parts'[s] = m * parts[s]
      /\ bought'[s] = [d \in TradeDate |-> n * bought[s][d]]
      /\ \A z \in Security \ {s} :
            /\ settled'[z] = settled[z] /\ unsettled'[z] = unsettled[z] /\ sold'[z] = sold[z]
            /\ parts'[z] = parts[z] /\ bought'[z] = bought[z]
    BY <1>1, SettlementValues DEF SettlementInv, SettlementTypeOK
<1>4. SettlementTypeOK'
    <2>1. m * parts[s] \in Nat \ {0} /\ n * sold[s] \in Nat /\ n * settled[s] \in Int
          /\ n * unsettled[s] \in Int
      BY <1>2, <1>3
    <2>2. parts' \in [Security -> Nat \ {0}] /\ sold' \in [Security -> Nat]
      BY <1>1, <2>1 DEF SettlementInv, SettlementTypeOK
    <2>3. settled' \in [Security -> Int] /\ unsettled' \in [Security -> Int]
      BY <1>1, <2>1 DEF SettlementInv, SettlementTypeOK
    <2>4. bought'[s] \in [TradeDate -> Nat]
      BY <1>2, <1>3
    <2>5. bought' \in [Security -> [TradeDate -> Nat]]
      BY <1>1, <2>4 DEF SettlementInv, SettlementTypeOK
    <2>6. appliedActions' \in SUBSET Split /\ splitLate' \in SUBSET Security
      BY <1>1 DEF SettlementInv, SettlementTypeOK
    <2> QED
      BY <1>1, <2>2, <2>3, <2>5, <2>6 DEF SettlementInv, SettlementTypeOK
<1>5. ASSUME NEW D, D \subseteq TradeDate
      PROVE  /\ Total(D, s)' = n * Total(D, s) /\ Total(D, s) \in Nat
             /\ \A z \in Security \ {s} : Total(D, z)' = Total(D, z)
    <2> DEFINE f == bought[s]
    <2>1. f \in [TradeDate -> Nat] /\ n \in Nat
      BY <1>2, <1>3
    <2> HIDE DEF f
    <2>2. /\ SumFunctionOnSet([d \in TradeDate |-> n * f[d]], D) = n * SumFunctionOnSet(f, D)
          /\ SumFunctionOnSet(f, D) \in Nat
      BY <1>5, <2>1, DateSums
    <2>3. bought'[s] = [d \in TradeDate |-> n * f[d]]
      BY <1>3 DEF f
    <2>4. Total(D, s)' = SumFunctionOnSet([d \in TradeDate |-> n * f[d]], D)
      BY <2>3 DEF Total
    <2>5. Total(D, s) = SumFunctionOnSet(f, D)
      BY DEF Total, f
    <2>6. \A z \in Security \ {s} : Total(D, z)' = Total(D, z)
      BY <1>3 DEF Total
    <2> QED
      BY <2>2, <2>4, <2>5, <2>6
<1>6. NothingLost'
    <2>1. ASSUME NEW z \in Security
          PROVE  settled'[z] >= 0 /\ settled'[z] + unsettled'[z] + sold'[z] = Total(TradeDate, z)'
      <3>1. settled[z] >= 0 /\ settled[z] + unsettled[z] + sold[z] = Total(TradeDate, z)
        BY DEF SettlementInv, NothingLost
      <3>2. CASE z = s
        <4>1. n * (settled[s] + unsettled[s] + sold[s])
                 = n * settled[s] + n * unsettled[s] + n * sold[s]
          BY <1>2, <1>3
        <4>2. n * settled[s] >= 0
          BY <1>2, <1>3, <3>1, <3>2
        <4>3. Total(TradeDate, s)' = n * Total(TradeDate, s)
          BY <1>5
        <4> QED
          BY <1>3, <3>1, <3>2, <4>1, <4>2, <4>3
      <3>3. CASE z # s
        BY <1>3, <1>5, <3>1, <3>3
      <3> QED
        BY <3>2, <3>3
    <2> QED
      BY <2>1 DEF NothingLost
<1>7. LotsHoldUnsettled'
    <2>1. ASSUME NEW z \in Security \ splitLate'
          PROVE  /\ unsettled'[z] = Worth(z, LotsOf(z))'
                 /\ \A x \in Nat : x >= settledTo' => Total(DatesFrom(x), z)' <= Worth(z, LotsFrom(z, x))'
      <3>1. z \in Security \ splitLate
        BY <1>1, <2>1
      <3>2. unsettled[z] = Worth(z, LotsOf(z))
            /\ \A x \in Nat : x >= settledTo => Total(DatesFrom(x), z) <= Worth(z, LotsFrom(z, x))
        BY <3>1 DEF SettlementInv, LotsHoldUnsettled
      <3>3. LotsOf(z)' = LotsOf(z) /\ \A x : LotsFrom(z, x)' = LotsFrom(z, x)
        BY <1>1 DEF LotsOf, LotsFrom
      <3>4. CASE z = s
        <4>1. LotsOf(s) = {} /\ \A x : LotsFrom(s, x) = {}
          BY <1>1, <2>1, <3>4 DEF LotsFrom
        <4>2. QuantityOf({}) = 0
          BY SumEmpty DEF QuantityOf, SumFunction
        <4> DEFINE none == QuantityOf({})
        <4> HIDE DEF none
        <4>3. Worth(s, LotsOf(s)) = 0 /\ \A x : Worth(s, LotsFrom(s, x)) = 0
          <5>1. parts[s] * none = 0
            BY <1>3, <4>2 DEF none
          <5> QED
            BY <4>1, <5>1 DEF Worth, none
        <4>5. Worth(s, LotsOf(s))' = 0 /\ \A x : Worth(s, LotsFrom(s, x))' = 0
          <5>1. parts'[s] \in Nat
            BY <1>2, <1>3
          <5>2. parts'[s] * none = 0
            BY <4>2, <5>1 DEF none
          <5>3. LotsOf(s)' = {} /\ \A x : LotsFrom(s, x)' = {}
            BY <3>3, <3>4, <4>1
          <5> QED
            BY <5>2, <5>3 DEF Worth, QuantityOf, none
        <4>6. unsettled'[s] = 0
          BY <1>2, <1>3, <3>2, <3>4, <4>3
        <4>7. ASSUME NEW x \in Nat, x >= settledTo'
              PROVE  Total(DatesFrom(x), s)' = 0
          <5>1. Total(DatesFrom(x), s) <= 0
            BY <1>1, <3>2, <3>4, <4>3, <4>7
          <5>2. DatesFrom(x) \subseteq TradeDate
            BY DEF DatesFrom
          <5>3. Total(DatesFrom(x), s)' = n * Total(DatesFrom(x), s) /\ Total(DatesFrom(x), s) \in Nat
            BY <1>5, <5>2 DEF Total, DatesFrom
          <5> QED
            BY <1>2, <5>1, <5>3
        <4> QED
          BY <3>4, <4>5, <4>6, <4>7
      <3>5. CASE z # s
        <4>1. unsettled'[z] = unsettled[z] /\ parts'[z] = parts[z] /\ bought'[z] = bought[z]
          BY <1>3, <3>5
        <4>2. Worth(z, LotsOf(z))' = Worth(z, LotsOf(z))
              /\ \A x : Worth(z, LotsFrom(z, x))' = Worth(z, LotsFrom(z, x))
          BY <3>3, <4>1 DEF Worth, QuantityOf
        <4>3. \A x : Total(DatesFrom(x), z)' = Total(DatesFrom(x), z)
          BY <4>1 DEF Total, DatesFrom
        <4> QED
          BY <1>1, <3>2, <4>1, <4>2, <4>3
      <3> QED
        BY <3>4, <3>5
    <2> QED
      BY <2>1 DEF LotsHoldUnsettled
<1> QED
    BY <1>1, <1>4, <1>6, <1>7 DEF SettlementInv

LEMMA NothingHeldAtFirst == SettlementInit => SettlementInv
<1> SUFFICES ASSUME SettlementInit
             PROVE  SettlementInv
    OBVIOUS
<1>1. ASSUME NEW s \in Security, NEW D, D \subseteq TradeDate
      PROVE  Total(D, s) = 0
    <2> DEFINE f == bought[s]
    <2>1. f \in [TradeDate -> Nat] /\ \A d \in D : f[d] = 0
      BY <1>1 DEF SettlementInit
    <2> HIDE DEF f
    <2>2. IsFiniteSet(D)
      <3>1. IsFiniteSet(TradeDate)
        BY SettlementConstants, FS_Interval DEF TradeDate
      <3> QED
        BY <1>1, <3>1, FS_Subset
    <2>3. SumFunctionOnSet(f, D) = 0
      BY <2>1, <2>2, SumOfZeros
    <2> QED
      BY <2>3 DEF Total, f
<1>2. \A s : LotsOf(s) = {} /\ \A x : LotsFrom(s, x) = {}
    BY DEF SettlementInit, LotsOf, LotsFrom
<1>3. QuantityOf({}) = 0
    BY SumEmpty DEF QuantityOf, SumFunction
<1>4. \A s \in Security : Worth(s, {}) = 0 /\ settled[s] = 0 /\ unsettled[s] = 0 /\ sold[s] = 0
    BY <1>3 DEF Worth, SettlementInit
<1>5. \A x : DatesFrom(x) \subseteq TradeDate
    BY DEF DatesFrom
<1>6. SettlementTypeOK
    BY DEF SettlementInit, SettlementTypeOK
<1>7. IsFiniteSet(pendingLots)
    BY FS_EmptySet DEF SettlementInit
<1>8. NothingLost
    BY <1>1, <1>4 DEF NothingLost
<1>9. LotsHoldUnsettled
    <2>1. ASSUME NEW s \in Security
          PROVE  unsettled[s] = Worth(s, LotsOf(s))
      BY <1>2, <1>4
    <2>2. ASSUME NEW s \in Security, NEW x \in Nat
          PROVE  Total(DatesFrom(x), s) <= Worth(s, LotsFrom(s, x))
      <3>1. Total(DatesFrom(x), s) = 0
        BY <1>1, <1>5
      <3>2. Worth(s, LotsFrom(s, x)) = 0
        BY <1>2, <1>4
      <3> QED
        BY <3>1, <3>2
    <2> QED
      BY <2>1, <2>2 DEF LotsHoldUnsettled
<1> QED
    BY <1>6, <1>7, <1>8, <1>9 DEF SettlementInv

\* What can be sold was bought before the latest settlement's date: the lots that
\* remain hold at least all that was bought from that date on.
LEMMA SettledWasBoughtBefore == SettlementInv => SettledBeforeSold
<1> SUFFICES ASSUME SettlementInv, NEW s \in Security, s \notin splitLate
             PROVE  /\ unsettled[s] = parts[s] * QuantityOf(LotsOf(s))
                    /\ settled[s] + sold[s] <= Total({d \in TradeDate : d < settledTo}, s)
    BY DEF SettledBeforeSold, SettlementInv, NothingLost
<1> DEFINE Earlier == {d \in TradeDate : d < settledTo}
           L == LotsOf(s)
           M == LotsFrom(s, settledTo)
<1>1. /\ parts[s] \in Nat /\ settled[s] \in Int /\ unsettled[s] \in Int /\ sold[s] \in Nat
      /\ bought[s] \in [TradeDate -> Nat] /\ settledTo \in Nat
      /\ L \subseteq Lot /\ IsFiniteSet(L) /\ M \subseteq L
    BY SettlementValues
<1>2. settled[s] + unsettled[s] + sold[s] = Total(TradeDate, s)
    BY DEF SettlementInv, NothingLost
<1>3. /\ unsettled[s] = parts[s] * QuantityOf(L)
      /\ Total(DatesFrom(settledTo), s) <= parts[s] * QuantityOf(M)
    BY <1>1 DEF SettlementInv, LotsHoldUnsettled, Worth
<1>4. parts[s] * QuantityOf(M) <= parts[s] * QuantityOf(L)
      /\ parts[s] * QuantityOf(M) \in Nat /\ parts[s] * QuantityOf(L) \in Nat
    <2> HIDE DEF L, M
    <2>1. /\ QuantityOf(L) = QuantityOf(M) + QuantityOf(L \ M)
          /\ QuantityOf(M) \in Nat /\ QuantityOf(L \ M) \in Nat /\ QuantityOf(L) \in Nat
      BY <1>1, LotSums
    <2>2. parts[s] * QuantityOf(M) <= parts[s] * (QuantityOf(M) + QuantityOf(L \ M))
          /\ parts[s] * QuantityOf(M) \in Nat
      BY <1>1, <2>1, Distributes
    <2>3. parts[s] * QuantityOf(L) \in Nat
      BY <1>1, <2>1
    <2> QED
      BY <2>1, <2>2, <2>3
<1>5. /\ Total(TradeDate, s) = Total(Earlier, s) + Total(DatesFrom(settledTo), s)
      /\ Total(Earlier, s) \in Nat /\ Total(DatesFrom(settledTo), s) \in Nat
    <2>1. Earlier \in SUBSET TradeDate /\ TradeDate \ Earlier = DatesFrom(settledTo)
      BY <1>1 DEF DatesFrom, TradeDate
    <2> HIDE DEF Earlier
    <2> DEFINE f == bought[s]
    <2>2. f \in [TradeDate -> Nat] /\ TradeDate \subseteq TradeDate
      BY <1>1
    <2> HIDE DEF f
    <2>3. /\ SumFunctionOnSet(f, TradeDate)
                = SumFunctionOnSet(f, Earlier) + SumFunctionOnSet(f, TradeDate \ Earlier)
          /\ SumFunctionOnSet(f, Earlier) \in Nat /\ SumFunctionOnSet(f, TradeDate \ Earlier) \in Nat
      BY <2>1, <2>2, DateSums
    <2> QED
      BY <2>1, <2>3 DEF Total, f
<1> HIDE DEF Earlier
<1>6. settled[s] + sold[s] <= Total(Earlier, s)
    <2> HIDE DEF L, M
    <2> QED
      BY <1>1, <1>2, <1>3, <1>4, <1>5
<1> QED
    BY <1>3, <1>6 DEF Earlier

LEMMA SettlementCorrect == SettlementSpec => []SettlementInv
<1>1. SettlementInv /\ [SettlementNext]_settlementVars => SettlementInv'
    <2> SUFFICES ASSUME SettlementInv, [SettlementNext]_settlementVars
                 PROVE  SettlementInv'
      OBVIOUS
    <2>1. CASE UNCHANGED settlementVars
      BY <2>1 DEF settlementVars, SettlementInv, SettlementTypeOK, NothingLost, LotsHoldUnsettled,
                  Worth, QuantityOf, LotsOf, LotsFrom, Total, DatesFrom
    <2>2. CASE SettlementNext
      BY <2>2, BuyKeeps, SellKeeps, SplitKeeps, SettleKeeps DEF SettlementNext
    <2> QED
      BY <2>1, <2>2
<1> QED
    BY <1>1, NothingHeldAtFirst, PTL DEF SettlementSpec

\* Nothing is lost or sold twice, and nothing is sold before a settlement date after
\* its purchase has passed (SecuritiesSettlementBookV1), for any number of trades and
\* securities, whatever their quantities and the ratios of splits, however late a fill
\* is booked and however often, and for whatever date, a settlement is run.
THEOREM SoldWasSettled == SettlementSpec => []SettledBeforeSold
<1> QED
    BY SettlementCorrect, SettledWasBoughtBefore, PTL

=============================================================================
