----------------------------- MODULE AtomicCommit -----------------------------
(***************************************************************************)
(* AtomicRiskBoundaryV1 and AtomicExecutionBoundaryV1 of one account, over *)
(* the order state machine, the reservation book, the ledger and the       *)
(* transaction store they share.  A commit is one step; when a write of it *)
(* raises, the transaction is rolled back but what the earlier writes did  *)
(* to the in-memory stores stays.                                          *)
(***************************************************************************)
EXTENDS OrderStateMachine, FiniteSets, Functions

CONSTANTS
    Approved,   \* the quantities a risk decision may approve
    Available,  \* the available amounts a decision may be committed with
    Report,     \* the fill reports: id, order, execution, last, amount
    Id,         \* brokerReportIds
    Execution,  \* executionIds
    OpeningCash \* the opening balance journal

ASSUME CommitConstants ==
    /\ Approved \subseteq Nat \ {0}
    /\ Available \subseteq Nat
    /\ Report \subseteq [id : Id, order : Order, execution : Execution,
                         last : Nat \ {0}, amount : Nat \ {0}]
    /\ OpeningCash \in Nat
    /\ IsFiniteSet(Execution)

VARIABLES
    reservations, \* order -> the amounts reserved and consumed, 0 reserved for none
    consumption,  \* _executionAmounts: <<order, execution>> -> amount, 0 for none
    journals,     \* the trade journals, each the report it was built from
    cash,         \* CASH_AVAILABLE projected from the journals
    facts,        \* the RISK_DECISION orders and EXECUTION_REPORT reports committed
    failed        \* history: whether the last call raised

stores == <<orders, reservations, consumption, journals, cash, facts>>
vars == <<stores, failed>>

TypeOK ==
    /\ OrdersTypeOK
    /\ reservations \in [Order -> [reserved : Nat, consumed : Nat]]
    /\ consumption \in [Order \X Execution -> Nat]
    /\ journals \in SUBSET Report
    /\ cash \in Nat
    /\ facts \in SUBSET (Order \cup Report)
    /\ failed \in BOOLEAN

Init ==
    /\ OrdersInit
    /\ reservations = [o \in Order |-> [reserved |-> 0, consumed |-> 0]]
    /\ consumption = [x \in Order \X Execution |-> 0]
    /\ journals = {}
    /\ cash = OpeningCash
    /\ facts = {}
    /\ failed = FALSE

Reserved(o) == reservations[o].reserved # 0
Remaining(o) == reservations[o].reserved - reservations[o].consumed

-----------------------------------------------------------------------------
(* Risk decisions.                                                         *)

\* reserve(): the id must be new and the resources must do.
CanReserve(o, approved, available) == ~Reserved(o) /\ approved <= available

Reserve(o, approved) ==
    reservations' = [reservations EXCEPT ![o] = [reserved |-> approved, consumed |-> 0]]

ApprovalMovesFirst(o, approved, available) ==
    /\ Input(o, "RISK_APPROVAL")
    /\ IF CanReserve(o, approved, available)
       THEN Reserve(o, approved) /\ facts' = facts \cup {o} /\ failed' = FALSE
       ELSE failed' = TRUE /\ UNCHANGED <<reservations, facts>>
    /\ UNCHANGED <<consumption, journals, cash>>

\* commitApproval(): reservation, order, then fact and outgoing message.  An
\* order that is unknown or not in PENDING_RISK raises after the reservation.
CommitApproval(o, approved, available) ==
    /\ CanReserve(o, approved, available)
    /\ Reserve(o, approved)
    /\ \/ /\ Input(o, "RISK_APPROVAL")
          /\ facts' = facts \cup {o}
          /\ failed' = FALSE
       \/ /\ ~Accepts(o, "RISK_APPROVAL")
          /\ failed' = TRUE
          /\ UNCHANGED <<orders, facts>>
    /\ UNCHANGED <<consumption, journals, cash>>

\* commitRejection(): the order first, so a failure leaves nothing.
CommitRejection(o) ==
    /\ Input(o, "RISK_REJECTION")
    /\ facts' = facts \cup {o}
    /\ failed' = FALSE
    /\ UNCHANGED <<reservations, consumption, journals, cash>>

-----------------------------------------------------------------------------
(* Execution reports.  Only fills get past _buildJournal: a cancellation or *)
(* a rejection always raises there, before anything is written.             *)

\* _buildJournal(): a withdrawal, which needs the cash.  The risk boundary names
\* every order "order-...", so none is a sale by its "SELL" prefix.
CanPay(r) == r.amount <= cash

\* applyFill(): once per execution, within the reservation.
KnownFill(r) == consumption[<<r.order, r.execution>>] = r.last
NewFill(r) == consumption[<<r.order, r.execution>>] = 0 /\ r.last <= Remaining(r.order)
CanConsume(r) == Reserved(r.order) /\ (KnownFill(r) \/ NewFill(r))

ConsumeAgain(r) ==
    /\ reservations' = [reservations EXCEPT ![r.order].consumed = @ + r.last]
    /\ consumption' = [consumption EXCEPT ![<<r.order, r.execution>>] = r.last]

Consume(r) ==
    IF KnownFill(r) THEN UNCHANGED <<reservations, consumption>>
    ELSE /\ reservations' = [reservations EXCEPT ![r.order].consumed = @ + r.last]
         /\ consumption' = [consumption EXCEPT ![<<r.order, r.execution>>] = r.last]

\* commitJournal(): the journal id is the report's.
CanPost(r) == \A j \in journals : j.id # r.id

Post(r) ==
    /\ journals' = journals \cup {r}
    /\ cash' = cash - r.amount

\* commitExecutionReport(): order, reservation, ledger, then fact and outgoing
\* message; a write that raises leaves the ones before it.
CommitReportJournalFirst(r) ==
    /\ CanPay(r) /\ CanPost(r)
    /\ Post(r)
    /\ IF Exists(r.order) /\ CanFill(r.order, r.last) /\ CanConsume(r)
       THEN /\ Fill(r.order, r.last)
            /\ Consume(r)
            /\ facts' = facts \cup {r}
            /\ failed' = FALSE
       ELSE failed' = TRUE /\ UNCHANGED <<orders, reservations, consumption, facts>>

CommitReport(r) ==
    /\ CanPay(r)
    /\ Exists(r.order) /\ CanFill(r.order, r.last)
    /\ Fill(r.order, r.last)
    /\ IF CanConsume(r) THEN Consume(r) ELSE UNCHANGED <<reservations, consumption>>
    /\ IF CanConsume(r) /\ CanPost(r)
       THEN Post(r) /\ facts' = facts \cup {r} /\ failed' = FALSE
       ELSE failed' = TRUE /\ UNCHANGED <<journals, cash, facts>>

-----------------------------------------------------------------------------
\* The other inputs of the machine; risk decisions come by the boundary only.
OtherInputs == PlainInputs \ {"RISK_APPROVAL", "RISK_REJECTION"}

MachineStep ==
    /\ \E o \in Order :
          \/ CreateIntent(o) \/ Expire(o) \/ LateFill(o)
          \/ \E input \in OtherInputs : Input(o, input)
    /\ failed' = FALSE
    /\ UNCHANGED <<reservations, consumption, journals, cash, facts>>

Next ==
    \/ MachineStep
    \/ \E o \in Order : CommitRejection(o)
    \/ \E o \in Order, approved \in Approved, available \in Available :
          CommitApproval(o, approved, available)
    \/ \E r \in Report : CommitReport(r)

Spec == Init /\ [][Next]_vars

-----------------------------------------------------------------------------
(* Properties.                                                             *)

\* "No order is sent without a decision, none is approved without a
\* reservation", though commits fail half way and are retried.  (A verified late
\* fill may still make FILLED of an order that risk had rejected.)
Undecided == {"NEW", "PENDING_RISK"}

DecidedAndReserved ==
    \A o \in Order : orders[o].state \notin Undecided =>
        /\ o \in facts
        /\ ~IsTerminal(o) => Reserved(o)

\* The books agree: every journal is of an execution the reservation paid for
\* and of an order that shows a fill, and has its fact.
JournalBacked ==
    \A j \in journals :
        /\ consumption[<<j.order, j.execution>>] = j.last
        /\ IsTerminal(j.order) \/ orders[j.order].cumulative > 0
        /\ j \in facts

\* No order consumes more than the decision approved, and what was consumed is
\* what its executions took, each once, however often they were reported.
ReservationKept ==
    \A o \in Order :
        /\ reservations[o].consumed <= reservations[o].reserved
        /\ reservations[o].consumed =
              SumFunctionOnSet(consumption, {o} \X Execution)

\* "When any write fails the whole commit is rolled back, no side effect stays."
FailedCommitLeavesNothing == [][failed' => UNCHANGED stores]_vars
=============================================================================
