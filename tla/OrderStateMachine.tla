-------------------------- MODULE OrderStateMachine --------------------------
(***************************************************************************)
(* OrderStateMachineV1: the latest snapshot of every order and the         *)
(* transition table.  A call that names another account, another version   *)
(* or an input the table does not have raises and changes nothing, so only *)
(* the calls that are accepted are steps.                                  *)
(***************************************************************************)
EXTENDS Naturals

CONSTANTS
    Order,      \* clientOrderIds
    Account,
    AccountOf,  \* the account an order's intent names
    Quantity    \* the quantity an order's intent names

ASSUME OrderConstants ==
    /\ AccountOf \in [Order -> Account]
    /\ Quantity \in [Order -> Nat \ {0}]

VARIABLE orders \* _latest: the last stored snapshot of each order

States == {"NEW", "PENDING_RISK", "APPROVED", "PENDING_SUBMIT", "SUBMITTED",
           "ACCEPTED", "PARTIALLY_FILLED", "PENDING_CANCEL", "CANCELLED",
           "FILLED", "REJECTED", "EXPIRED", "RECONCILIATION_REQUIRED"}
Terminal == {"CANCELLED", "FILLED", "REJECTED", "EXPIRED"}

Snapshot == [state : States, version : Nat, cumulative : Nat, cancelled : Nat]
NoOrder == [state |-> "NEW", version |-> 0, cumulative |-> 0, cancelled |-> 0]

\* _TRANSITIONS: <<state, input, next state>>.  The terminal states have none.
Table == {
    <<"PENDING_RISK", "RISK_APPROVAL", "APPROVED">>,
    <<"PENDING_RISK", "RISK_REJECTION", "REJECTED">>,
    <<"APPROVED", "COMMAND_OUTBOX", "PENDING_SUBMIT">>,
    <<"PENDING_SUBMIT", "SEND_SUCCESS", "SUBMITTED">>,
    <<"PENDING_SUBMIT", "SEND_UNKNOWN", "RECONCILIATION_REQUIRED">>,
    <<"SUBMITTED", "BROKER_ACCEPT", "ACCEPTED">>,
    <<"SUBMITTED", "BROKER_REJECT", "REJECTED">>,
    <<"ACCEPTED", "INCREMENTAL_FILL", "PARTIALLY_FILLED">>,
    <<"ACCEPTED", "CANCEL_REQUEST", "PENDING_CANCEL">>,
    <<"ACCEPTED", "EXPIRY", "EXPIRED">>,
    <<"ACCEPTED", "RECONCILIATION", "RECONCILIATION_REQUIRED">>,
    <<"PARTIALLY_FILLED", "INCREMENTAL_FILL", "PARTIALLY_FILLED">>,
    <<"PARTIALLY_FILLED", "CANCEL_REQUEST", "PENDING_CANCEL">>,
    <<"PARTIALLY_FILLED", "EXPIRY", "EXPIRED">>,
    <<"PARTIALLY_FILLED", "RECONCILIATION", "RECONCILIATION_REQUIRED">>,
    <<"PENDING_CANCEL", "INCREMENTAL_FILL", "FILLED">>,
    <<"PENDING_CANCEL", "CANCEL_CONFIRMED", "CANCELLED">>,
    <<"PENDING_CANCEL", "EXPIRY", "CANCELLED">>,
    <<"PENDING_CANCEL", "RECONCILIATION", "RECONCILIATION_REQUIRED">>,
    <<"RECONCILIATION_REQUIRED", "RECONCILIATION", "RECONCILIATION_REQUIRED">>}

\* The inputs that change the state and neither quantity.
PlainInputs == {"RISK_APPROVAL", "RISK_REJECTION", "COMMAND_OUTBOX", "SEND_SUCCESS",
                "SEND_UNKNOWN", "BROKER_ACCEPT", "BROKER_REJECT", "CANCEL_REQUEST",
                "RECONCILIATION"}

OrdersTypeOK == orders \in [Order -> Snapshot]

OrdersInit == orders = [o \in Order |-> NoOrder]

Exists(o) == orders[o].state # "NEW"
IsTerminal(o) == orders[o].state \in Terminal
Accepts(o, input) == \E target \in States : <<orders[o].state, input, target>> \in Table

\* _applyTransition(): the new snapshot is stored only if the state changes, and
\* FILLED sets the cumulative quantity to the order's.
Store(o, target, cumulative, cancelled) ==
    orders' = IF target = orders[o].state THEN orders
              ELSE [orders EXCEPT ![o] =
                      [state |-> target, version |-> @.version + 1,
                       cumulative |-> IF target = "FILLED" THEN Quantity[o] ELSE cumulative,
                       cancelled |-> cancelled]]

\* createIntent()
CreateIntent(o) ==
    /\ ~Exists(o)
    /\ orders' = [orders EXCEPT ![o] = [state |-> "PENDING_RISK", version |-> 1,
                                        cumulative |-> 0, cancelled |-> 0]]

InputForgetsFills(o, input) ==
    \E target \in States :
        /\ <<orders[o].state, input, target>> \in Table
        /\ Store(o, target, 0, orders[o].cancelled)

Input(o, input) ==
    \E target \in States :
        /\ <<orders[o].state, input, target>> \in Table
        /\ Store(o, target, orders[o].cumulative, orders[o].cancelled)

\* INCREMENTAL_FILL: for a terminal order only an audit.
CanFill(o, fill) ==
    \/ IsTerminal(o)
    \/ /\ Accepts(o, "INCREMENTAL_FILL")
       /\ fill > 0
       /\ orders[o].cumulative + fill <= Quantity[o]

Fill(o, fill) ==
    IF IsTerminal(o) THEN UNCHANGED orders
    ELSE \E target \in States :
            LET cumulative == orders[o].cumulative + fill IN
            /\ <<orders[o].state, "INCREMENTAL_FILL", target>> \in Table
            /\ Store(o, IF cumulative = Quantity[o] THEN "FILLED" ELSE target,
                     cumulative, orders[o].cancelled)

\* CANCEL_CONFIRMED: for a terminal order only an audit.
CanCancel(o) == IsTerminal(o) \/ Accepts(o, "CANCEL_CONFIRMED")

CancelAlways(o, cancelled) == Store(o, "CANCELLED", orders[o].cumulative, cancelled)

Cancel(o, cancelled) ==
    IF IsTerminal(o) THEN UNCHANGED orders
    ELSE Store(o, "CANCELLED", orders[o].cumulative, cancelled)

\* EXPIRY gives up what is not filled.
Expire(o) ==
    \E target \in States :
        /\ <<orders[o].state, "EXPIRY", target>> \in Table
        /\ Store(o, target, orders[o].cumulative, Quantity[o] - orders[o].cumulative)

\* LATE_FILL_VERIFIED: a verified late fill turns a terminal order into FILLED.
LateFill(o) ==
    /\ IsTerminal(o)
    /\ Store(o, "FILLED", orders[o].cumulative, orders[o].cancelled)

\* What the rest of the system asks of the machine.
OrdersNext ==
    \E o \in Order :
        \/ CreateIntent(o) \/ Expire(o) \/ LateFill(o)
        \/ \E input \in PlainInputs : Input(o, input)
=============================================================================
