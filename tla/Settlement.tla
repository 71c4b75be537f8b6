----------------------------- MODULE Settlement -----------------------------
(***************************************************************************)
(* SecuritiesSettlementBookV1: what was bought may be sold once a          *)
(* settlement date after the trade date has passed (T+1).  Fills are       *)
(* booked late, settlement runs are repeated and come for earlier dates    *)
(* too, and splits scale what is held.                                     *)
(***************************************************************************)
EXTENDS Integers, FiniteSets, Functions

CONSTANTS
    Trade,    \* ids of buy fills
    Security,
    Split,    \* ids of corporate actions
    Ratio,    \* pairs <<n, d>>: each share becomes n / d shares
    Quantity, \* the quantities of fills
    MaxDate,  \* bound of the model: the dates of trades and settlements
    MaxBought \* bound of the model: no buy when so many parts have been bought

ASSUME SettlementConstants ==
    /\ Ratio \subseteq (Nat \ {0}) \X (Nat \ {0})
    /\ Quantity \subseteq Nat \ {0}
    /\ MaxDate \in Nat /\ MaxBought \in Nat
    /\ IsFiniteSet(Security)

TradeDate == 1..MaxDate

\* A split by n / d scales a quantity to a fraction, which Decimal keeps: positions
\* are counted in parts, parts[s] of them to a share, and lots in shares.
VARIABLES
    parts,
    settled, unsettled, \* _positions: security -> settledQuantity, unsettledQuantity
    pendingLots,        \* _pendingLots: the lots, at most one a trade id
    appliedActions,
    bought,     \* history: security -> trade date -> the parts bought
    sold,       \* history: security -> the parts sold
    settledTo,  \* history: the latest settlement date
    splitLate   \* history: the securities split while a lot of theirs was pending

settlementVars == <<parts, settled, unsettled, pendingLots, appliedActions, bought, sold,
                    settledTo, splitLate>>

Lot == [trade : Trade, security : Security, date : TradeDate, quantity : Quantity]

SettlementTypeOK ==
    /\ parts \in [Security -> Nat \ {0}]
    /\ settled \in [Security -> Int] /\ unsettled \in [Security -> Int]
    /\ pendingLots \in SUBSET Lot
    /\ appliedActions \in SUBSET Split
    /\ bought \in [Security -> [TradeDate -> Nat]]
    /\ sold \in [Security -> Nat]
    /\ settledTo \in Nat
    /\ splitLate \in SUBSET Security

SettlementInit ==
    /\ parts = [s \in Security |-> 1]
    /\ settled = [s \in Security |-> 0] /\ unsettled = settled
    /\ pendingLots = {} /\ appliedActions = {}
    /\ bought = [s \in Security |-> [d \in TradeDate |-> 0]]
    /\ sold = [s \in Security |-> 0]
    /\ settledTo = 0
    /\ splitLate = {}

QuantityOf(lots) == SumFunction([l \in lots |-> l.quantity])
LotsOf(s) == {l \in pendingLots : l.security = s}
Total(dates, s) == SumFunctionOnSet(bought[s], dates)
BoughtInAll == SumFunction([s \in Security |-> Total(TradeDate, s)])

\* An id is refused while its lot is pending; after its settlement it is accepted
\* again, as another purchase.
RecordBuy(t, s, d, quantity) ==
    /\ \A l \in pendingLots : l.trade # t
    /\ BoughtInAll < MaxBought
    /\ unsettled' = [unsettled EXCEPT ![s] = @ + quantity * parts[s]]
    /\ pendingLots' = pendingLots \cup {[trade |-> t, security |-> s, date |-> d, quantity |-> quantity]}
    /\ bought' = [bought EXCEPT ![s][d] = @ + quantity * parts[s]]
    /\ UNCHANGED <<parts, settled, appliedActions, sold, settledTo, splitLate>>

DueSameDay(d) == {l \in pendingLots : l.date <= d}

\* The lots a settlement takes: those traded strictly before its date.
Due(d) == {l \in pendingLots : l.date < d}

SettleThrough(d) ==
    LET Settling(s) == parts[s] * QuantityOf(Due(d) \cap LotsOf(s))
    IN /\ settled' = [s \in Security |-> settled[s] + Settling(s)]
       /\ unsettled' = [s \in Security |-> unsettled[s] - Settling(s)]
       /\ pendingLots' = pendingLots \ Due(d)
       /\ settledTo' = IF d > settledTo THEN d ELSE settledTo
       /\ UNCHANGED <<parts, appliedActions, bought, sold, splitLate>>

Sellable(s) == settled[s]

RecordSell(s, quantity) ==
    /\ quantity * parts[s] <= Sellable(s)
    /\ settled' = [settled EXCEPT ![s] = @ - quantity * parts[s]]
    /\ sold' = [sold EXCEPT ![s] = @ + quantity * parts[s]]
    /\ UNCHANGED <<parts, unsettled, pendingLots, appliedActions, bought, settledTo, splitLate>>

\* Both quantities of the position are scaled; the pending lots are not.
ApplySplit(a, s, r) ==
    /\ a \notin appliedActions
    /\ appliedActions' = appliedActions \cup {a}
    /\ parts' = [parts EXCEPT ![s] = r[2] * @]
    /\ settled' = [settled EXCEPT ![s] = r[1] * @]
    /\ unsettled' = [unsettled EXCEPT ![s] = r[1] * @]
    /\ bought' = [bought EXCEPT ![s] = [d \in TradeDate |-> r[1] * @[d]]]
    /\ sold' = [sold EXCEPT ![s] = r[1] * @]
    /\ splitLate' = IF LotsOf(s) = {} THEN splitLate ELSE splitLate \cup {s}
    /\ UNCHANGED <<pendingLots, settledTo>>

SettlementNext ==
    \/ \E s \in Security, quantity \in Quantity :
        \/ \E t \in Trade, d \in TradeDate : RecordBuy(t, s, d, quantity)
        \/ RecordSell(s, quantity)
    \/ \E s \in Security, a \in Split, r \in Ratio : ApplySplit(a, s, r)
    \/ \E d \in TradeDate : SettleThrough(d)

SettlementSpec == SettlementInit /\ [][SettlementNext]_settlementVars

-----------------------------------------------------------------------------
\* Nothing is lost or sold twice, and nothing is sold before a settlement date after
\* its purchase has passed: the position and what was sold add up to what was bought;
\* unless a security was split while lots of it were pending, its unsettled quantity
\* is that of its lots, and what may be sold or was sold was bought before the latest
\* settlement date, however late a fill was booked or a settlement repeated.
SettledBeforeSold == \A s \in Security :
    /\ settled[s] >= 0
    /\ settled[s] + unsettled[s] + sold[s] = Total(TradeDate, s)
    /\ s \notin splitLate =>
        /\ unsettled[s] = parts[s] * QuantityOf(LotsOf(s))
        /\ settled[s] + sold[s] <= Total({d \in TradeDate : d < settledTo}, s)

=============================================================================
