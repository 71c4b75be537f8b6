------------------------------ MODULE Liquidity ------------------------------
(***************************************************************************)
(* SharedLiquidityPoolV1 and LiquidityAllocatorV1: the volume of a bar     *)
(* that may be traded is given to the orders of all accounts, one after    *)
(* the other by allocationKey().  Successive calls share the pool.         *)
(* Quantities are whole numbers of shares, which is the lot that caps are  *)
(* rounded to.                                                             *)
(***************************************************************************)
EXTENDS Naturals, FiniteSets, Functions

CONSTANTS
    Candidate,    \* the orders a call may be given
    OrderOf,      \* candidate -> its type, side, limit price, quantities and ranks
    PoolQuantity, \* floorToLot(bar volume * participation rate)
    BarOpen,
    RateUnit,     \* participation rates are n / RateUnit, and may exceed one
    MaxCalls      \* bound of the model: the calls of allocate() on the pool

LiquidityOrder ==
    [market : BOOLEAN, buy : BOOLEAN, price : Nat, \* a price of 0 is no limit price
     remaining : Nat, rate : Nat, group : Nat, account : Nat, key : Nat, id : Nat]

ASSUME LiquidityConstants ==
    /\ OrderOf \in [Candidate -> LiquidityOrder]
    /\ \A x, y \in Candidate : OrderOf[x].id = OrderOf[y].id => x = y
    /\ PoolQuantity \in Nat /\ RateUnit \in Nat \ {0}
    /\ BarOpen \in Nat /\ MaxCalls \in Nat
    /\ IsFiniteSet(Candidate)

VARIABLES
    consumed,  \* _consumed of the pool
    toServe,   \* the orders the running call has yet to serve
    plan,      \* the plan of the call: order -> its allocated quantity
    earlier,   \* history: the quantity that earlier calls allocated
    allocateCalls

liquidityVars == <<consumed, toServe, plan, earlier, allocateCalls>>

LiquidityTypeOK ==
    /\ consumed \in Nat
    /\ toServe \subseteq Candidate
    /\ DOMAIN plan \subseteq Candidate /\ \A x \in DOMAIN plan : plan[x] \in Nat
    /\ earlier \in Nat
    /\ allocateCalls \in Nat

LiquidityInit ==
    /\ consumed = 0
    /\ toServe = {}
    /\ plan = [x \in {} |-> 0]
    /\ earlier = 0
    /\ allocateCalls = 0

Remaining == PoolQuantity - consumed

\* allocationKey(): 0 for a market order, else the limit price; then the ranks of
\* the account group and of the account, the ordering key and the order id.
AllocationKey(x) ==
    LET o == OrderOf[x]
    IN <<IF o.market THEN 0 ELSE o.price, o.group, o.account, o.key, o.id>>

\* Tuples of numbers are compared at the first position where they differ.
KeyLess(s, t) ==
    \E i \in DOMAIN s : s[i] < t[i] /\ \A j \in 1..(i - 1) : s[j] = t[j]

FirstById(x) == \A y \in toServe : OrderOf[x].id <= OrderOf[y].id

ServedNext(x) ==
    \A y \in toServe : x = y \/ KeyLess(AllocationKey(x), AllocationKey(y))

\* The order's own participation cap, rounded down to a lot.
Cap(x) == (OrderOf[x].remaining * OrderOf[x].rate) \div RateUnit

Smaller(a, b) == IF a < b THEN a ELSE b

\* The most an order may get: an input's rate is not checked, so that the cap may
\* exceed what remains of it.
Asked(x) == Smaller(Cap(x), OrderOf[x].remaining)

\* A market order, or a limit order that the open price meets.
Fillable(x) ==
    LET o == OrderOf[x]
    IN \/ o.market
       \/ o.price # 0 /\ (IF o.buy THEN BarOpen <= o.price ELSE BarOpen >= o.price)

\* What order x is allocated: nothing when the pool is exhausted, its cap is below a
\* lot or its limit is not met.
Share(x) == IF Fillable(x) THEN Smaller(Asked(x), Remaining) ELSE 0

\* allocate() begins; orders without a remaining quantity are passed over.
Allocate(orders) ==
    /\ toServe = {}
    /\ allocateCalls < MaxCalls
    /\ toServe' = {x \in orders : OrderOf[x].remaining > 0}
    /\ earlier' = consumed
    /\ plan' = [x \in {} |-> 0]
    /\ allocateCalls' = allocateCalls + 1
    /\ UNCHANGED consumed

\* The next order of the loop; consume() accepts any quantity that remains.
Serve(x) ==
    /\ x \in toServe
    /\ ServedNext(x)
    /\ toServe' = toServe \ {x}
    /\ plan' = [y \in DOMAIN plan \cup {x} |-> IF y = x THEN Share(x) ELSE plan[y]]
    /\ consumed' = consumed + Share(x)
    /\ UNCHANGED <<earlier, allocateCalls>>

LiquidityNext ==
    \/ \E orders \in SUBSET Candidate : Allocate(orders)
    \/ \E x \in Candidate : Serve(x)

LiquiditySpec == LiquidityInit /\ [][LiquidityNext]_liquidityVars

-----------------------------------------------------------------------------
\* The orders of a bar share its volume and none jumps the queue of allocationKey(),
\* whose order is neither the better limit first nor the one the module's header names:
\* the plans add up to what the pool gave, at most its quantity; an order gets at most
\* its cap and what remains of it; and one that could be filled and got less found the
\* pool empty, so that every order with a greater key in the plan got nothing.
LiquidityShared ==
    /\ consumed = earlier + SumFunction(plan)
    /\ consumed <= PoolQuantity
    /\ \A x \in DOMAIN plan :
        /\ plan[x] <= Asked(x)
        /\ Fillable(x) /\ plan[x] < Asked(x) =>
            /\ Remaining = 0
            /\ \A y \in DOMAIN plan :
                KeyLess(AllocationKey(x), AllocationKey(y)) => plan[y] = 0
=============================================================================
