----------------------- MODULE OrderStateMachine_proofs -----------------------
(***************************************************************************)
(* What each call of the order state machine does to an order, for the     *)
(* proofs about the components that share the machine.                     *)
(***************************************************************************)
EXTENDS OrderStateMachine, TLAPS

\* The machine's own invariant: quantities stay within the order, an order that
\* was not created has none and a partially filled one has some.
OrdersInv ==
    /\ OrdersTypeOK
    /\ \A o \in Order :
          /\ orders[o].cumulative <= Quantity[o]
          /\ orders[o].state = "NEW" => orders[o].cumulative = 0
          /\ orders[o].state = "PARTIALLY_FILLED" => orders[o].cumulative > 0

\* A terminal order changes to FILLED or not at all.
TerminalKept ==
    \A o \in Order : IsTerminal(o) =>
        \/ orders'[o] = orders[o]
        \/ orders[o].state # "FILLED" /\ orders'[o].state = "FILLED"

\* An order that is live afterwards was live and shows the same fills.
FillsKept ==
    \A o \in Order : orders'[o].state \notin Terminal =>
        ~IsTerminal(o) /\ orders'[o].cumulative = orders[o].cumulative

\* The table has no way out of a terminal state, none back to NEW, and only a
\* fill leads to PARTIALLY_FILLED.
LEMMA TableFacts ==
    ASSUME NEW s, NEW k, NEW t, <<s, k, t>> \in Table
    PROVE  /\ s \in States /\ t \in States
           /\ s \notin Terminal /\ s # "NEW" /\ t # "NEW"
           /\ t = "PARTIALLY_FILLED" => k = "INCREMENTAL_FILL"
           /\ k = "INCREMENTAL_FILL" =>
                 /\ s \in {"ACCEPTED", "PARTIALLY_FILLED", "PENDING_CANCEL"}
                 /\ t \in {"PARTIALLY_FILLED", "FILLED"}
  BY DEF Table, States, Terminal

\* A stored snapshot replaces the order's own and respects the invariant.
LEMMA StoreKeepsInv ==
    ASSUME OrdersInv, NEW o \in Order, NEW target \in States \ {"NEW"},
           NEW c \in Nat, NEW x \in Nat, c <= Quantity[o],
           target = "PARTIALLY_FILLED" => c > 0,
           Store(o, target, c, x)
    PROVE  /\ OrdersInv'
           /\ \A q \in Order \ {o} : orders'[q] = orders[q]
           /\ orders'[o].state = target
           /\ target # orders[o].state =>
                 orders'[o].cumulative = IF target = "FILLED" THEN Quantity[o] ELSE c
           /\ target = orders[o].state => orders' = orders
  <1>q. Quantity[o] \in Nat
    BY OrderConstants
  <1>1. CASE target = orders[o].state
    BY <1>1 DEF Store, OrdersInv, OrdersTypeOK
  <1>2. CASE target # orders[o].state
    <2> DEFINE new == [state |-> target, version |-> orders[o].version + 1,
                       cumulative |-> IF target = "FILLED" THEN Quantity[o] ELSE c,
                       cancelled |-> x]
    <2>1. orders' = [orders EXCEPT ![o] = new]
      BY <1>2 DEF Store, OrdersInv, OrdersTypeOK
    <2>2. new \in Snapshot
      BY <1>q DEF OrdersInv, OrdersTypeOK, Snapshot
    <2>3. orders'[o] = new /\ \A q \in Order \ {o} : orders'[q] = orders[q]
      BY <2>1 DEF OrdersInv, OrdersTypeOK
    <2>4. OrdersTypeOK'
      BY <2>1, <2>2 DEF OrdersInv, OrdersTypeOK
    <2> QED
      BY <1>2, <1>q, <2>2, <2>3, <2>4 DEF OrdersInv
  <1> QED
    BY <1>1, <1>2

\* The inputs that carry no fill leave the live orders' fills alone.
LEMMA InputKeeps ==
    ASSUME OrdersInv, NEW o \in Order, NEW input \in PlainInputs, Input(o, input)
    PROVE  OrdersInv' /\ TerminalKept /\ FillsKept
  <1>1. PICK target \in States :
            <<orders[o].state, input, target>> \in Table
            /\ Store(o, target, orders[o].cumulative, orders[o].cancelled)
    BY DEF Input
  <1>2. /\ orders[o].state \notin Terminal /\ target # "NEW"
        /\ target # "PARTIALLY_FILLED"
    BY <1>1, TableFacts DEF PlainInputs
  <1>3. orders[o].cumulative \in Nat /\ orders[o].cancelled \in Nat
        /\ orders[o].cumulative <= Quantity[o]
    BY DEF OrdersInv, OrdersTypeOK, Snapshot
  <1>4. /\ OrdersInv'
        /\ \A q \in Order \ {o} : orders'[q] = orders[q]
        /\ orders'[o].state = target
        /\ target # orders[o].state =>
              orders'[o].cumulative = IF target = "FILLED" THEN Quantity[o] ELSE orders[o].cumulative
        /\ target = orders[o].state => orders' = orders
    BY <1>1, <1>2, <1>3, StoreKeepsInv
  <1> QED
    BY <1>2, <1>4 DEF TerminalKept, FillsKept, IsTerminal, Terminal

\* EXPIRY does not touch the live orders' fills either.
LEMMA ExpireKeeps ==
    ASSUME OrdersInv, NEW o \in Order, Expire(o)
    PROVE  OrdersInv' /\ TerminalKept /\ FillsKept
  <1>1. PICK target \in States :
            <<orders[o].state, "EXPIRY", target>> \in Table
            /\ Store(o, target, orders[o].cumulative, Quantity[o] - orders[o].cumulative)
    BY DEF Expire
  <1>2. /\ orders[o].state \notin Terminal /\ target # "NEW"
        /\ target # "PARTIALLY_FILLED"
    BY <1>1, TableFacts
  <1>3. orders[o].cumulative \in Nat /\ Quantity[o] - orders[o].cumulative \in Nat
        /\ orders[o].cumulative <= Quantity[o]
    BY OrderConstants DEF OrdersInv, OrdersTypeOK, Snapshot
  <1>4. /\ OrdersInv'
        /\ \A q \in Order \ {o} : orders'[q] = orders[q]
        /\ orders'[o].state = target
        /\ target # orders[o].state =>
              orders'[o].cumulative = IF target = "FILLED" THEN Quantity[o] ELSE orders[o].cumulative
        /\ target = orders[o].state => orders' = orders
    BY <1>1, <1>2, <1>3, StoreKeepsInv
  <1> QED
    BY <1>2, <1>4 DEF TerminalKept, FillsKept, IsTerminal, Terminal

\* A verified late fill moves a terminal order to FILLED.
LEMMA LateFillKeeps ==
    ASSUME OrdersInv, NEW o \in Order, LateFill(o)
    PROVE  OrdersInv' /\ TerminalKept /\ FillsKept
  <1>1. orders[o].cumulative \in Nat /\ orders[o].cancelled \in Nat
        /\ orders[o].cumulative <= Quantity[o]
    BY DEF OrdersInv, OrdersTypeOK, Snapshot
  <1> DEFINE to == "FILLED"
  <1>s. to \in States \ {"NEW"} /\ to # "PARTIALLY_FILLED"
    BY DEF States
  <1>t. Store(o, to, orders[o].cumulative, orders[o].cancelled)
    BY DEF LateFill
  <1>u. to = "FILLED"
    OBVIOUS
  <1> HIDE DEF to
  <1>2. /\ OrdersInv'
        /\ \A q \in Order \ {o} : orders'[q] = orders[q]
        /\ orders'[o].state = to
        /\ to = orders[o].state => orders' = orders
    BY <1>1, <1>s, <1>t, StoreKeepsInv
  <1> QED
    BY <1>2, <1>u DEF TerminalKept, FillsKept, IsTerminal, Terminal, LateFill

\* A new order starts live and without fills.
LEMMA CreateKeeps ==
    ASSUME OrdersInv, NEW o \in Order, CreateIntent(o)
    PROVE  OrdersInv' /\ TerminalKept /\ FillsKept
  <1> DEFINE new == [state |-> "PENDING_RISK", version |-> 1, cumulative |-> 0, cancelled |-> 0]
  <1>1. orders' = [orders EXCEPT ![o] = new] /\ orders[o].state = "NEW"
    BY DEF CreateIntent, Exists
  <1>2. new \in Snapshot
    BY DEF Snapshot, States
  <1>3. new.state = "PENDING_RISK" /\ new.cumulative = 0
    OBVIOUS
  <1> HIDE DEF new
  <1>4. orders'[o] = new /\ \A q \in Order \ {o} : orders'[q] = orders[q]
    BY <1>1 DEF OrdersInv, OrdersTypeOK
  <1>5. OrdersTypeOK'
    BY <1>1, <1>2 DEF OrdersInv, OrdersTypeOK
  <1>6. Quantity[o] \in Nat
    BY OrderConstants
  <1>7. OrdersInv'
    BY <1>3, <1>4, <1>5, <1>6 DEF OrdersInv
  <1>8. TerminalKept
    BY <1>1, <1>4 DEF TerminalKept, IsTerminal, Terminal
  <1>9. FillsKept
    BY <1>1, <1>3, <1>4 DEF FillsKept, IsTerminal, Terminal, OrdersInv
  <1> QED
    BY <1>7, <1>8, <1>9

\* A confirmed cancellation ends the order or is only audited.
LEMMA CancelKeeps ==
    ASSUME OrdersInv, NEW o \in Order, NEW x \in Nat, Cancel(o, x)
    PROVE  OrdersInv' /\ TerminalKept /\ FillsKept
  <1>1. CASE IsTerminal(o)
    BY <1>1 DEF Cancel, OrdersInv, OrdersTypeOK, TerminalKept, FillsKept, IsTerminal
  <1>2. CASE ~IsTerminal(o)
    <2>1. orders[o].cumulative \in Nat /\ orders[o].cumulative <= Quantity[o]
      BY DEF OrdersInv, OrdersTypeOK, Snapshot
    <2>2. /\ OrdersInv'
          /\ \A q \in Order \ {o} : orders'[q] = orders[q]
          /\ orders'[o].state = "CANCELLED"
      BY <1>2, <2>1, StoreKeepsInv DEF Cancel, States
    <2> QED
      BY <1>2, <2>2 DEF TerminalKept, FillsKept, IsTerminal, Terminal
  <1> QED
    BY <1>1, <1>2

\* A fill touches its own order only; if that stays live it was live and shows
\* some fill, and no more than before and this one.
LEMMA FillKeeps ==
    ASSUME OrdersInv, NEW o \in Order, NEW f \in Nat \ {0}, CanFill(o, f), Fill(o, f)
    PROVE  /\ OrdersInv' /\ TerminalKept
           /\ \A q \in Order \ {o} : orders'[q] = orders[q]
           /\ IsTerminal(o) => orders' = orders
           /\ orders'[o].state \notin Terminal =>
                 /\ ~IsTerminal(o)
                 /\ orders'[o].cumulative > 0
                 /\ orders'[o].cumulative <= orders[o].cumulative + f
  <1>1. CASE IsTerminal(o)
    BY <1>1 DEF Fill, OrdersInv, OrdersTypeOK, TerminalKept, IsTerminal
  <1>2. CASE ~IsTerminal(o)
    <2> DEFINE c == orders[o].cumulative + f
    <2>1. PICK target \in States :
              /\ <<orders[o].state, "INCREMENTAL_FILL", target>> \in Table
              /\ Store(o, IF c = Quantity[o] THEN "FILLED" ELSE target, c, orders[o].cancelled)
      BY <1>2 DEF Fill
    <2> DEFINE to == IF c = Quantity[o] THEN "FILLED" ELSE target
    <2>2. target \in {"PARTIALLY_FILLED", "FILLED"}
      BY <2>1, TableFacts
    <2>3. /\ orders[o].cumulative \in Nat /\ orders[o].cancelled \in Nat
          /\ c \in Nat /\ c > 0 /\ c <= Quantity[o]
      BY <1>2 DEF OrdersInv, OrdersTypeOK, Snapshot, CanFill
    <2>4. to \in States \ {"NEW"}
      BY <2>2 DEF States
    <2>5. Store(o, to, c, orders[o].cancelled)
      BY <2>1
    <2> HIDE DEF to, c
    <2>6. /\ OrdersInv'
          /\ \A q \in Order \ {o} : orders'[q] = orders[q]
          /\ orders'[o].state = to
          /\ to # orders[o].state =>
                orders'[o].cumulative = IF to = "FILLED" THEN Quantity[o] ELSE c
          /\ to = orders[o].state => orders' = orders
      BY <2>3, <2>4, <2>5, StoreKeepsInv
    <2>7. TerminalKept
      BY <1>2, <2>6 DEF TerminalKept, IsTerminal
    <2>8. to \in {"PARTIALLY_FILLED", "FILLED"}
      BY <2>2 DEF to
    <2>9. ASSUME orders'[o].state \notin Terminal
          PROVE  orders'[o].cumulative > 0 /\ orders'[o].cumulative <= orders[o].cumulative + f
      <3>1. to = "PARTIALLY_FILLED"
        BY <2>6, <2>8, <2>9 DEF Terminal
      <3>2. CASE to = orders[o].state
        BY <3>1, <3>2, <2>3, <2>6 DEF OrdersInv
      <3>3. CASE to # orders[o].state
        BY <3>1, <3>3, <2>3, <2>6 DEF c
      <3> QED
        BY <3>2, <3>3
    <2> QED
      BY <1>2, <2>6, <2>7, <2>9
  <1> QED
    BY <1>1, <1>2

\* Whatever the rest of the system asks of the machine.
LEMMA OrdersStepKeeps ==
    ASSUME OrdersInv, OrdersNext
    PROVE  OrdersInv' /\ TerminalKept /\ FillsKept
  BY InputKeeps, ExpireKeeps, LateFillKeeps, CreateKeeps DEF OrdersNext
=============================================================================
