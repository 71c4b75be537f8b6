------------------------- MODULE AtomicCommit_proofs -------------------------
(***************************************************************************)
(* Proofs about AtomicCommit: although no commit is rolled back, an order  *)
(* passes risk only with a decision and a reservation, and a journal is    *)
(* posted only for an execution that reservation and order account for.    *)
(***************************************************************************)
EXTENDS AtomicCommit, OrderStateMachine_proofs, FunctionLemmas

\* The fields of a report.
LEMMA FillReport ==
    ASSUME NEW r \in Report
    PROVE  /\ r.order \in Order /\ r.execution \in Execution /\ r.id \in Id
           /\ r.last \in Nat \ {0} /\ r.amount \in Nat \ {0}
           /\ <<r.order, r.execution>> \in Order \X Execution
  BY CommitConstants

\* Only a risk decision takes an order out of PENDING_RISK, only a rejection
\* ends it there, and an approval leaves it live.
LEMMA RiskTable ==
    ASSUME NEW s, NEW k, NEW t, <<s, k, t>> \in Table
    PROVE  /\ s = "PENDING_RISK" => k \in {"RISK_APPROVAL", "RISK_REJECTION"}
           /\ k \in {"RISK_APPROVAL", "RISK_REJECTION"} => s = "PENDING_RISK"
           /\ k = "RISK_REJECTION" => t = "REJECTED"
           /\ k = "RISK_APPROVAL" => t = "APPROVED"
  BY DEF Table

\* An order that a call other than a risk decision leaves past the decision was
\* past it before.
LEMMA MovesAfterDecision ==
    ASSUME OrdersInv, NEW o \in Order,
           \/ CreateIntent(o) \/ Expire(o) \/ LateFill(o)
           \/ \E input \in OtherInputs : Input(o, input)
    PROVE  \A q \in Order : orders'[q].state \notin Undecided =>
                                orders[q].state \notin Undecided
  <1>1. CASE CreateIntent(o)
    BY <1>1 DEF CreateIntent, OrdersInv, OrdersTypeOK, Undecided
  <1>2. CASE LateFill(o)
    BY <1>2 DEF LateFill, Store, IsTerminal, Terminal, Undecided, OrdersInv, OrdersTypeOK
  <1>3. ASSUME NEW k \in OtherInputs \cup {"EXPIRY"}, NEW target, NEW c, NEW x,
               <<orders[o].state, k, target>> \in Table, Store(o, target, c, x)
        PROVE  \A q \in Order : orders'[q].state \notin Undecided =>
                                    orders[q].state \notin Undecided
    <2>1. orders[o].state \notin Undecided
      BY <1>3, TableFacts, RiskTable DEF OtherInputs, PlainInputs, Undecided
    <2> QED
      BY <1>3, <2>1 DEF Store, OrdersInv, OrdersTypeOK
  <1>4. CASE Expire(o)
    BY <1>4, <1>3 DEF Expire
  <1>5. CASE \E input \in OtherInputs : Input(o, input)
    BY <1>5, <1>3 DEF Input
  <1> QED
    BY <1>1, <1>2, <1>4, <1>5

-----------------------------------------------------------------------------
(* The invariant.                                                          *)

IInv == TypeOK /\ OrdersInv /\ DecidedAndReserved /\ JournalBacked

\* It holds of the empty stores.
LEMMA CommitInit == Init => IInv
  <1> SUFFICES ASSUME Init PROVE IInv
    OBVIOUS
  <1>1. NoOrder \in Snapshot
    BY DEF NoOrder, Snapshot, States
  <1>2. OrdersInv
    BY <1>1, OrderConstants DEF Init, OrdersInit, OrdersInv, OrdersTypeOK, NoOrder
  <1>3. TypeOK
    BY <1>2, CommitConstants DEF Init, TypeOK, OrdersInv
  <1>4. DecidedAndReserved
    BY DEF Init, OrdersInit, DecidedAndReserved, NoOrder, Undecided
  <1>5. JournalBacked
    BY DEF Init, JournalBacked
  <1> QED
    BY <1>2, <1>3, <1>4, <1>5 DEF IInv

\* The machine's own calls.
LEMMA MachineInv == ASSUME IInv, MachineStep PROVE IInv'
  <1>1. PICK o \in Order :
            \/ CreateIntent(o) \/ Expire(o) \/ LateFill(o)
            \/ \E input \in OtherInputs : Input(o, input)
    BY DEF MachineStep
  <1>2. OrdersInv' /\ TerminalKept /\ FillsKept
    BY <1>1, CreateKeeps, ExpireKeeps, LateFillKeeps, InputKeeps DEF IInv, OtherInputs
  <1>3. \A q \in Order : orders'[q].state \notin Undecided => orders[q].state \notin Undecided
    BY <1>1, MovesAfterDecision DEF IInv
  <1>4. UNCHANGED <<reservations, consumption, journals, cash, facts>> /\ failed' = FALSE
    BY DEF MachineStep
  <1>5. TypeOK'
    BY <1>2, <1>4 DEF IInv, TypeOK, OrdersInv
  <1>6. DecidedAndReserved'
    <2> SUFFICES ASSUME NEW q \in Order, orders'[q].state \notin Undecided
                 PROVE  q \in facts' /\ (~IsTerminal(q)' => Reserved(q)')
      BY DEF DecidedAndReserved
    <2>1. q \in facts /\ (~IsTerminal(q) => Reserved(q))
      BY <1>3 DEF IInv, DecidedAndReserved
    <2> QED
      BY <1>2, <1>4, <2>1 DEF FillsKept, IsTerminal, Reserved
  <1>7. JournalBacked'
    <2> SUFFICES ASSUME NEW j \in journals
                 PROVE  /\ consumption[<<j.order, j.execution>>] = j.last
                        /\ IsTerminal(j.order)' \/ orders'[j.order].cumulative > 0
                        /\ j \in facts
      BY <1>4 DEF JournalBacked
    <2>1. j.order \in Order
      BY FillReport DEF IInv, TypeOK
    <2> QED
      BY <1>2, <2>1 DEF IInv, JournalBacked, FillsKept, IsTerminal
  <1> QED
    BY <1>2, <1>5, <1>6, <1>7 DEF IInv

\* A rejection ends the order, with its fact.
LEMMA RejectionInv == ASSUME IInv, NEW o \in Order, CommitRejection(o) PROVE IInv'
  <1>1. Input(o, "RISK_REJECTION") /\ facts' = facts \cup {o} /\ failed' = FALSE
        /\ UNCHANGED <<reservations, consumption, journals, cash>>
    BY DEF CommitRejection
  <1>2. OrdersInv' /\ TerminalKept /\ FillsKept
    BY <1>1, InputKeeps DEF IInv, PlainInputs
  <1>3. \A q \in Order \ {o} : orders'[q] = orders[q]
    BY <1>1 DEF Input, Store, IInv, OrdersInv, OrdersTypeOK
  <1>4. orders'[o].state = "REJECTED"
    <2>1. PICK target \in States :
              /\ <<orders[o].state, "RISK_REJECTION", target>> \in Table
              /\ Store(o, target, orders[o].cumulative, orders[o].cancelled)
      BY <1>1 DEF Input
    <2>2. target = "REJECTED" /\ orders[o].state = "PENDING_RISK"
      BY <2>1, RiskTable
    <2> QED
      BY <2>1, <2>2 DEF Store, IInv, OrdersInv, OrdersTypeOK
  <1>5. TypeOK'
    BY <1>1, <1>2 DEF IInv, TypeOK, OrdersInv
  <1>6. DecidedAndReserved'
    BY <1>1, <1>3, <1>4 DEF IInv, DecidedAndReserved, IsTerminal, Terminal, Reserved
  <1>7. JournalBacked'
    <2> SUFFICES ASSUME NEW j \in journals
                 PROVE  /\ consumption[<<j.order, j.execution>>] = j.last
                        /\ IsTerminal(j.order)' \/ orders'[j.order].cumulative > 0
                        /\ j \in facts'
      BY <1>1 DEF JournalBacked
    <2>1. j.order \in Order
      BY FillReport DEF IInv, TypeOK
    <2> QED
      BY <1>1, <1>2, <2>1 DEF IInv, JournalBacked, FillsKept, IsTerminal
  <1> QED
    BY <1>2, <1>5, <1>6, <1>7 DEF IInv


\* An approval reserves first; the order follows or stays where it was.
LEMMA ApprovalInv ==
    ASSUME IInv, NEW o \in Order, NEW approved \in Approved, NEW available,
           CommitApproval(o, approved, available)
    PROVE  IInv'
  <1> DEFINE new == [reserved |-> approved, consumed |-> 0]
  <1>1. /\ ~Reserved(o)
        /\ reservations' = [reservations EXCEPT ![o] = new]
        /\ UNCHANGED <<consumption, journals, cash>>
    BY DEF CommitApproval, CanReserve, Reserve
  <1>2. new \in [reserved : Nat, consumed : Nat] /\ new.reserved # 0
    BY CommitConstants
  <1> HIDE DEF new
  <1>3. \A q \in Order : Reserved(q) \/ q = o => Reserved(q)'
    BY <1>1, <1>2 DEF Reserved, IInv, TypeOK
  <1>4. reservations' \in [Order -> [reserved : Nat, consumed : Nat]]
    BY <1>1, <1>2 DEF IInv, TypeOK
  <1>5. CASE Input(o, "RISK_APPROVAL") /\ facts' = facts \cup {o} /\ failed' = FALSE
    <2>1. OrdersInv' /\ TerminalKept /\ FillsKept
      BY <1>5, InputKeeps DEF IInv, PlainInputs
    <2>2. \A q \in Order \ {o} : orders'[q] = orders[q]
      BY <1>5 DEF Input, Store, IInv, OrdersInv, OrdersTypeOK
    <2>3. TypeOK'
      BY <1>1, <1>4, <1>5, <2>1 DEF IInv, TypeOK, OrdersInv
    <2>4. DecidedAndReserved'
      BY <1>3, <1>5, <2>2 DEF IInv, DecidedAndReserved, IsTerminal
    <2>5. JournalBacked'
      <3> SUFFICES ASSUME NEW j \in journals
                   PROVE  /\ consumption[<<j.order, j.execution>>] = j.last
                          /\ IsTerminal(j.order)' \/ orders'[j.order].cumulative > 0
                          /\ j \in facts'
        BY <1>1 DEF JournalBacked
      <3>1. j.order \in Order
        BY FillReport DEF IInv, TypeOK
      <3> QED
        BY <1>5, <2>1, <3>1 DEF IInv, JournalBacked, FillsKept, IsTerminal
    <2> QED
      BY <2>1, <2>3, <2>4, <2>5 DEF IInv
  <1>6. CASE failed' = TRUE /\ UNCHANGED <<orders, facts>>
    <2>1. OrdersInv' /\ TypeOK'
      BY <1>1, <1>4, <1>6 DEF IInv, TypeOK, OrdersInv, OrdersTypeOK
    <2>2. DecidedAndReserved'
      BY <1>3, <1>6 DEF IInv, DecidedAndReserved, IsTerminal
    <2>3. JournalBacked'
      BY <1>1, <1>6 DEF IInv, JournalBacked, IsTerminal
    <2> QED
      BY <2>1, <2>2, <2>3 DEF IInv
  <1> QED
    BY <1>5, <1>6 DEF CommitApproval

\* A fill consumes what its execution has not consumed yet: no reservation is
\* opened or closed and no other execution's consumption changes.
LEMMA ConsumeKeeps ==
    ASSUME TypeOK, NEW r \in Report, CanConsume(r), Consume(r)
    PROVE  /\ reservations' \in [Order -> [reserved : Nat, consumed : Nat]]
           /\ consumption' \in [Order \X Execution -> Nat]
           /\ \A q \in Order : Reserved(q)' = Reserved(q)
           /\ consumption'[<<r.order, r.execution>>] = r.last
           /\ \A x \in Order \X Execution : consumption[x] # 0 => consumption'[x] = consumption[x]
  <1>1. CASE KnownFill(r)
    BY <1>1 DEF Consume, KnownFill, TypeOK, Reserved
  <1>2. CASE ~KnownFill(r)
    <2>1. /\ reservations' = [reservations EXCEPT ![r.order].consumed = @ + r.last]
          /\ consumption' = [consumption EXCEPT ![<<r.order, r.execution>>] = r.last]
          /\ consumption[<<r.order, r.execution>>] = 0
      BY <1>2 DEF Consume, CanConsume, NewFill
    <2>2. r.order \in Order /\ r.last \in Nat /\ <<r.order, r.execution>> \in Order \X Execution
      BY FillReport
    <2>3. /\ consumption' \in [Order \X Execution -> Nat]
          /\ consumption'[<<r.order, r.execution>>] = r.last
          /\ \A x \in Order \X Execution : consumption[x] # 0 => consumption'[x] = consumption[x]
      <3> DEFINE D == Order \X Execution
                 at == <<r.order, r.execution>>
      <3>1. /\ consumption \in [D -> Nat] /\ at \in D
            /\ consumption' = [consumption EXCEPT ![at] = r.last] /\ consumption[at] = 0
        BY <2>1, <2>2 DEF TypeOK
      <3> HIDE DEF D, at
      <3>2. /\ consumption' \in [D -> Nat] /\ consumption'[at] = r.last
            /\ \A x \in D : consumption[x] # 0 => consumption'[x] = consumption[x]
        BY <2>2, <3>1
      <3> QED
        BY <3>2 DEF D, at
    <2>4. /\ reservations' \in [Order -> [reserved : Nat, consumed : Nat]]
          /\ \A q \in Order : Reserved(q)' = Reserved(q)
      BY <2>1, <2>2 DEF TypeOK, Reserved
    <2> QED
      BY <2>3, <2>4
  <1> QED
    BY <1>1, <1>2

\* A report moves its order, consumes and posts as far as the writes get.
LEMMA ReportInv == ASSUME IInv, NEW r \in Report, CommitReport(r) PROVE IInv'
  <1>1. /\ r.order \in Order /\ r.last \in Nat \ {0} /\ r.amount \in Nat
        /\ <<r.order, r.execution>> \in Order \X Execution
    BY FillReport
  <1>2. /\ OrdersInv'
        /\ \A q \in Order \ {r.order} : orders'[q] = orders[q]
        /\ orders'[r.order].state \notin Terminal =>
              ~IsTerminal(r.order) /\ orders'[r.order].cumulative > 0
    BY <1>1, FillKeeps DEF CommitReport, IInv
  <1>3. orders[r.order].state \notin Undecided
    BY TableFacts DEF CommitReport, CanFill, Accepts, IsTerminal, Terminal, Undecided
  <1>4. /\ reservations' \in [Order -> [reserved : Nat, consumed : Nat]]
        /\ consumption' \in [Order \X Execution -> Nat]
        /\ \A q \in Order : Reserved(q)' = Reserved(q)
        /\ CanConsume(r) => consumption'[<<r.order, r.execution>>] = r.last
        /\ \A x \in Order \X Execution : consumption[x] # 0 => consumption'[x] = consumption[x]
    <2>1. CASE CanConsume(r)
      BY <2>1, ConsumeKeeps DEF CommitReport, IInv
    <2>2. CASE ~CanConsume(r)
      BY <2>2 DEF CommitReport, IInv, TypeOK, Reserved
    <2> QED
      BY <2>1, <2>2
  <1>5. /\ facts \subseteq facts' /\ facts' \subseteq facts \cup {r}
        /\ failed' \in BOOLEAN
        /\ \/ UNCHANGED <<journals, cash>>
           \/ /\ CanConsume(r) /\ r \in facts'
              /\ journals' = journals \cup {r} /\ cash' = cash - r.amount
    BY DEF CommitReport, Post
  <1>6. TypeOK'
    <2>1. cash' \in Nat /\ journals' \in SUBSET Report
      BY <1>1, <1>5 DEF IInv, TypeOK, CommitReport, CanPay
    <2> QED
      BY <1>2, <1>4, <1>5, <2>1 DEF IInv, TypeOK, OrdersInv
  <1>7. DecidedAndReserved'
    <2> SUFFICES ASSUME NEW q \in Order, orders'[q].state \notin Undecided
                 PROVE  q \in facts' /\ (~IsTerminal(q)' => Reserved(q)')
      BY DEF DecidedAndReserved
    <2>1. orders[q].state \notin Undecided /\ (~IsTerminal(q)' => ~IsTerminal(q))
      BY <1>2, <1>3 DEF IsTerminal
    <2> QED
      BY <1>4, <1>5, <2>1 DEF IInv, DecidedAndReserved
  <1>8. JournalBacked'
    <2> SUFFICES ASSUME NEW j \in journals'
                 PROVE  /\ consumption'[<<j.order, j.execution>>] = j.last
                        /\ IsTerminal(j.order)' \/ orders'[j.order].cumulative > 0
                        /\ j \in facts'
      BY DEF JournalBacked
    <2>1. CASE j \in journals
      <3>1. /\ j.order \in Order /\ j.last # 0
            /\ <<j.order, j.execution>> \in Order \X Execution
        BY <2>1, FillReport DEF IInv, TypeOK
      <3>2. /\ consumption[<<j.order, j.execution>>] = j.last
            /\ IsTerminal(j.order) \/ orders[j.order].cumulative > 0
            /\ j \in facts
        BY <2>1 DEF IInv, JournalBacked
      <3>3. IsTerminal(j.order)' \/ orders'[j.order].cumulative > 0
        BY <1>2, <3>1, <3>2 DEF IsTerminal
      <3> QED
        BY <1>4, <1>5, <3>1, <3>2, <3>3
    <2>2. CASE j \notin journals
      <3>1. j = r /\ CanConsume(r) /\ r \in facts'
        BY <1>5, <2>2
      <3> QED
        BY <1>2, <1>4, <3>1 DEF IsTerminal
    <2> QED
      BY <2>1, <2>2
  <1> QED
    BY <1>2, <1>6, <1>7, <1>8 DEF IInv

\* Every step keeps the invariant.
LEMMA CommitStep == IInv /\ [Next]_vars => IInv'
  <1> SUFFICES ASSUME IInv, [Next]_vars PROVE IInv'
    OBVIOUS
  <1>1. CASE MachineStep
    BY <1>1, MachineInv
  <1>2. CASE \E o \in Order : CommitRejection(o)
    BY <1>2, RejectionInv
  <1>3. CASE \E o \in Order, approved \in Approved, available \in Available :
                CommitApproval(o, approved, available)
    BY <1>3, ApprovalInv
  <1>4. CASE \E r \in Report : CommitReport(r)
    BY <1>4, ReportInv
  <1>5. CASE UNCHANGED vars
    BY <1>5 DEF vars, stores, IInv, TypeOK, OrdersInv, OrdersTypeOK, DecidedAndReserved,
                JournalBacked, IsTerminal, Reserved
  <1> QED
    BY <1>1, <1>2, <1>3, <1>4, <1>5 DEF Next

\* The invariant holds in every reachable state.
LEMMA CommitCorrect == Spec => []IInv
  BY CommitInit, CommitStep, PTL DEF Spec

\* The stores keep their types through every half-finished commit; the cash never
\* becomes negative, because the journal is built before anything is written.
THEOREM CommitTypeCorrect == Spec => []TypeOK
  BY CommitCorrect, PTL DEF IInv

\* No order is past risk without a decision fact, no live one without a
\* reservation, though failed approvals leave reservations behind.
THEOREM NoneUndecidedOrUnreserved == Spec => []DecidedAndReserved
  BY CommitCorrect, PTL DEF IInv

\* Every journal has its consumption, its order's fill and its fact.
THEOREM JournalsAreBacked == Spec => []JournalBacked
  BY CommitCorrect, PTL DEF IInv

-----------------------------------------------------------------------------
(* What a reservation pays for.                                            *)

Executions(o) == {o} \X Execution
Took(o) == SumFunctionOnSet(consumption, Executions(o))

\* An order's executions are finitely many and consume natural amounts.
LEMMA ExecutionsFinite ==
    ASSUME TypeOK, NEW o \in Order
    PROVE  /\ IsFiniteSet(Executions(o)) /\ Executions(o) \subseteq Order \X Execution
           /\ NaturalOn(consumption, Executions(o))
  <1>1. IsFiniteSet(Executions(o))
    BY CommitConstants, FS_Singleton, FS_Product DEF Executions
  <1>2. Executions(o) \subseteq Order \X Execution
    BY DEF Executions
  <1>3. \A x \in Order \X Execution : consumption[x] \in Nat
    BY DEF TypeOK
  <1> QED
    BY <1>1, <1>2, <1>3 DEF NaturalOn

\* A fill that is new adds its quantity to both sides; one that is known to neither.
LEMMA ConsumeAddsOnce ==
    ASSUME TypeOK, TypeOK', ReservationKept, NEW r \in Report, CanConsume(r), Consume(r)
    PROVE  ReservationKept'
  <1> DEFINE o == r.order
             at == <<r.order, r.execution>>
  <1>1. /\ o \in Order /\ at \in Executions(o) /\ at \in Order \X Execution
        /\ r.last \in Nat
    BY FillReport DEF Executions
  <1>2. CASE KnownFill(r)
    BY <1>2 DEF Consume, ReservationKept
  <1>3. CASE ~KnownFill(r)
    <2>1. /\ reservations' = [reservations EXCEPT ![o].consumed = @ + r.last]
          /\ consumption' = [consumption EXCEPT ![at] = r.last]
          /\ consumption[at] = 0
          /\ r.last <= reservations[o].reserved - reservations[o].consumed
      BY <1>3 DEF Consume, CanConsume, NewFill, Remaining
    <2> HIDE DEF o, at
    <2>2. reservations \in [Order -> [reserved : Nat, consumed : Nat]]
      BY DEF TypeOK
    <2>3. \A q \in Order : /\ reservations'[q].reserved = reservations[q].reserved
                           /\ reservations'[q].consumed = reservations[q].consumed
                                + (IF q = o THEN r.last ELSE 0)
      BY <1>1, <2>1, <2>2
    <2>4. ASSUME NEW q \in Order, q # o
          PROVE  Took(q)' = Took(q)
      <3>1. \A x \in Executions(q) : consumption'[x] = consumption[x]
        BY <1>1, <2>1, <2>4 DEF TypeOK, Executions, o, at
      <3>2. SumFunctionOnSet(consumption', Executions(q)) = SumFunctionOnSet(consumption, Executions(q))
        BY <3>1, ExecutionsFinite, SumOfSameValues
      <3> QED
        BY <3>2 DEF Took, Executions
    <2>5. Took(o)' = Took(o) + r.last
      <3>1. IsFiniteSet(Executions(o)) /\ NaturalOn(consumption, Executions(o))
        BY <1>1, ExecutionsFinite
      <3>2. \A x \in Executions(o) \ {at} : consumption[x] = consumption'[x]
        BY <1>1, <2>1, ExecutionsFinite DEF TypeOK
      <3>3. consumption'[at] = r.last
        BY <1>1, <2>1 DEF TypeOK
      <3>4. NaturalOn(consumption', Executions(o))
        BY <1>1, <3>1, <3>2, <3>3 DEF NaturalOn
      <3>5. SumFunctionOnSet(consumption', Executions(o)) + consumption[at]
              = SumFunctionOnSet(consumption, Executions(o)) + consumption'[at]
        BY <1>1, <3>1, <3>2, <3>4, SumChanged
      <3>6. /\ SumFunctionOnSet(consumption', Executions(o)) \in Nat
            /\ SumFunctionOnSet(consumption, Executions(o)) \in Nat
        BY <3>1, <3>4, SumIsNatural
      <3>7. SumFunctionOnSet(consumption', Executions(o))
              = SumFunctionOnSet(consumption, Executions(o)) + r.last
        BY <1>1, <2>1, <3>3, <3>5, <3>6
      <3> QED
        BY <3>7 DEF Took, Executions
    <2>6. \A q \in Order : /\ reservations[q].consumed <= reservations[q].reserved
                           /\ reservations[q].consumed = Took(q)
      BY DEF ReservationKept, Took, Executions
    <2>7. ASSUME NEW q \in Order
          PROVE  /\ reservations'[q].consumed <= reservations'[q].reserved
                 /\ reservations'[q].consumed = Took(q)'
      <3>1. CASE q = o
        BY <1>1, <2>1, <2>2, <2>3, <2>5, <2>6, <3>1
      <3>2. CASE q # o
        BY <2>2, <2>3, <2>4, <2>6, <3>2
      <3> QED
        BY <3>1, <3>2
    <2> QED
      BY <2>7 DEF ReservationKept, Took, Executions
  <1> QED
    BY <1>2, <1>3

\* Every step keeps the reservations: a new one has paid for nothing.
LEMMA ReservationStep ==
    ASSUME IInv, IInv', ReservationKept, [Next]_vars
    PROVE  ReservationKept'
  <1>1. TypeOK /\ TypeOK'
    BY DEF IInv
  <1>2. ASSUME UNCHANGED <<reservations, consumption>>
        PROVE  ReservationKept'
    BY <1>2 DEF ReservationKept
  <1>3. ASSUME NEW o \in Order, NEW approved \in Approved, NEW available,
               CommitApproval(o, approved, available)
        PROVE  ReservationKept'
    <2> DEFINE new == [reserved |-> approved, consumed |-> 0]
    <2>1. /\ reservations[o].reserved = 0 /\ approved \in Nat
          /\ reservations' = [reservations EXCEPT ![o] = new]
          /\ consumption' = consumption
      BY <1>3, CommitConstants DEF CommitApproval, CanReserve, Reserve, Reserved
    <2>2. \A q \in Order : reservations'[q] = IF q = o THEN new ELSE reservations[q]
      BY <1>1, <2>1 DEF TypeOK
    <2>3. reservations[o].consumed = 0
      <3>1. reservations[o].consumed <= reservations[o].reserved
        BY DEF ReservationKept
      <3>2. reservations[o].consumed \in Nat
        BY <1>1 DEF TypeOK
      <3> QED
        BY <2>1, <3>1, <3>2
    <2> QED
      BY <2>1, <2>2, <2>3 DEF ReservationKept
  <1>4. ASSUME NEW r \in Report, CommitReport(r)
        PROVE  ReservationKept'
    BY <1>1, <1>2, <1>4, ConsumeAddsOnce DEF CommitReport
  <1> QED
    BY <1>2, <1>3, <1>4 DEF Next, MachineStep, CommitRejection, vars, stores

\* No reservation pays for more than was approved, and each pays for exactly what
\* its executions took, however often and with whatever failures they are reported.
THEOREM ReservationsAreKept == Spec => []ReservationKept
  <1>1. Init => ReservationKept
    <2> SUFFICES ASSUME Init, NEW o \in Order
                 PROVE  /\ reservations[o].consumed <= reservations[o].reserved
                        /\ reservations[o].consumed = SumFunctionOnSet(consumption, Executions(o))
      BY DEF ReservationKept, Executions
    <2>1. reservations[o].consumed = 0 /\ reservations[o].reserved = 0
      BY DEF Init
    <2>2. IsFiniteSet(Executions(o)) /\ \A x \in Executions(o) : consumption[x] = 0
      BY CommitInit, ExecutionsFinite DEF IInv, Init
    <2> QED
      BY <2>1, <2>2, SumOfZeros
  <1> QED
    BY <1>1, ReservationStep, CommitCorrect, PTL DEF Spec
=============================================================================
