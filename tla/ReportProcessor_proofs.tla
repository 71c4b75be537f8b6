------------------------ MODULE ReportProcessor_proofs ------------------------
(***************************************************************************)
(* Proofs about ReportProcessor, for every set of reports the contract     *)
(* admits.  The books (quantities, executions) and the gap buffer are      *)
(* independent inductive invariants; both rest on the type invariant.      *)
(***************************************************************************)
EXTENDS ReportProcessor, OrderStateMachine_proofs

\* An execution that was applied has left its cumulative quantity behind, so the
\* increment check finds the next report of it short.
OnceInv ==
    DuplicatesAgree => \A e \in Execution :
        /\ times[e] <= 1
        /\ times[e] = 1 => \E r \in Report :
              IsFill(r) /\ r.execution = e /\ r.cum <= cumulative[r.order]

BooksInv == TypeOK /\ OrdersInv /\ FillsAccounted /\ MachineLags /\ OnceInv

\* The buffers hold their account's own reports, the chain goes on with the next
\* sequence, and what a snapshot may still take is on its list.
BuffersOwn == \A a \in Account : \A b \in pending[a] : b.account = a

ChainedNext == chained # NoReport => chained.seq = lastSequence[chained.account] + 1

DrainListed ==
    drain # NoDrain =>
        /\ \A s \in drain.left : s <= drain.verified
        /\ \A b \in pending[drain.account] : b.seq <= drain.verified => b.seq \in drain.left

GapInv == BufferedAhead /\ BuffersOwn /\ ChainedNext

-----------------------------------------------------------------------------
\* The contract of a report, field by field.
LEMMA ReportFacts ==
    ASSUME NEW r \in Report
    PROVE  /\ r # NoReport
           /\ r.id \in Id /\ r.order \in Order /\ r.account \in Account
           /\ r.seq \in Nat \ {0} /\ r.last \in Nat /\ r.cum \in Nat /\ r.remaining \in Nat
           /\ IsFill(r) => r.last > 0 /\ r.execution \in Execution
           /\ ~IsFill(r) => r.execution = NoExecution
  BY ReportConstants DEF ReportType

\* What applying a report does to the machine: only a fill changes what a live
\* order shows, and it shows no more than before and the fill.
LEMMA MoveKeeps ==
    ASSUME OrdersInv, NEW r \in Report, Exists(r.order), Legal(r), Move(r)
    PROVE  /\ OrdersInv' /\ TerminalKept
           /\ \A q \in Order : orders'[q].state \notin Terminal =>
                 /\ ~IsTerminal(q)
                 /\ IF IsFill(r) /\ q = r.order
                    THEN /\ orders'[q].cumulative > 0
                         /\ orders'[q].cumulative <= orders[q].cumulative + r.last
                    ELSE orders'[q].cumulative = orders[q].cumulative
  <1>r. /\ r.order \in Order /\ r.last \in Nat /\ r.remaining \in Nat
        /\ IsFill(r) => r.last \in Nat \ {0}
    BY ReportFacts
  <1>1. CASE IsFill(r) /\ Fill(r.order, r.last)
    <2>1. CanFill(r.order, r.last)
      BY <1>1 DEF Legal
    <2> QED
      BY <1>1, <1>r, <2>1, FillKeeps DEF IsTerminal
  <1>2. CASE r.type = "CANCELLED" /\ Cancel(r.order, r.remaining)
    <2>1. ~IsFill(r)
      BY <1>2 DEF IsFill
    <2>2. OrdersInv' /\ TerminalKept /\ FillsKept
      BY <1>2, <1>r, CancelKeeps
    <2> QED
      BY <2>1, <2>2 DEF FillsKept
  <1>3. CASE r.type = "REJECTED" /\ Input(r.order, "BROKER_REJECT")
    <2>1. ~IsFill(r)
      BY <1>3 DEF IsFill
    <2>2. OrdersInv' /\ TerminalKept /\ FillsKept
      BY <1>3, <1>r, InputKeeps DEF PlainInputs
    <2> QED
      BY <2>1, <2>2 DEF FillsKept
  <1>4. CASE ~Moves(r) /\ UNCHANGED orders
    BY <1>4 DEF Moves, OrdersInv, OrdersTypeOK, TerminalKept, IsTerminal
  <1> QED
    BY <1>1, <1>2, <1>3, <1>4 DEF Move

\* A report that is not isolated raises its order's cumulative quantity by at
\* least its increment and keeps it within the order.
LEMMA NotIsolated ==
    ASSUME TypeOK, NEW r \in Report, ~Isolated(r)
    PROVE  /\ Exists(r.order)
           /\ cumulative[r.order] + r.last <= r.cum
           /\ r.cum <= Quantity[r.order]
  <1>1. /\ r.order \in Order /\ r.last \in Nat /\ r.cum \in Nat
        /\ cumulative[r.order] \in Nat /\ Quantity[r.order] \in Nat
    BY ReportFacts, OrderConstants DEF TypeOK
  <1> QED
    BY <1>1 DEF Isolated, Quarantine

\* Register, field by field.
LEMMA RegisterKeeps ==
    ASSUME TypeOK, NEW r \in Report, Register(r)
    PROVE  /\ known' \in SUBSET Id /\ executions' \in SUBSET Execution
           /\ lastSequence' = [lastSequence EXCEPT ![r.account] = r.seq]
           /\ lastSequence' \in [Account -> Nat]
           /\ cumulative' \in [Order -> Nat] /\ cumulative'[r.order] = r.cum
           /\ \A o \in Order \ {r.order} : cumulative'[o] = cumulative[o]
           /\ filled' \in [Order -> Nat]
           /\ \A o \in Order : filled'[o] = IF IsFill(r) /\ o = r.order
                                            THEN filled[o] + r.last ELSE filled[o]
           /\ times' \in [Execution -> Nat]
           /\ \A e \in Execution : times'[e] = IF IsFill(r) /\ e = r.execution
                                               THEN times[e] + 1 ELSE times[e]
  <1>1. /\ r.id \in Id /\ r.order \in Order /\ r.account \in Account
        /\ r.seq \in Nat /\ r.last \in Nat /\ r.cum \in Nat
        /\ IsFill(r) => r.execution \in Execution
    BY ReportFacts
  <1>2. /\ known' \in SUBSET Id
        /\ lastSequence' = [lastSequence EXCEPT ![r.account] = r.seq]
        /\ cumulative' = [cumulative EXCEPT ![r.order] = r.cum]
    BY <1>1 DEF Register, TypeOK
  <1>3. CASE IsFill(r)
    <2>1. /\ executions' = executions \cup {r.execution}
          /\ filled' = [filled EXCEPT ![r.order] = filled[r.order] + r.last]
          /\ times' = [times EXCEPT ![r.execution] = times[r.execution] + 1]
      BY <1>3 DEF Register
    <2> QED
      BY <1>1, <1>2, <1>3, <2>1 DEF TypeOK
  <1>4. CASE ~IsFill(r)
    <2>1. UNCHANGED <<executions, filled, times>>
      BY <1>4 DEF Register
    <2> QED
      BY <1>1, <1>2, <1>4, <2>1 DEF TypeOK
  <1> QED
    BY <1>3, <1>4

-----------------------------------------------------------------------------
(* The books.                                                              *)

\* The gap variables stay typed through any outcome of _apply.
LEMMA ApplyTypes ==
    ASSUME TypeOK, NEW r \in Report, NEW buffered \in SUBSET Report,
           NEW left \in Drain \cup {NoDrain}, Apply(r, buffered, left)
    PROVE  /\ pending' \in [Account -> SUBSET Report]
           /\ gapPaused' \in SUBSET Account
           /\ chained' \in Report \cup {NoReport}
           /\ drain' \in Drain \cup {NoDrain}
           /\ unknown' \in SUBSET Id
  <1>1. r.account \in Account /\ r.id \in Id
    BY ReportFacts
  <1>2. Resume(r.account, buffered) \in SUBSET Account
    BY DEF Resume, TypeOK
  <1>3. CASE Applies(r, buffered, left)
    <2>1. /\ pending' \in [Account -> SUBSET Report]
          /\ gapPaused' \in SUBSET Account
          /\ chained' \in Report \cup {NoReport}
      BY <1>1, <1>2, <1>3 DEF Applies, GoOn, TypeOK
    <2> QED
      BY <1>3, <2>1 DEF Applies, TypeOK
  <1>4. CASE Isolates(r, buffered, left)
    BY <1>1, <1>2, <1>4 DEF Isolates, TypeOK
  <1>5. CASE Raises(r, buffered)
    BY <1>1, <1>5 DEF Raises, TypeOK
  <1> QED
    BY <1>3, <1>4, <1>5 DEF Apply

\* _apply keeps the books, whether it applies, isolates or raises.
LEMMA ApplyKeepsBooks ==
    ASSUME BooksInv, NEW r \in Report, NEW buffered \in SUBSET Report,
           NEW left \in Drain \cup {NoDrain}, Apply(r, buffered, left)
    PROVE  BooksInv' /\ TerminalKept
  <1>t. TypeOK
    BY DEF BooksInv
  <1>g. /\ pending' \in [Account -> SUBSET Report]
        /\ gapPaused' \in SUBSET Account
        /\ chained' \in Report \cup {NoReport}
        /\ drain' \in Drain \cup {NoDrain}
        /\ unknown' \in SUBSET Id
    BY <1>t, ApplyTypes
  <1>1. CASE Applies(r, buffered, left)
    <2>1. ~Isolated(r) /\ Legal(r) /\ Move(r) /\ Register(r)
      BY <1>1 DEF Applies
    <2>2. /\ Exists(r.order)
          /\ cumulative[r.order] + r.last <= r.cum
          /\ r.cum <= Quantity[r.order]
      BY <1>t, <2>1, NotIsolated
    <2>3. /\ OrdersInv' /\ TerminalKept
          /\ \A q \in Order : orders'[q].state \notin Terminal =>
                /\ ~IsTerminal(q)
                /\ IF IsFill(r) /\ q = r.order
                   THEN /\ orders'[q].cumulative > 0
                        /\ orders'[q].cumulative <= orders[q].cumulative + r.last
                   ELSE orders'[q].cumulative = orders[q].cumulative
      BY <2>1, <2>2, MoveKeeps DEF BooksInv
    <2>4. /\ known' \in SUBSET Id /\ executions' \in SUBSET Execution
          /\ lastSequence' \in [Account -> Nat]
          /\ cumulative' \in [Order -> Nat] /\ cumulative'[r.order] = r.cum
          /\ \A o \in Order \ {r.order} : cumulative'[o] = cumulative[o]
          /\ filled' \in [Order -> Nat]
          /\ \A o \in Order : filled'[o] = IF IsFill(r) /\ o = r.order
                                           THEN filled[o] + r.last ELSE filled[o]
          /\ times' \in [Execution -> Nat]
          /\ \A e \in Execution : times'[e] = IF IsFill(r) /\ e = r.execution
                                              THEN times[e] + 1 ELSE times[e]
      BY <1>t, <2>1, RegisterKeeps
    <2>5. /\ r.order \in Order /\ r.last \in Nat /\ r.cum \in Nat
          /\ IsFill(r) => r.last > 0 /\ r.execution \in Execution
      BY ReportFacts
    <2>6. /\ cumulative \in [Order -> Nat] /\ filled \in [Order -> Nat]
          /\ times \in [Execution -> Nat] /\ Quantity \in [Order -> Nat]
          /\ \A o \in Order : orders[o].cumulative \in Nat /\ orders'[o].cumulative \in Nat
      BY <1>t, <2>3, OrderConstants DEF TypeOK, OrdersInv, OrdersTypeOK, Snapshot
    <2>7. TypeOK'
      BY <1>g, <2>3, <2>4 DEF TypeOK, OrdersInv
    <2>8. FillsAccounted'
      <3> SUFFICES ASSUME NEW o \in Order
                   PROVE  filled'[o] <= cumulative'[o] /\ cumulative'[o] <= Quantity[o]
        BY DEF FillsAccounted
      <3>1. filled[o] <= cumulative[o] /\ cumulative[o] <= Quantity[o]
        BY DEF BooksInv, FillsAccounted
      <3> QED
        BY <2>2, <2>4, <2>5, <2>6, <3>1
    <2>9. MachineLags'
      <3> SUFFICES ASSUME NEW o \in Order, orders'[o].state \notin Terminal
                   PROVE  /\ orders'[o].cumulative <= filled'[o]
                          /\ orders'[o].cumulative = 0 => filled'[o] = 0
        BY DEF MachineLags, IsTerminal
      <3>1. /\ orders[o].cumulative <= filled[o]
            /\ orders[o].cumulative = 0 => filled[o] = 0
        BY <2>3 DEF BooksInv, MachineLags
      <3> QED
        BY <2>3, <2>4, <2>5, <2>6, <3>1
    <2>10. OnceInv'
      <3> SUFFICES ASSUME DuplicatesAgree, NEW e \in Execution
                   PROVE  /\ times'[e] <= 1
                          /\ times'[e] = 1 => \E s \in Report :
                                IsFill(s) /\ s.execution = e /\ s.cum <= cumulative'[s.order]
        BY DEF OnceInv, DuplicatesAgree, IsFill
      <3>1. /\ times[e] <= 1
            /\ times[e] = 1 => \E s \in Report :
                  IsFill(s) /\ s.execution = e /\ s.cum <= cumulative[s.order]
        BY DEF BooksInv, OnceInv
      <3>2. \A o \in Order : cumulative[o] <= cumulative'[o]
        BY <2>2, <2>4, <2>5, <2>6
      <3>3. CASE IsFill(r) /\ e = r.execution
        <4>1. times[e] # 1
          <5> SUFFICES ASSUME times[e] = 1 PROVE FALSE
            OBVIOUS
          <5>1. PICK s \in Report :
                    IsFill(s) /\ s.execution = e /\ s.cum <= cumulative[s.order]
            BY <3>1
          <5>2. r.order = s.order /\ r.cum = s.cum
            BY <3>3, <5>1 DEF DuplicatesAgree
          <5> QED
            BY <2>2, <2>5, <2>6, <3>3, <5>1, <5>2
        <4>2. times'[e] = 1
          <5>1. times[e] \in Nat /\ times'[e] = times[e] + 1
            BY <2>4, <2>6, <3>3
          <5> QED
            BY <3>1, <4>1, <5>1
        <4> QED
          BY <2>4, <2>5, <3>3, <4>2
      <3>4. CASE ~(IsFill(r) /\ e = r.execution)
        <4>1. times'[e] = times[e]
          BY <2>4, <3>4
        <4>2. ASSUME times[e] = 1
              PROVE  \E s \in Report :
                        IsFill(s) /\ s.execution = e /\ s.cum <= cumulative'[s.order]
          <5>1. PICK s \in Report :
                    IsFill(s) /\ s.execution = e /\ s.cum <= cumulative[s.order]
            BY <3>1, <4>2
          <5>2. s.order \in Order /\ s.cum \in Nat
            BY ReportFacts
          <5>3. s.cum <= cumulative'[s.order]
            BY <2>4, <2>6, <3>2, <5>1, <5>2
          <5> QED
            BY <5>1, <5>3
        <4> QED
          BY <3>1, <4>1, <4>2
      <3> QED
        BY <3>3, <3>4
    <2> QED
      BY <2>3, <2>7, <2>8, <2>9, <2>10 DEF BooksInv
  <1>2. ASSUME UNCHANGED <<orders, bookVars>>
        PROVE  BooksInv' /\ TerminalKept
    BY <1>t, <1>g, <1>2 DEF BooksInv, bookVars, TypeOK, OrdersInv, OrdersTypeOK, FillsAccounted,
       MachineLags, IsTerminal, OnceInv, DuplicatesAgree, IsFill, TerminalKept
  <1>3. CASE Isolates(r, buffered, left)
    BY <1>2, <1>3 DEF Isolates
  <1>4. CASE Raises(r, buffered)
    BY <1>2, <1>4 DEF Raises
  <1> QED
    BY <1>1, <1>3, <1>4 DEF Apply

\* Every step keeps the books.
LEMMA BooksStep ==
    ASSUME BooksInv, [Next]_vars
    PROVE  BooksInv' /\ TerminalKept
  <1>t. TypeOK
    BY DEF BooksInv
  <1>n. NoDrain \in Drain \cup {NoDrain}
    OBVIOUS
  <1>u. ASSUME UNCHANGED <<orders, bookVars>>,
               pending' \in [Account -> SUBSET Report], gapPaused' \in SUBSET Account,
               chained' \in Report \cup {NoReport}, drain' \in Drain \cup {NoDrain},
               unknown' \in SUBSET Id
        PROVE  BooksInv' /\ TerminalKept
    BY <1>t, <1>u DEF BooksInv, bookVars, TypeOK, OrdersInv, OrdersTypeOK, FillsAccounted,
       MachineLags, IsTerminal, OnceInv, DuplicatesAgree, IsFill, TerminalKept
  <1>1. CASE Idle /\ OrdersNext /\ UNCHANGED <<bookVars, gapVars, unknown>>
    <2>1. OrdersInv' /\ TerminalKept /\ FillsKept
      BY <1>1, OrdersStepKeeps DEF BooksInv
    <2>2. TypeOK'
      BY <1>t, <1>1, <2>1 DEF TypeOK, OrdersInv, bookVars, gapVars
    <2>3. FillsAccounted' /\ OnceInv'
      BY <1>1 DEF BooksInv, FillsAccounted, OnceInv, DuplicatesAgree, IsFill, bookVars
    <2>4. MachineLags'
      <3>1. filled' = filled
        BY <1>1 DEF bookVars
      <3> QED
        BY <2>1, <3>1 DEF BooksInv, MachineLags, FillsKept, IsTerminal
    <2> QED
      BY <2>1, <2>2, <2>3, <2>4 DEF BooksInv
  <1>2. ASSUME NEW r \in Report, Buffer(r)
        PROVE  BooksInv' /\ TerminalKept
    <2>1. r.account \in Account
      BY ReportFacts
    <2>2. {b \in pending[r.account] : b.seq # r.seq} \cup {r} \in SUBSET Report
      BY <1>t, <2>1 DEF TypeOK
    <2>3. pending' \in [Account -> SUBSET Report] /\ gapPaused' \in SUBSET Account
      BY <1>t, <1>2, <2>1, <2>2 DEF Buffer, TypeOK
    <2> QED
      BY <1>t, <1>u, <1>2, <2>3 DEF Buffer, TypeOK
  <1>3. ASSUME NEW r \in Report, Process(r)
        PROVE  BooksInv' /\ TerminalKept
    <2>1. pending[r.account] \in SUBSET Report
      BY <1>t, ReportFacts DEF TypeOK
    <2> QED
      BY <1>n, <1>3, <2>1, ApplyKeepsBooks DEF Process
  <1>4. CASE Chain
    <2>1. chained \in Report /\ pending[chained.account] \in SUBSET Report
      BY <1>t, <1>4, ReportFacts DEF Chain, TypeOK
    <2>2. drain \in Drain \cup {NoDrain}
      BY <1>t DEF TypeOK
    <2> QED
      BY <1>4, <2>1, <2>2, ApplyKeepsBooks DEF Chain
  <1>5. ASSUME NEW a \in Account, NEW verified \in Verified, DrainBegin(a, verified)
        PROVE  BooksInv' /\ TerminalKept
    <2> DEFINE left == {s \in {b.seq : b \in pending[a]} : s <= verified}
    <2>1. \A b \in pending[a] : b.seq \in Nat
      BY <1>t, ReportFacts DEF TypeOK
    <2>2. left \in SUBSET Nat
      BY <2>1
    <2>3. verified \in Nat
      BY <1>5, ReportFacts DEF Verified
    <2>4. drain' = [account |-> a, verified |-> verified, left |-> left]
      BY <1>5 DEF DrainBegin
    <2> HIDE DEF left
    <2>5. drain' \in Drain
      BY <2>2, <2>3, <2>4 DEF Drain
    <2> QED
      BY <1>t, <1>u, <1>5, <2>5 DEF DrainBegin, TypeOK
  <1>6. CASE DrainTake
    <2>1. PICK s \in drain.left :
            LET rest == [drain EXCEPT !.left = @ \ {s}] IN
            \/ \E b \in pending[drain.account] :
                  b.seq = s /\ Apply(b, pending[drain.account] \ {b}, rest)
            \/ /\ drain' = NoDrain
               /\ UNCHANGED <<orders, bookVars, pending, gapPaused, chained, unknown>>
      BY <1>6 DEF DrainTake
    <2>2. drain \in Drain
      BY <1>t, <2>1 DEF TypeOK, NoDrain
    <2>3. [drain EXCEPT !.left = @ \ {s}] \in Drain
      BY <2>2 DEF Drain
    <2>4. ASSUME NEW b \in pending[drain.account],
                 Apply(b, pending[drain.account] \ {b}, [drain EXCEPT !.left = @ \ {s}])
          PROVE  BooksInv' /\ TerminalKept
      <3>1. b \in Report /\ pending[drain.account] \in SUBSET Report
        BY <1>t, <2>2 DEF TypeOK, Drain
      <3> QED
        BY <2>3, <2>4, <3>1, ApplyKeepsBooks
    <2> QED
      BY <1>t, <1>u, <2>1, <2>4 DEF TypeOK
  <1>7. CASE DrainEnd
    <2>1. gapPaused' \in SUBSET Account
      BY <1>t, <1>7 DEF DrainEnd, Resume, TypeOK
    <2> QED
      BY <1>t, <1>u, <1>7, <2>1 DEF DrainEnd, TypeOK
  <1>8. CASE UNCHANGED vars
    BY <1>t, <1>u, <1>8 DEF vars, gapVars, bookVars, TypeOK
  <1> QED
    BY <1>1, <1>2, <1>3, <1>4, <1>5, <1>6, <1>7, <1>8 DEF Next

-----------------------------------------------------------------------------
(* The gap buffer.                                                         *)

\* Taking reports out of one account's buffer keeps it beyond the gap, as long
\* as the rest is beyond the sequence applied last.
LEMMA BufferShrinks ==
    ASSUME TypeOK, BufferedAhead, BuffersOwn, NEW x \in Account,
           NEW rest \in SUBSET pending[x],
           pending' = [pending EXCEPT ![x] = rest],
           NEW n \in Nat, lastSequence' = [lastSequence EXCEPT ![x] = n],
           \A b \in rest : b.seq > n + 1,
           gapPaused' = gapPaused \/ gapPaused' = Resume(x, rest)
    PROVE  BufferedAhead' /\ BuffersOwn' /\ \A a \in Account : pending'[a] \subseteq pending[a]
  <1>1. /\ pending'[x] = rest
        /\ \A a \in Account \ {x} : pending'[a] = pending[a]
        /\ lastSequence'[x] = n
        /\ \A a \in Account \ {x} : lastSequence'[a] = lastSequence[a]
    BY DEF TypeOK
  <1>2. \A a \in Account : pending'[a] \subseteq pending[a]
    BY <1>1
  <1>3. \A a \in Account : pending'[a] # {} => a \in gapPaused'
    <2>1. \A a \in Account : pending'[a] # {} => a \in gapPaused
      BY <1>2 DEF BufferedAhead
    <2> QED
      BY <1>1, <2>1 DEF Resume
  <1>4. \A a \in Account : \A b \in pending'[a] : b.seq > lastSequence'[a] + 1
    <2> SUFFICES ASSUME NEW a \in Account, NEW b \in pending'[a]
                 PROVE  b.seq > lastSequence'[a] + 1
      OBVIOUS
    <2>1. CASE a = x
      BY <1>1, <2>1
    <2>2. CASE a # x
      BY <1>1, <2>2 DEF BufferedAhead
    <2> QED
      BY <2>1, <2>2
  <1>5. \A a \in Account : \A b, c \in pending'[a] : b.seq = c.seq => b = c
    BY <1>2 DEF BufferedAhead
  <1>6. BufferedAhead'
    BY <1>3, <1>4, <1>5 DEF BufferedAhead
  <1>7. BuffersOwn'
    BY <1>2 DEF BuffersOwn
  <1> QED
    BY <1>2, <1>6, <1>7

\* _apply of a report below everything its account has buffered.
LEMMA ApplyKeepsGap ==
    ASSUME TypeOK, GapInv, NEW r \in Report, NEW buffered \in SUBSET pending[r.account],
           \A b \in buffered : b.seq > r.seq,
           NEW left, Apply(r, buffered, left)
    PROVE  /\ GapInv'
           /\ \A a \in Account : pending'[a] \subseteq pending[a]
           /\ pending'[r.account] \subseteq buffered
           /\ lastSequence' = lastSequence
              \/ lastSequence' = [lastSequence EXCEPT ![r.account] = r.seq]
           /\ drain' = left \/ drain' = NoDrain
  <1>f. /\ r.account \in Account /\ r.seq \in Nat
        /\ lastSequence \in [Account -> Nat]
        /\ pending \in [Account -> SUBSET Report]
        /\ \A b \in buffered : b.seq \in Nat /\ b.account = r.account /\ b \in pending[r.account]
    BY ReportFacts DEF TypeOK, GapInv, BuffersOwn
  <1>g. BufferedAhead /\ BuffersOwn
    BY DEF GapInv
  <1>1. CASE Applies(r, buffered, left)
    <2>1. /\ lastSequence' = [lastSequence EXCEPT ![r.account] = r.seq]
          /\ lastSequence'[r.account] = r.seq
          /\ drain' = left
          /\ GoOn(r, buffered)
      BY <1>f, <1>1 DEF Applies, Register
    <2>2. ASSUME NEW next \in buffered, next.seq = r.seq + 1, chained' = next,
                 pending' = [pending EXCEPT ![r.account] = buffered \ {next}],
                 UNCHANGED gapPaused
          PROVE  /\ GapInv'
                 /\ \A a \in Account : pending'[a] \subseteq pending[a]
                 /\ pending'[r.account] \subseteq buffered
      <3>1. \A b \in buffered \ {next} : b.seq # next.seq
        BY <1>f, <1>g DEF BufferedAhead
      <3>2. \A b \in buffered \ {next} : b.seq > r.seq + 1
        <4> SUFFICES ASSUME NEW b \in buffered \ {next} PROVE b.seq > r.seq + 1
          OBVIOUS
        <4> QED
          BY <1>f, <2>2, <3>1
      <3>3. buffered \ {next} \in SUBSET pending[r.account]
        OBVIOUS
      <3>g. gapPaused' = gapPaused \/ gapPaused' = Resume(r.account, buffered \ {next})
        BY <2>2
      <3>x. r.account \in Account
        BY <1>f
      <3>4. BufferedAhead' /\ BuffersOwn' /\ \A a \in Account : pending'[a] \subseteq pending[a]
        BY <1>f, <1>g, <3>x, <2>1, <2>2, <3>2, <3>3, <3>g, BufferShrinks
      <3>5. ChainedNext'
        BY <1>f, <2>1, <2>2 DEF ChainedNext
      <3>6. pending'[r.account] \subseteq buffered
        BY <1>f, <2>2
      <3> QED
        BY <3>4, <3>5, <3>6 DEF GapInv
    <2>3. ASSUME \A next \in buffered : next.seq # r.seq + 1, chained' = NoReport,
                 pending' = [pending EXCEPT ![r.account] = buffered],
                 gapPaused' = Resume(r.account, buffered)
          PROVE  /\ GapInv'
                 /\ \A a \in Account : pending'[a] \subseteq pending[a]
                 /\ pending'[r.account] \subseteq buffered
      <3>1. \A b \in buffered : b.seq > r.seq + 1
        <4> SUFFICES ASSUME NEW b \in buffered PROVE b.seq > r.seq + 1
          OBVIOUS
        <4> QED
          BY <1>f, <2>3
      <3>x. r.account \in Account
        BY <1>f
      <3>2. BufferedAhead' /\ BuffersOwn' /\ \A a \in Account : pending'[a] \subseteq pending[a]
        BY <1>f, <3>x, <1>g, <2>1, <2>3, <3>1, BufferShrinks
      <3>3. ChainedNext'
        BY <2>3 DEF ChainedNext
      <3>4. pending'[r.account] \subseteq buffered
        BY <1>f, <2>3
      <3> QED
        BY <3>2, <3>3, <3>4 DEF GapInv
    <2> QED
      BY <2>1, <2>2, <2>3 DEF GoOn
  <1>2. ASSUME pending' = [pending EXCEPT ![r.account] = buffered], chained' = NoReport,
               lastSequence' = lastSequence,
               gapPaused' = gapPaused \/ gapPaused' = Resume(r.account, buffered)
        PROVE  /\ GapInv'
               /\ \A a \in Account : pending'[a] \subseteq pending[a]
               /\ pending'[r.account] \subseteq buffered
    <2> DEFINE n == lastSequence[r.account]
    <2>1. n \in Nat /\ \A b \in buffered : b.seq > n + 1
      BY <1>f, <1>g DEF BufferedAhead
    <2>l. lastSequence' = [lastSequence EXCEPT ![r.account] = n]
      BY <1>f, <1>2
    <2> HIDE DEF n
    <2>2. BufferedAhead' /\ BuffersOwn' /\ \A a \in Account : pending'[a] \subseteq pending[a]
      BY <1>f, <1>g, <1>2, <2>1, <2>l, BufferShrinks
    <2>3. ChainedNext'
      BY <1>2 DEF ChainedNext
    <2>4. pending'[r.account] \subseteq buffered
      BY <1>f, <1>2
    <2> QED
      BY <2>2, <2>3, <2>4 DEF GapInv
  <1>3. CASE Isolates(r, buffered, left)
    BY <1>2, <1>3 DEF Isolates, bookVars
  <1>4. CASE Raises(r, buffered)
    BY <1>2, <1>4 DEF Raises, bookVars
  <1> QED
    BY <1>1, <1>3, <1>4 DEF Apply, Applies, Register

StepAdvances ==
    \A a \in Account :
        \/ lastSequence'[a] = lastSequence[a]
        \/ lastSequence'[a] = lastSequence[a] + 1
        \/ /\ drain # NoDrain /\ drain.account = a
           /\ lastSequence'[a] \in lastSequence[a] .. drain.verified

\* Every step keeps the gap buffer, and advances in sequence.
LEMMA GapStep ==
    ASSUME TypeOK, GapInv, DrainListed, [Next]_vars
    PROVE  GapInv' /\ DrainListed' /\ StepAdvances
  <1>f. /\ lastSequence \in [Account -> Nat]
        /\ pending \in [Account -> SUBSET Report]
        /\ \A a \in Account : \A b \in pending[a] :
              b.seq \in Nat /\ b.account = a /\ b.seq > lastSequence[a] + 1
    BY ReportFacts DEF TypeOK, GapInv, BuffersOwn, BufferedAhead
  <1>u. ASSUME UNCHANGED <<lastSequence, pending, gapPaused, chained, drain>>
        PROVE  GapInv' /\ DrainListed' /\ StepAdvances
    BY <1>u DEF GapInv, BufferedAhead, BuffersOwn, ChainedNext, DrainListed, StepAdvances
  <1>1. CASE Idle /\ OrdersNext /\ UNCHANGED <<bookVars, gapVars, unknown>>
    BY <1>u, <1>1 DEF bookVars, gapVars
  <1>2. ASSUME NEW r \in Report, Buffer(r)
        PROVE  GapInv' /\ DrainListed' /\ StepAdvances
    <2> DEFINE x == r.account
               new == {b \in pending[x] : b.seq # r.seq} \cup {r}
    <2>1. /\ x \in Account /\ r.seq \in Nat /\ r.seq > lastSequence[x] + 1
          /\ pending' = [pending EXCEPT ![x] = new]
          /\ gapPaused' = gapPaused \cup {x}
          /\ UNCHANGED <<lastSequence, chained, drain>>
          /\ chained = NoReport /\ drain = NoDrain
      BY <1>2, ReportFacts DEF Buffer, bookVars, Idle
    <2>2. /\ pending'[x] = new
          /\ \A a \in Account \ {x} : pending'[a] = pending[a]
      BY <1>f, <2>1
    <2>3. \A b \in new : /\ b.account = x /\ b.seq > lastSequence[x] + 1
                          /\ \A c \in new : b.seq = c.seq => b = c
      BY <1>f, <2>1 DEF GapInv, BufferedAhead
    <2> HIDE DEF new, x
    <2>4. BufferedAhead' /\ BuffersOwn'
      BY <2>1, <2>2, <2>3 DEF GapInv, BufferedAhead, BuffersOwn
    <2> QED
      BY <2>1, <2>4 DEF GapInv, ChainedNext, DrainListed, StepAdvances
  <1>3. ASSUME NEW r \in Report, Process(r)
        PROVE  GapInv' /\ DrainListed' /\ StepAdvances
    <2>1. /\ r.account \in Account /\ r.seq \in Nat
          /\ r.seq = lastSequence[r.account] + 1
          /\ Apply(r, pending[r.account], NoDrain)
      BY <1>3, ReportFacts DEF Process
    <2>2. \A b \in pending[r.account] : b.seq > r.seq
      BY <1>f, <2>1
    <2>3. /\ GapInv' /\ drain' = NoDrain
          /\ lastSequence' = lastSequence
             \/ lastSequence' = [lastSequence EXCEPT ![r.account] = r.seq]
      BY <2>1, <2>2, ApplyKeepsGap
    <2> QED
      BY <1>f, <2>1, <2>3 DEF DrainListed, StepAdvances
  <1>4. CASE Chain
    <2>1. /\ chained \in Report /\ chained.account \in Account /\ chained.seq \in Nat
          /\ chained.seq = lastSequence[chained.account] + 1
          /\ Apply(chained, pending[chained.account], drain)
      BY <1>4, ReportFacts DEF Chain, TypeOK, GapInv, ChainedNext
    <2>2. \A b \in pending[chained.account] : b.seq > chained.seq
      BY <1>f, <2>1
    <2>3. /\ GapInv'
          /\ drain' = drain \/ drain' = NoDrain
          /\ \A a \in Account : pending'[a] \subseteq pending[a]
          /\ lastSequence' = lastSequence
             \/ lastSequence' = [lastSequence EXCEPT ![chained.account] = chained.seq]
      BY <2>1, <2>2, ApplyKeepsGap
    <2>4. drain # NoDrain => drain.account \in Account
      BY DEF TypeOK, Drain
    <2>5. DrainListed'
      BY <2>3, <2>4 DEF DrainListed
    <2> QED
      BY <1>f, <2>1, <2>3, <2>5 DEF StepAdvances
  <1>5. ASSUME NEW a \in Account, NEW verified \in Verified, DrainBegin(a, verified)
        PROVE  GapInv' /\ DrainListed' /\ StepAdvances
    <2> DEFINE left == {s \in {b.seq : b \in pending[a]} : s <= verified}
    <2>1. /\ drain' = [account |-> a, verified |-> verified, left |-> left]
          /\ UNCHANGED <<lastSequence, pending, gapPaused, chained>>
      BY <1>5 DEF DrainBegin, bookVars
    <2>2. DrainListed'
      BY <2>1 DEF DrainListed
    <2> QED
      BY <2>1, <2>2 DEF GapInv, BufferedAhead, BuffersOwn, ChainedNext, StepAdvances
  <1>6. CASE DrainTake
    <2> DEFINE x == drain.account
               rest(s) == [drain EXCEPT !.left = drain.left \ {s}]
    <2>1. PICK s \in drain.left :
            /\ \A t \in drain.left : s <= t
            /\ \/ \E b \in pending[x] :
                     b.seq = s /\ Apply(b, pending[x] \ {b}, rest(s))
               \/ /\ drain' = NoDrain
                  /\ UNCHANGED <<orders, bookVars, pending, gapPaused, chained, unknown>>
      BY <1>6 DEF DrainTake
    <2>2. /\ drain \in Drain /\ drain # NoDrain /\ x \in Account
          /\ drain.verified \in Nat /\ s \in Nat /\ s <= drain.verified
          /\ \A b \in pending[x] : b.seq <= drain.verified => b.seq \in drain.left
      BY <2>1 DEF TypeOK, Drain, NoDrain, DrainListed
    <2>3. ASSUME NEW b \in pending[x], b.seq = s, Apply(b, pending[x] \ {b}, rest(s))
          PROVE  GapInv' /\ DrainListed' /\ StepAdvances
      <3>1. b \in Report /\ b.account = x /\ s > lastSequence[x] + 1
        BY <1>f, <2>2, <2>3
      <3>2. \A c \in pending[x] \ {b} : c.seq # s
        BY <2>2, <2>3 DEF GapInv, BufferedAhead
      <3>3. \A c \in pending[x] \ {b} : c.seq > s
        <4> SUFFICES ASSUME NEW c \in pending[x] \ {b} PROVE c.seq > s
          OBVIOUS
        <4>1. c.seq \in Nat /\ c.seq # s
          BY <1>f, <2>2, <3>2
        <4>2. CASE c.seq <= drain.verified
          <5>1. s <= c.seq
            BY <2>1, <2>2, <4>2
          <5> QED
            BY <2>2, <4>1, <5>1
        <4>3. CASE ~(c.seq <= drain.verified)
          BY <2>2, <4>1, <4>3
        <4> QED
          BY <4>2, <4>3
      <3> DEFINE buffered == pending[b.account] \ {b}
      <3>4. /\ buffered \in SUBSET pending[b.account]
            /\ \A c \in buffered : c.seq > b.seq
            /\ Apply(b, buffered, rest(s))
        BY <2>3, <3>1, <3>3
      <3> HIDE DEF buffered, rest
      <3>5. /\ GapInv'
            /\ drain' = rest(s) \/ drain' = NoDrain
            /\ pending'[b.account] \subseteq buffered
            /\ lastSequence' = lastSequence
               \/ lastSequence' = [lastSequence EXCEPT ![b.account] = b.seq]
        BY <3>1, <3>4, ApplyKeepsGap
      <3>6. DrainListed'
        <4>1. CASE drain' = NoDrain
          BY <4>1 DEF DrainListed
        <4>2. CASE drain' = rest(s)
          <5>1. /\ drain'.account = x /\ drain'.verified = drain.verified
                /\ drain'.left = drain.left \ {s}
            BY <2>2, <4>2 DEF rest, Drain
          <5>2. \A c \in pending'[x] : c \in pending[x] /\ c.seq # s
            BY <3>1, <3>2, <3>5 DEF buffered
          <5>3. \A t \in drain.left : t <= drain.verified
            BY <2>2 DEF DrainListed
          <5> QED
            BY <2>2, <5>1, <5>2, <5>3 DEF DrainListed
        <4> QED
          BY <3>5, <4>1, <4>2
      <3>7. StepAdvances
        <4> SUFFICES ASSUME NEW a \in Account
                     PROVE  \/ lastSequence'[a] = lastSequence[a]
                            \/ lastSequence'[a] = lastSequence[a] + 1
                            \/ /\ drain # NoDrain /\ drain.account = a
                               /\ lastSequence'[a] \in lastSequence[a] .. drain.verified
          BY DEF StepAdvances
        <4>1. CASE a = x /\ lastSequence' = [lastSequence EXCEPT ![b.account] = b.seq]
          <5>1. lastSequence'[a] = s /\ lastSequence[a] \in Nat
            BY <1>f, <2>2, <2>3, <3>1, <4>1
          <5> QED
            BY <2>2, <3>1, <4>1, <5>1
        <4>2. CASE a # x \/ lastSequence' = lastSequence
          BY <1>f, <3>1, <3>5, <4>2
        <4> QED
          BY <3>5, <4>1, <4>2
      <3> QED
        BY <3>5, <3>6, <3>7
    <2>4. ASSUME drain' = NoDrain,
                 UNCHANGED <<orders, bookVars, pending, gapPaused, chained, unknown>>
          PROVE  GapInv' /\ DrainListed' /\ StepAdvances
      BY <2>4 DEF bookVars, GapInv, BufferedAhead, BuffersOwn, ChainedNext, DrainListed, StepAdvances
    <2> QED
      BY <2>1, <2>3, <2>4
  <1>7. CASE DrainEnd
    <2> DEFINE x == drain.account
               rest == pending[x]
               n == lastSequence[x]
    <2>1. x \in Account
      BY <1>7 DEF DrainEnd, TypeOK, Drain
    <2>2. /\ gapPaused' = Resume(x, rest) /\ drain' = NoDrain
          /\ UNCHANGED <<lastSequence, pending, chained>>
      BY <1>7 DEF DrainEnd, bookVars
    <2>3. /\ rest \in SUBSET pending[x] /\ n \in Nat
          /\ pending' = [pending EXCEPT ![x] = rest]
          /\ lastSequence' = [lastSequence EXCEPT ![x] = n]
          /\ \A b \in rest : b.seq > n + 1
      BY <1>f, <2>1, <2>2
    <2> HIDE DEF x, rest, n
    <2>4. BufferedAhead' /\ BuffersOwn'
      BY <2>1, <2>2, <2>3, BufferShrinks DEF GapInv
    <2> QED
      BY <2>2, <2>4 DEF GapInv, ChainedNext, DrainListed, StepAdvances
  <1>8. CASE UNCHANGED vars
    BY <1>u, <1>8 DEF vars, bookVars, gapVars
  <1> QED
    BY <1>1, <1>2, <1>3, <1>4, <1>5, <1>6, <1>7, <1>8 DEF Next

-----------------------------------------------------------------------------
(* The theorems.                                                           *)

\* The initial state satisfies every invariant.
LEMMA InitInv == Init => BooksInv /\ GapInv /\ DrainListed
  <1> SUFFICES ASSUME Init PROVE BooksInv /\ GapInv /\ DrainListed
    OBVIOUS
  <1>1. NoOrder \in Snapshot
    BY DEF NoOrder, Snapshot, States
  <1>2. OrdersTypeOK
    BY <1>1 DEF Init, OrdersInit, OrdersTypeOK
  <1>3. \A o \in Order : /\ orders[o].state = "NEW" /\ orders[o].cumulative = 0
                         /\ Quantity[o] \in Nat
    BY OrderConstants DEF Init, OrdersInit, NoOrder
  <1>4. OrdersInv
    BY <1>2, <1>3 DEF OrdersInv
  <1>5. TypeOK
    BY <1>2 DEF Init, TypeOK
  <1>6. FillsAccounted /\ MachineLags
    BY <1>3 DEF Init, FillsAccounted, MachineLags
  <1>7. OnceInv
    BY DEF Init, OnceInv
  <1>8. GapInv /\ DrainListed
    BY DEF Init, GapInv, BufferedAhead, BuffersOwn, ChainedNext, DrainListed
  <1> QED
    BY <1>4, <1>5, <1>6, <1>7, <1>8 DEF BooksInv

\* The invariants hold in every reachable state.
LEMMA Invariants == Spec => [](BooksInv /\ GapInv /\ DrainListed)
  <1>1. BooksInv /\ GapInv /\ DrainListed /\ [Next]_vars => (BooksInv /\ GapInv /\ DrainListed)'
    BY BooksStep, GapStep DEF BooksInv
  <1> QED
    BY InitInv, <1>1, PTL DEF Spec

\* Every variable of the processor and of the order machine keeps its type.
THEOREM ReportsTypeCorrect == Spec => []TypeOK
  BY Invariants, PTL DEF BooksInv

\* The processor's cumulative quantity covers every fill that was applied and
\* never exceeds the order.
THEOREM FillsStayAccounted == Spec => []FillsAccounted
  BY Invariants, PTL DEF BooksInv

\* A live order in the machine never shows more than was filled.
THEOREM MachineNeverAhead == Spec => []MachineLags
  BY Invariants, PTL DEF BooksInv

\* An execution is applied at most once, whatever ids it is reported under and
\* however its reports cross the gap buffer.
THEOREM ExecutionsCountOnce == Spec => []OncePerExecution
  <1>1. BooksInv => OncePerExecution
    BY DEF BooksInv, OnceInv, OncePerExecution
  <1> QED
    BY Invariants, <1>1, PTL

\* The buffer never holds a report that could be applied now, and an account
\* with a buffer is paused.
THEOREM BufferStaysAhead == Spec => []BufferedAhead
  BY Invariants, PTL DEF GapInv

\* The applied sequence grows by one or by what a snapshot verified.
THEOREM SequenceAdvances == Spec => AdvancesInSequence
  <1>1. BooksInv /\ GapInv /\ DrainListed /\ [Next]_vars => [StepAdvances]_vars
    BY GapStep DEF BooksInv
  <1>2. Spec => [][StepAdvances]_vars
    BY Invariants, <1>1, PTL DEF Spec
  <1> QED
    BY <1>2 DEF AdvancesInSequence, StepAdvances

\* A terminal order changes only by a verified late fill, to FILLED.
THEOREM TerminalOrdersStay == Spec => TerminalStays
  <1>1. BooksInv /\ [Next]_vars => [TerminalKept]_vars
    BY BooksStep
  <1>2. Spec => [][TerminalKept]_vars
    BY Invariants, <1>1, PTL DEF Spec
  <1> QED
    BY <1>2 DEF TerminalStays, TerminalKept
=============================================================================
