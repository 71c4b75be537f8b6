--------------------------- MODULE ReportProcessor ---------------------------
(***************************************************************************)
(* ReportProcessorV1: execution reports arrive in any order, any number of *)
(* times, and are deduplicated, buffered across sequence gaps, isolated or *)
(* applied to the order state machine.                                     *)
(*                                                                         *)
(* process() and applyVerifiedSnapshot() run alone: one _apply call is one *)
(* step, and while a call still has reports to apply (chained or drain)    *)
(* nothing else happens.  A transition that raises ends the whole call.    *)
(***************************************************************************)
EXTENDS OrderStateMachine

CONSTANTS
    Report,     \* the reports that may arrive; one id may have two contents
    Id,         \* brokerReportIds
    Execution,  \* executionIds
    NoExecution,
    NoReport

Types == {"NEW", "PARTIAL_FILL", "FILL", "CANCELLED", "REJECTED", "EXPIRED", "CORRECTED"}
IsFill(r) == r.type \in {"PARTIAL_FILL", "FILL"}

\* ExecutionReportEventV1.validateReport
ReportType ==
    [id : Id, order : Order, account : Account, seq : Nat \ {0}, type : Types,
     execution : Execution \cup {NoExecution}, last : Nat, cum : Nat, remaining : Nat]

ASSUME ReportConstants ==
    /\ Report \subseteq ReportType
    /\ NoReport \notin Report
    /\ NoExecution \notin Execution
    /\ \A r \in Report : /\ IsFill(r) => r.last > 0
                         /\ IsFill(r) <=> r.execution # NoExecution
                         /\ r.cum >= r.last

VARIABLES
    known,        \* _reportHashes: the ids of the applied reports
    executions,   \* _executionIds of the applied reports
    lastSequence, \* _lastSequences, by account
    pending,      \* _pendingGaps: account -> the buffered reports
    gapPaused,    \* _gapPaused
    unknown,      \* _unknownOrders, the ids
    cumulative,   \* _cumulativeByOrder
    chained,      \* the buffered report _apply goes on with, or NoReport
    drain,        \* the reports applyVerifiedSnapshot has yet to take
    filled,       \* history: order -> the sum of the fills applied
    times         \* history: execution -> how often it was applied

bookVars == <<known, executions, lastSequence, cumulative, filled, times>>
gapVars == <<pending, gapPaused, chained, drain>>
vars == <<orders, bookVars, gapVars, unknown>>

\* left: the sequences of sorted(pending) up to the verified one, not taken yet.
NoDrain == [account |-> NoReport, verified |-> 0, left |-> {}]
Drain == [account : Account, verified : Nat, left : SUBSET Nat]

TypeOK ==
    /\ OrdersTypeOK
    /\ known \in SUBSET Id
    /\ executions \in SUBSET Execution
    /\ lastSequence \in [Account -> Nat]
    /\ pending \in [Account -> SUBSET Report]
    /\ gapPaused \in SUBSET Account
    /\ unknown \in SUBSET Id
    /\ cumulative \in [Order -> Nat]
    /\ chained \in Report \cup {NoReport}
    /\ drain \in Drain \cup {NoDrain}
    /\ filled \in [Order -> Nat]
    /\ times \in [Execution -> Nat]

Init ==
    /\ OrdersInit
    /\ known = {}
    /\ executions = {}
    /\ lastSequence = [a \in Account |-> 0]
    /\ pending = [a \in Account |-> {}]
    /\ gapPaused = {}
    /\ unknown = {}
    /\ cumulative = [o \in Order |-> 0]
    /\ chained = NoReport
    /\ drain = NoDrain
    /\ filled = [o \in Order |-> 0]
    /\ times = [e \in Execution |-> 0]

Idle == chained = NoReport /\ drain = NoDrain

-----------------------------------------------------------------------------
(* _apply, of a report r whose account keeps `buffered` in the gap buffer. *)

QuarantineSkipsIncrement(r) ==
    \/ r.cum < cumulative[r.order]
    \/ r.cum > Quantity[r.order]

\* The cumulative quantity falls, exceeds the order or misses the increment.
Quarantine(r) ==
    \/ r.cum < cumulative[r.order]
    \/ r.cum > Quantity[r.order]
    \/ r.cum < cumulative[r.order] + r.last

Isolated(r) == ~Exists(r.order) \/ Quarantine(r)

\* The transition the report asks for, and whether the machine accepts it.
Moves(r) == IsFill(r) \/ r.type \in {"CANCELLED", "REJECTED"}

Legal(r) ==
    /\ Moves(r) => AccountOf[r.order] = r.account
    /\ IsFill(r) => CanFill(r.order, r.last)
    /\ r.type = "CANCELLED" => CanCancel(r.order)
    /\ r.type = "REJECTED" => Accepts(r.order, "BROKER_REJECT")

Move(r) ==
    \/ IsFill(r) /\ Fill(r.order, r.last)
    \/ r.type = "CANCELLED" /\ Cancel(r.order, r.remaining)
    \/ r.type = "REJECTED" /\ Input(r.order, "BROKER_REJECT")
    \/ ~Moves(r) /\ UNCHANGED orders

\* The bookkeeping of an applied report.
Register(r) ==
    /\ known' = known \cup {r.id}
    /\ lastSequence' = [lastSequence EXCEPT ![r.account] = r.seq]
    /\ cumulative' = [cumulative EXCEPT ![r.order] = r.cum]
    /\ IF IsFill(r)
       THEN /\ executions' = executions \cup {r.execution}
            /\ filled' = [filled EXCEPT ![r.order] = @ + r.last]
            /\ times' = [times EXCEPT ![r.execution] = @ + 1]
       ELSE UNCHANGED <<executions, filled, times>>

\* The pause ends once the buffer is empty.
Resume(a, buffered) == IF buffered = {} THEN gapPaused \ {a} ELSE gapPaused

GoOnAnyNext(r, buffered) ==
    /\ \/ \E next \in buffered :
             /\ chained' = next
             /\ pending' = [pending EXCEPT ![r.account] = buffered \ {next}]
             /\ UNCHANGED gapPaused
       \/ /\ buffered = {}
          /\ chained' = NoReport
          /\ pending' = [pending EXCEPT ![r.account] = buffered]
          /\ gapPaused' = Resume(r.account, buffered)

GoOnKeepsBuffered(r, buffered) ==
    /\ \/ \E next \in buffered :
             /\ next.seq = r.seq + 1
             /\ chained' = next
             /\ UNCHANGED <<pending, gapPaused>>
       \/ /\ \A next \in buffered : next.seq # r.seq + 1
          /\ chained' = NoReport
          /\ pending' = [pending EXCEPT ![r.account] = buffered]
          /\ gapPaused' = Resume(r.account, buffered)

\* The buffered report of the next sequence is applied too, if there is one.
GoOn(r, buffered) ==
    \/ \E next \in buffered :
          /\ next.seq = r.seq + 1
          /\ chained' = next
          /\ pending' = [pending EXCEPT ![r.account] = buffered \ {next}]
          /\ UNCHANGED gapPaused
    \/ /\ \A next \in buffered : next.seq # r.seq + 1
       /\ chained' = NoReport
       /\ pending' = [pending EXCEPT ![r.account] = buffered]
       /\ gapPaused' = Resume(r.account, buffered)

Applies(r, buffered, left) ==
    /\ ~Isolated(r) /\ Legal(r)
    /\ Move(r)
    /\ Register(r)
    /\ GoOn(r, buffered)
    /\ drain' = left
    /\ UNCHANGED unknown

\* An isolated report is kept out and its sequence does not count.  The calls
\* that led to a nested _apply still look whether the buffer is empty now.
Isolates(r, buffered, left) ==
    /\ Isolated(r)
    /\ unknown' = IF Exists(r.order) THEN unknown ELSE unknown \cup {r.id}
    /\ pending' = [pending EXCEPT ![r.account] = buffered]
    /\ gapPaused' = IF chained = NoReport THEN gapPaused ELSE Resume(r.account, buffered)
    /\ chained' = NoReport
    /\ drain' = left
    /\ UNCHANGED <<orders, bookVars>>

\* OrderStateMachineError: the call ends, and the report it took from the buffer
\* is gone.
Raises(r, buffered) ==
    /\ ~Isolated(r) /\ ~Legal(r)
    /\ pending' = [pending EXCEPT ![r.account] = buffered]
    /\ chained' = NoReport
    /\ drain' = NoDrain
    /\ UNCHANGED <<orders, bookVars, gapPaused, unknown>>

Apply(r, buffered, left) ==
    Applies(r, buffered, left) \/ Isolates(r, buffered, left) \/ Raises(r, buffered)

-----------------------------------------------------------------------------
(* process.                                                                *)

\* A known id or execution and an old sequence are only audited.
Fresh(r) ==
    /\ r.id \notin known
    /\ IsFill(r) => r.execution \notin executions
    /\ r.seq > lastSequence[r.account]

\* Beyond a gap; a buffered report of the same sequence is replaced.
Buffer(r) ==
    /\ Idle
    /\ Fresh(r)
    /\ r.seq > lastSequence[r.account] + 1
    /\ pending' = [pending EXCEPT ![r.account] = {b \in @ : b.seq # r.seq} \cup {r}]
    /\ gapPaused' = gapPaused \cup {r.account}
    /\ UNCHANGED <<orders, bookVars, chained, drain, unknown>>

Process(r) ==
    /\ Idle
    /\ Fresh(r)
    /\ r.seq = lastSequence[r.account] + 1
    /\ Apply(r, pending[r.account], NoDrain)

\* The nested _apply.
Chain ==
    /\ chained # NoReport
    /\ Apply(chained, pending[chained.account], drain)

-----------------------------------------------------------------------------
(* applyVerifiedSnapshot.                                                  *)

DrainBegin(a, verified) ==
    /\ Idle
    /\ verified >= lastSequence[a]
    /\ drain' = [account |-> a, verified |-> verified,
                 left |-> {s \in {b.seq : b \in pending[a]} : s <= verified}]
    /\ UNCHANGED <<orders, bookVars, pending, gapPaused, chained, unknown>>

\* The next sequence of the list made at the start: its report is popped and
\* applied, or a chain has already taken it and pop() raises KeyError.
DrainTake ==
    /\ chained = NoReport
    /\ \E s \in drain.left :
        LET rest == [drain EXCEPT !.left = @ \ {s}] IN
        /\ \A t \in drain.left : s <= t
        /\ \/ \E b \in pending[drain.account] :
                 /\ b.seq = s
                 /\ Apply(b, pending[drain.account] \ {b}, rest)
           \/ /\ \A b \in pending[drain.account] : b.seq # s
              /\ drain' = NoDrain
              /\ UNCHANGED <<orders, bookVars, pending, gapPaused, chained, unknown>>

DrainEnd ==
    /\ chained = NoReport
    /\ drain # NoDrain /\ drain.left = {}
    /\ gapPaused' = Resume(drain.account, pending[drain.account])
    /\ drain' = NoDrain
    /\ UNCHANGED <<orders, bookVars, pending, chained, unknown>>

-----------------------------------------------------------------------------
Verified == {r.seq : r \in Report}  \* the snapshot sequences tried

Next ==
    \/ Idle /\ OrdersNext /\ UNCHANGED <<bookVars, gapVars, unknown>>
    \/ \E r \in Report : Buffer(r) \/ Process(r)
    \/ Chain
    \/ \E a \in Account, verified \in Verified : DrainBegin(a, verified)
    \/ DrainTake
    \/ DrainEnd

Spec == Init /\ [][Next]_vars

-----------------------------------------------------------------------------
(* Properties.                                                             *)

\* What is buffered lies beyond a gap, one report a sequence, and the account is
\* paused: also after a chain or a verified snapshot stopped half way.
BufferedAhead ==
    \A a \in Account : \A b \in pending[a] :
        /\ b.seq > lastSequence[a] + 1
        /\ \A c \in pending[a] : b.seq = c.seq => b = c
        /\ a \in gapPaused

\* "Only a consecutive sequence or a verified snapshot resumes the account": the
\* applied sequence grows by one, or by a snapshot that verified as much.
AdvancesInSequence ==
    [][\A a \in Account :
          \/ lastSequence'[a] = lastSequence[a]
          \/ lastSequence'[a] = lastSequence[a] + 1
          \/ /\ drain # NoDrain /\ drain.account = a
             /\ lastSequence'[a] \in lastSequence[a] .. drain.verified]_vars

\* "The cumulative quantity never exceeds the order": it covers every fill that
\* was applied, in whatever order the reports came.
FillsAccounted ==
    \A o \in Order : filled[o] <= cumulative[o] /\ cumulative[o] <= Quantity[o]

\* The machine may fall behind the processor (a second partial fill changes no
\* state and is not stored) but a live order never shows more than was filled,
\* and shows nothing only if nothing was.
MachineLags ==
    \A o \in Order : ~IsTerminal(o) =>
        /\ orders[o].cumulative <= filled[o]
        /\ orders[o].cumulative = 0 => filled[o] = 0

\* A terminal order keeps its quantities and its state; only a verified late
\* fill makes it FILLED.
TerminalStays ==
    [][\A o \in Order : IsTerminal(o) =>
          \/ orders'[o] = orders[o]
          \/ orders[o].state # "FILLED" /\ orders'[o].state = "FILLED"]_vars

\* The reports that name one execution agree on its order and quantities.
DuplicatesAgree ==
    \A r, s \in Report : IsFill(r) /\ r.execution = s.execution =>
        r.order = s.order /\ r.last = s.last /\ r.cum = s.cum

\* An execution reported twice, also under another id and by way of the gap
\* buffer, which is not deduplicated again, counts once.
OncePerExecution == DuplicatesAgree => \A e \in Execution : times[e] <= 1

\* "When the cumulative quantity equals the order's, move to FILLED."
FullOrderIsFilled ==
    Idle => \A o \in Order : filled[o] = Quantity[o] => orders[o].state # "PARTIALLY_FILLED"

\* "The gap is filled by the authoritative snapshot": when a call ends, nothing
\* up to the verified sequence is left in the buffer.
SnapshotCatchesUp ==
    [][drain # NoDrain /\ drain' = NoDrain =>
          \A b \in pending'[drain.account] : b.seq > drain.verified]_vars
=============================================================================
