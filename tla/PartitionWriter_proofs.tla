------------------------ MODULE PartitionWriter_proofs ------------------------
(***************************************************************************)
(* Theorems about PartitionWriter for any number of writers, publishers,   *)
(* keys and contents, any TTL and any bound on time and tokens.            *)
(***************************************************************************)
EXTENDS PartitionWriter, FiniteSetTheorems, TLAPS

-----------------------------------------------------------------------------
(* The largest element of a finite set of naturals, which MAX and nextval  *)
(* in the SQL stand on.                                                    *)

\* A finite nonempty set of naturals has a largest element.
LEMMA FiniteNatMax ==
    ASSUME NEW S, IsFiniteSet(S), S \subseteq Nat, S # {}
    PROVE  \E n \in S : \A m \in S : m <= n
<1> DEFINE NoMax(T) == T # {} /\ ~ \E n \in T : \A m \in T : m <= n
           Bad == {T \in SUBSET S : NoMax(T)}
<1> SUFFICES ASSUME NoMax(S) PROVE FALSE
    OBVIOUS
<1>1. IsWellFoundedOn(StrictSubsetOrdering(S), SUBSET S)
    BY FS_StrictSubsetOrderingWellFounded, FS_FiniteSubsetsOfFinite
<1>2. PICK X \in Bad : \A Y \in Bad : <<Y, X>> \notin StrictSubsetOrdering(S)
  <2>1. Bad \subseteq SUBSET S /\ Bad # {}
    OBVIOUS
  <2> HIDE DEF Bad
  <2> QED
    BY <1>1, <2>1, WFMin
<1>3. PICK x \in X : TRUE
    BY <1>2
<1>4. ~ NoMax(X \ {x})
  <2> DEFINE Y == X \ {x}
  <2>1. Y \in SUBSET S /\ Y \subseteq X /\ Y # X /\ X \in SUBSET S
    BY <1>2, <1>3
  <2>2. <<Y, X>> \in StrictSubsetOrdering(S)
    BY <2>1 DEF StrictSubsetOrdering
  <2> QED
    BY <1>2, <2>1, <2>2
<1>5. CASE X \ {x} = {}
  <2>1. X = {x} /\ x \in Nat
    BY <1>2, <1>3, <1>5
  <2> QED
    BY <1>2, <2>1
<1>6. CASE X \ {x} # {}
  <2>1. PICK n \in X \ {x} : \A m \in X \ {x} : m <= n
    BY <1>4, <1>6
  <2>2. n \in Nat /\ x \in Nat /\ X \subseteq Nat
    BY <1>2, <1>3, <2>1
  <2>3. CASE x <= n
    BY <1>2, <2>1, <2>2, <2>3
  <2>4. CASE n <= x
    BY <1>2, <1>3, <2>1, <2>2, <2>4
  <2> QED
    BY <2>2, <2>3, <2>4
<1> QED
    BY <1>5, <1>6

\* The values of a function on a finite set are finitely many.
LEMMA FiniteImage ==
    ASSUME NEW D, IsFiniteSet(D), NEW f
    PROVE  IsFiniteSet({f[x] : x \in D})
<1> DEFINE g == [x \in D |-> f[x]]
           T == {f[x] : x \in D}
<1>1. g \in Surjection(D, T)
    BY DEF Surjection
<1> QED
    BY <1>1, FS_Surjection

MaxSeq(f) == CHOOSE n \in {0} \cup {f[k] : k \in Key} : \A k \in Key : f[k] <= n

\* MAX(delivery_sequence) is the sequence of a committed row, or 0.
LEMMA LatestIsMax ==
    ASSUME NEW f \in [Key -> Nat]
    PROVE  /\ MaxSeq(f) \in Nat
           /\ MaxSeq(f) = 0 \/ \E k \in Key : f[k] = MaxSeq(f)
           /\ \A k \in Key : f[k] <= MaxSeq(f)
<1> DEFINE R == {f[k] : k \in Key}
           S == {0} \cup R
<1>1. IsFiniteSet(R)
    BY WriterConstants, FiniteImage
<1>2. IsFiniteSet(S)
    BY <1>1, FS_Singleton, FS_Union, Zenon
<1>3. S \subseteq Nat /\ S # {}
    OBVIOUS
<1> HIDE DEF S
<1>4. \E n \in S : \A m \in S : m <= n
    BY <1>2, <1>3, FiniteNatMax
<1> USE DEF S
<1>5. \E n \in S : \A k \in Key : f[k] <= n
    BY <1>4
<1>6. MaxSeq(f) \in S /\ \A k \in Key : f[k] <= MaxSeq(f)
    BY <1>5 DEF MaxSeq
<1> QED
    BY <1>6

\* nextval() is above every sequence drawn so far.
LEMMA NextOutSeqIsNew ==
    ASSUME TypeOK, Process # {}
    PROVE  /\ NextOutSeq \in Nat \ {0}
           /\ \A k \in Key : outbox[k].seq < NextOutSeq
           /\ \A p \in Process : tx[p].outSeq < NextOutSeq
<1> DEFINE f == [k \in Key |-> outbox[k].seq]
           g == [q \in Process |-> tx[q].outSeq]
           A == {f[k] : k \in Key}
           B == {g[q] : q \in Process}
           drawn == {outbox[k].seq : k \in Key} \cup {tx[q].outSeq : q \in Process}
<1>1. IsFiniteSet(A) /\ IsFiniteSet(B)
    BY WriterConstants, FiniteImage
<1>2. A \cup B = drawn
    OBVIOUS
<1>3. IsFiniteSet(drawn) /\ drawn \subseteq Nat
    BY <1>1, <1>2, FS_Union DEF TypeOK, TxType
<1>4. \E n \in drawn : \A m \in drawn : m <= n
    BY <1>3, FiniteNatMax
<1> DEFINE top == CHOOSE n \in drawn : \A m \in drawn : m <= n
<1>5. top \in Nat /\ \A m \in drawn : m <= top
    BY <1>3, <1>4
<1>6. NextOutSeq = 1 + top
    BY DEF NextOutSeq
<1>7. (\A k \in Key : outbox[k].seq \in drawn) /\ \A p \in Process : tx[p].outSeq \in drawn
    OBVIOUS
<1> HIDE DEF top, drawn
<1>8. NextOutSeq \in Nat \ {0} /\ \A m \in drawn : m < NextOutSeq
    BY <1>3, <1>5, <1>6
<1> QED
    BY <1>7, <1>8
-----------------------------------------------------------------------------
(* The inductive invariant.                                                *)

Open(p) == tx[p].step \in {"sequence", "append", "enqueue", "commit"}
Fresh(p) == inbox[tx[p].key] = NoHash
Owns(p, table) == table \in tx[p].own

\* An open transaction wrote, so far, exactly the rows its key does not have.
OwnsWhatIsNew ==
    \A p \in Process :
        /\ Owns(p, "inbox") <=> Open(p) /\ Fresh(p)
        /\ Owns(p, "fact") <=> tx[p].step \in {"enqueue", "commit"} /\ Fresh(p)
        /\ Owns(p, "outbox") <=> tx[p].step = "commit" /\ Fresh(p)

\* No two open transactions write the rows of one key.
OneWriterPerKey ==
    \A p, q \in Process :
        Owns(p, "inbox") /\ Owns(q, "inbox") /\ tx[p].key = tx[q].key => p = q

\* The sequences that will be committed are real ones.
DrawnSequences ==
    \A p \in Process :
        /\ tx[p].step \in {"append", "enqueue", "commit"} => tx[p].seq # 0
        /\ Owns(p, "outbox") => tx[p].outSeq # 0

\* A planned sequence may be stale; once its row is written it is the next one,
\* and nobody else's; a sequence got back is that of a committed row.
PlannedSequences ==
    \A p \in Process :
        /\ tx[p].step \in {"append", "enqueue", "commit"} =>
              1 <= tx[p].seq /\ tx[p].seq <= LatestDelivery + 1
        /\ Owns(p, "fact") => tx[p].seq = LatestDelivery + 1
        /\ tx[p].step \in {"enqueue", "commit"} /\ ~Owns(p, "fact") =>
              tx[p].seq <= LatestDelivery
        /\ \A q \in Process : Owns(p, "fact") /\ Owns(q, "fact") => p = q

\* What a publisher holds is committed, and what it marked was handed over.
PublisherBatches ==
    \A u \in Publisher :
        /\ \A i \in 1 .. Len(batch[u]) : outbox[batch[u][i]] # NoRecord
        /\ handed[u] => batch[u] # <<>> /\ Head(batch[u]) \in delivered
        /\ marked[u] \subseteq delivered

WriterInv == TypeOK /\ OwnsWhatIsNew /\ OneWriterPerKey /\ DrawnSequences /\ InputAtomic

\* A conflict is only ever found beside an accepted content.
ConflictInv ==
    /\ \A k \in conflicts : inbox[k] # NoHash
    /\ \A p \in Process : tx[p].step = "conflict" => inbox[tx[p].key] # NoHash

Inv == WriterInv /\ PublisherBatches /\ PublishedWasDelivered /\ ConflictInv
SequenceInv == PlannedSequences /\ DeliverySequenceDense /\ CheckpointCovered

-----------------------------------------------------------------------------
(* Type correctness.                                                       *)

\* The initial stores, transactions and batches are well typed.
LEMMA TypeInit == Init => TypeOK
BY LeaseConstants DEF Init, LeaseInit, TypeOK, LeaseTypeOK, Row, NoRow, IdleTx, TxType,
   Steps, NoRecord

\* A statement of LeaseStoreV1, and time passing, keep the lease row well typed.
LEMMA LeaseTypeStep ==
    ASSUME LeaseTypeOK, LeaseNext
    PROVE  LeaseTypeOK'
<1> USE LeaseConstants DEF LeaseTypeOK, Row
<1>1. CASE Tick
    BY <1>1 DEF Tick
<1>2. ASSUME NEW p \in Process, AcquireNew(p)
      PROVE  LeaseTypeOK'
    BY <1>2 DEF AcquireNew, Grant
<1>3. ASSUME NEW p \in Process, AcquireTakeOver(p)
      PROVE  LeaseTypeOK'
    BY <1>3 DEF AcquireTakeOver, Grant
<1>4. ASSUME NEW p \in Process, Renew(p)
      PROVE  LeaseTypeOK'
    BY <1>4 DEF Renew
<1>5. ASSUME NEW p \in Process, Release(p)
      PROVE  LeaseTypeOK'
    BY <1>5 DEF Release, NoRow
<1> QED
    BY <1>1, <1>2, <1>3, <1>4, <1>5 DEF LeaseNext

\* A statement changes p's transaction alone, and not its input.
Statement(p) ==
    /\ tx' = [tx EXCEPT ![p] = tx'[p]]
    /\ tx'[p] \in TxType
    /\ tx'[p].key = tx[p].key /\ tx'[p].hash = tx[p].hash
    /\ UNCHANGED <<leaseVars, storeVars, pubVars>>

\* An INSERT or a read of the work unit changes its own transaction and nothing
\* that another connection sees.
LEMMA StatementSteps ==
    ASSUME TypeOK, NEW p \in Process,
           InsertInbox(p) \/ PlanSequence(p) \/ AppendFact(p) \/ Enqueue(p)
    PROVE  Statement(p)
<1> DEFINE own == IF inbox[tx[p].key] = NoHash THEN {"inbox"} ELSE {}
<1>1. /\ {"sequence", "append", "enqueue", "commit"} \subseteq Steps
      /\ own \in SUBSET Tables /\ {"fact"} \in SUBSET Tables /\ {"outbox"} \in SUBSET Tables
    BY DEF Steps, Tables
<1>2. tx \in [Process -> TxType] /\ facts \in [Key -> Nat]
    BY DEF TypeOK
<1>3. LatestDelivery \in Nat
    BY <1>2, LatestIsMax DEF LatestDelivery, MaxSeq
<1>4. NextOutSeq \in Nat
    BY NextOutSeqIsNew
<1>5. ~At(p, "idle") => tx[p].key \in Key
    BY DEF TypeOK, At
<1> HIDE DEF own
<1>6. CASE InsertInbox(p)
  <2>1. Advance(p, "sequence", own)
    BY <1>6 DEF InsertInbox, own
  <2>2. tx' = [tx EXCEPT ![p].step = "sequence", ![p].own = @ \cup own]
    BY <2>1 DEF Advance
  <2>3. UNCHANGED <<leaseVars, storeVars, pubVars>>
    BY <1>6 DEF InsertInbox
  <2> QED
    BY <1>1, <1>2, <2>2, <2>3 DEF Statement, TxType
<1>7. CASE PlanSequence(p)
  <2>1. /\ tx' = [tx EXCEPT ![p].step = "append", ![p].seq = LatestDelivery + 1]
        /\ UNCHANGED <<leaseVars, storeVars, pubVars>>
    BY <1>7 DEF PlanSequence
  <2>2. LatestDelivery + 1 \in Nat
    BY <1>3
  <2> QED
    BY <1>1, <1>2, <2>1, <2>2 DEF Statement, TxType
<1>8. CASE AppendFact(p)
  <2>1. CASE facts[tx[p].key] # 0
    BY <1>1, <1>2, <1>5, <1>8, <2>1 DEF Statement, AppendFact, At, TxType
  <2>2. CASE facts[tx[p].key] = 0
    BY <1>1, <1>2, <1>8, <2>2 DEF Statement, AppendFact, Advance, TxType
  <2> QED
    BY <2>1, <2>2
<1>9. CASE Enqueue(p)
  <2>1. CASE outbox[tx[p].key] = NoRecord
    BY <1>1, <1>2, <1>4, <1>9, <2>1 DEF Statement, Enqueue, TxType
  <2>2. CASE outbox[tx[p].key] # NoRecord
    BY <1>1, <1>2, <1>9, <2>2 DEF Statement, Enqueue, Advance, TxType
  <2> QED
    BY <2>1, <2>2
<1> QED
    BY <1>6, <1>7, <1>8, <1>9

\* A writer's statement, commit, rollback or crash keeps the types.
LEMMA WriterTypeStep ==
    ASSUME TypeOK, NEW p \in Process, WriterStep(p)
    PROVE  TypeOK'
<1> USE DEF TypeOK, LeaseTypeOK, leaseVars, storeVars, pubVars
<1>1. ASSUME NEW d \in Deliveries, Accept(p, d[1], d[2])
      PROVE  TypeOK'
  <2>1. d[1] \in Key /\ d[2] \in Hash
    BY WriterConstants
  <2> QED
    BY <1>1, <2>1 DEF Accept, IdleTx, At, TxType, Steps
<1>2. CASE RecordConflict(p)
    BY <1>2 DEF RecordConflict, IdleTx, At, TxType, Steps
<1>3. CASE InsertInbox(p) \/ PlanSequence(p) \/ AppendFact(p) \/ Enqueue(p)
  <2>1. Statement(p) /\ tx[p].step # "idle"
    BY <1>3, StatementSteps DEF InsertInbox, PlanSequence, AppendFact, Enqueue, At
  <2> QED
    BY <2>1 DEF Statement
<1>4. CASE Commit(p)
    BY <1>4 DEF Commit, IdleTx, At, TxType, Steps
<1>5. CASE Abort(p)
    BY <1>5 DEF Abort, IdleTx, TxType, Steps
<1>6. CASE Crash(p)
    BY <1>6 DEF Crash, IdleTx, TxType, Steps
<1> QED
    BY <1>1, <1>2, <1>3, <1>4, <1>5, <1>6 DEF WriterStep

\* A step of publishPending keeps the types.
LEMMA PublisherTypeStep ==
    ASSUME TypeOK, NEW u \in Publisher, PublisherStep(u)
    PROVE  TypeOK'
<1> USE DEF TypeOK, LeaseTypeOK, leaseVars, storeVars, pubVars
<1>1. CASE Fetch(u)
  <2>1. PICK n \in 1 .. BatchSize : \E rows \in [1 .. n -> Pending] :
            batch' = [batch EXCEPT ![u] = rows]
    BY <1>1 DEF Fetch
  <2>2. [1 .. n -> Pending] \subseteq Seq(Key)
    BY <2>1, WriterConstants DEF Pending
  <2> QED
    BY <1>1, <2>1, <2>2 DEF Fetch
<1>2. CASE HandOver(u)
    BY <1>2 DEF HandOver
<1>3. CASE Mark(u)
    BY <1>3 DEF Mark
<1>4. CASE CommitMarks(u)
    BY <1>4 DEF CommitMarks
<1>5. CASE PublishFails(u)
    BY <1>5 DEF PublishFails
<1> QED
    BY <1>1, <1>2, <1>3, <1>4, <1>5 DEF PublisherStep

\* Every step keeps the types.
LEMMA TypeStep == TypeOK /\ [Next]_vars => TypeOK'
<1> SUFFICES ASSUME TypeOK, [Next]_vars
             PROVE  TypeOK'
    OBVIOUS
<1>1. CASE LeaseStep
    BY <1>1, LeaseTypeStep DEF LeaseStep, TypeOK, storeVars, pubVars
<1>2. CASE UNCHANGED vars
    BY <1>2 DEF TypeOK, LeaseTypeOK, vars, leaseVars, storeVars, pubVars
<1> QED
    BY <1>1, <1>2, WriterTypeStep, PublisherTypeStep DEF Next

\* Every variable keeps its type, whatever writers, publishers and time do.
THEOREM TypeCorrect == Spec => []TypeOK
<1> QED
    BY TypeInit, TypeStep, PTL DEF Spec

-----------------------------------------------------------------------------
(* The write gate.                                                         *)

DistinctHolders == \A p, q \in Process : HolderOf[p] = HolderOf[q] => p = q

\* The name in the row is that of the process granted the lease last.
RowNamesOwner == lease.holder # NoHolder => owner \in Process /\ HolderOf[owner] = lease.holder

\* With names of their own, no step lets the lease row name a process that was
\* not granted the lease last.
LEMMA RowNamesOwnerStep == LeaseTypeOK /\ RowNamesOwner /\ [Next]_vars => RowNamesOwner'
<1> SUFFICES ASSUME LeaseTypeOK, RowNamesOwner, [Next]_vars
             PROVE  RowNamesOwner'
    OBVIOUS
<1> USE DEF RowNamesOwner, LeaseTypeOK, Row, leaseVars
<1>1. ASSUME UNCHANGED <<lease, owner>>
      PROVE  RowNamesOwner'
    BY <1>1
<1>2. ASSUME NEW p \in Process, NEW token \in Nat, Grant(p, token)
      PROVE  RowNamesOwner'
    BY <1>2 DEF Grant
<1>3. ASSUME NEW p \in Process, Renew(p)
      PROVE  RowNamesOwner'
    BY <1>3 DEF Renew
<1>4. ASSUME NEW p \in Process, Release(p)
      PROVE  RowNamesOwner'
    BY <1>4 DEF Release, NoRow
<1>5. CASE LeaseStep
    BY <1>1, <1>2, <1>3, <1>4, <1>5
       DEF LeaseStep, LeaseNext, Tick, AcquireNew, AcquireTakeOver
<1>6. ASSUME NEW p \in Process, WriterStep(p)
      PROVE  UNCHANGED <<lease, owner>>
    BY <1>6 DEF WriterStep, Accept, RecordConflict, InsertInbox, PlanSequence, AppendFact,
                Enqueue, Commit, Abort, Crash
<1>7. ASSUME NEW u \in Publisher, PublisherStep(u)
      PROVE  UNCHANGED <<lease, owner>>
    BY <1>7 DEF PublisherStep, Fetch, HandOver, Mark, CommitMarks, PublishFails
<1>8. CASE UNCHANGED vars
    BY <1>8 DEF vars
<1> QED
    BY <1>1, <1>5, <1>6, <1>7, <1>8 DEF Next

\* Under names of their own, nobody but the process granted the lease last
\* passes guard(): the token reset by release() can harm only writers that share
\* a name.
THEOREM GateExclusive ==
    ASSUME DistinctHolders
    PROVE  Spec => []GateAdmitsOnlyOwner
<1>1. Init => RowNamesOwner
    BY DEF Init, LeaseInit, NoRow, RowNamesOwner
<1>2. TypeOK /\ RowNamesOwner => GateAdmitsOnlyOwner
    BY DistinctHolders, LeaseConstants
       DEF DistinctHolders, RowNamesOwner, GateAdmitsOnlyOwner, Guard, Matches
<1>3. TypeOK => LeaseTypeOK
    BY DEF TypeOK
<1> QED
    BY <1>1, <1>2, <1>3, RowNamesOwnerStep, TypeCorrect, PTL DEF Spec

-----------------------------------------------------------------------------
(* What is committed together.                                             *)

\* The empty stores satisfy the writers' invariant.
LEMMA WriterInvInit == Init => WriterInv
BY TypeInit DEF WriterInv, Init, IdleTx, OwnsWhatIsNew, OneWriterPerKey, DrawnSequences,
   InputAtomic, Open, Fresh, Owns, NoRecord

\* p's transaction alone changes, and stays the owner of what its key has not.
LEMMA OwnStep ==
    ASSUME WriterInv, TypeOK', NEW p \in Process,
           tx' = [tx EXCEPT ![p] = tx'[p]],
           UNCHANGED <<inbox, facts, outbox>>,
           Owns(p, "inbox")' <=> Open(p)' /\ Fresh(p)',
           Owns(p, "fact")' <=> tx'[p].step \in {"enqueue", "commit"} /\ Fresh(p)',
           Owns(p, "outbox")' <=> tx'[p].step = "commit" /\ Fresh(p)',
           tx'[p].step \in {"append", "enqueue", "commit"} => tx'[p].seq # 0,
           Owns(p, "outbox")' => tx'[p].outSeq # 0,
           \A q \in Process \ {p} :
              Owns(p, "inbox")' /\ Owns(q, "inbox") => tx'[p].key # tx[q].key
    PROVE  WriterInv'
<1>1. \A q \in Process \ {p} : tx'[q] = tx[q]
    BY DEF WriterInv, TypeOK
<1>2. OwnsWhatIsNew' /\ DrawnSequences'
    BY <1>1 DEF WriterInv, OwnsWhatIsNew, DrawnSequences, Owns, Open, Fresh
<1>3. OneWriterPerKey'
    BY <1>1 DEF WriterInv, OneWriterPerKey, Owns
<1>4. InputAtomic'
    BY DEF WriterInv, InputAtomic
<1> QED
    BY <1>2, <1>3, <1>4 DEF WriterInv

\* A statement before COMMIT keeps the writers' invariant: row locks keep two
\* open transactions off one key.
LEMMA StatementInv ==
    ASSUME WriterInv, TypeOK', NEW p \in Process,
           InsertInbox(p) \/ PlanSequence(p) \/ AppendFact(p) \/ Enqueue(p)
    PROVE  WriterInv'
<1> DEFINE k == tx[p].key
<1>1. /\ tx' = [tx EXCEPT ![p] = tx'[p]]
      /\ tx'[p].key = k
      /\ UNCHANGED <<inbox, facts, outbox>>
    BY StatementSteps DEF WriterInv, Statement, storeVars
<1>2. tx \in [Process -> TxType] /\ tx[p] \in TxType
    BY DEF WriterInv, TypeOK
<1>3. tx[p].step # "idle" => k \in Key
    BY DEF WriterInv, TypeOK
<1>4. Fresh(p)' <=> Fresh(p)
    BY <1>1 DEF Fresh
<1> HIDE DEF k
<1>5. CASE InsertInbox(p)
  <2>1. /\ tx'[p].step = "sequence"
        /\ tx'[p].own = tx[p].own \cup IF Fresh(p) THEN {"inbox"} ELSE {}
    BY <1>2, <1>5 DEF InsertInbox, Advance, TxType, Fresh
  <2>2. tx[p].step = "insert" /\ \A q \in Process \ {p} : ~(Owns(q, "inbox") /\ tx[q].key = k)
    BY <1>5 DEF InsertInbox, At, Waits, Owns, k
  <2> QED
    BY <1>1, <1>4, <2>1, <2>2, OwnStep DEF WriterInv, OwnsWhatIsNew, Owns, Open
<1>6. CASE PlanSequence(p)
  <2>1. tx[p].step = "sequence" /\ tx'[p].step = "append" /\ tx'[p].own = tx[p].own
    BY <1>2, <1>6 DEF PlanSequence, At, TxType
  <2>2. LatestDelivery \in Nat /\ tx'[p].seq = LatestDelivery + 1
    BY <1>2, <1>6, LatestIsMax DEF PlanSequence, TxType, LatestDelivery, MaxSeq, WriterInv, TypeOK
  <2> QED
    BY <1>1, <1>4, <2>1, <2>2, OwnStep
       DEF WriterInv, OwnsWhatIsNew, OneWriterPerKey, Owns, Open, k
<1>7. CASE AppendFact(p)
  <2>1. tx[p].step = "append" /\ (Fresh(p) <=> facts[k] = 0)
    BY <1>3, <1>7 DEF AppendFact, At, WriterInv, InputAtomic, Fresh, k
  <2>2. /\ tx'[p].step = "enqueue"
        /\ tx'[p].own = tx[p].own \cup IF Fresh(p) THEN {"fact"} ELSE {}
    BY <1>2, <1>7, <2>1 DEF AppendFact, Advance, TxType, k
  <2>3. tx'[p].seq # 0
    BY <1>2, <1>7, <2>1 DEF AppendFact, Advance, TxType, WriterInv, DrawnSequences, k
  <2> QED
    BY <1>1, <1>4, <2>1, <2>2, <2>3, OwnStep
       DEF WriterInv, OwnsWhatIsNew, OneWriterPerKey, Owns, Open, k
<1>8. CASE Enqueue(p)
  <2>1. tx[p].step = "enqueue" /\ (Fresh(p) <=> outbox[k] = NoRecord)
    BY <1>3, <1>8 DEF Enqueue, At, WriterInv, InputAtomic, Fresh, k
  <2>2. NextOutSeq # 0
    BY NextOutSeqIsNew DEF WriterInv
  <2>3. /\ tx'[p].step = "commit"
        /\ tx'[p].own = tx[p].own \cup IF Fresh(p) THEN {"outbox"} ELSE {}
        /\ Fresh(p) => tx'[p].outSeq = NextOutSeq
        /\ tx'[p].seq = tx[p].seq
    BY <1>2, <1>8, <2>1 DEF Enqueue, Advance, TxType, k
  <2> QED
    BY <1>1, <1>4, <2>1, <2>2, <2>3, OwnStep
       DEF WriterInv, OwnsWhatIsNew, OneWriterPerKey, DrawnSequences, Owns, Open, k
<1> QED
    BY <1>5, <1>6, <1>7, <1>8

\* What is in a transaction that commits: a new key's three rows, or none.
LEMMA CommitEffect ==
    ASSUME WriterInv, NEW p \in Process, Commit(p)
    PROVE  /\ tx[p].key \in Key /\ tx[p].hash \in Hash
           /\ Fresh(p) => /\ inbox' = [inbox EXCEPT ![tx[p].key] = tx[p].hash]
                          /\ facts' = [facts EXCEPT ![tx[p].key] = tx[p].seq]
                          /\ outbox' = [outbox EXCEPT ![tx[p].key] =
                                          [seq |-> tx[p].outSeq, status |-> "PENDING"]]
                          /\ tx[p].outSeq # 0 /\ tx[p].seq # 0
                          /\ Owns(p, "fact") /\ Owns(p, "inbox")
           /\ ~Fresh(p) => UNCHANGED <<inbox, facts, outbox>> /\ ~Owns(p, "fact")
           /\ checkpoint' = tx[p].seq
           /\ tx' = [tx EXCEPT ![p] = IdleTx]
<1>1. tx[p].step = "commit" /\ tx[p].key \in Key /\ tx[p].hash \in Hash
    BY DEF Commit, At, WriterInv, TypeOK
<1>2. /\ "inbox" \in tx[p].own <=> Fresh(p)
      /\ "fact" \in tx[p].own <=> Fresh(p)
      /\ "outbox" \in tx[p].own <=> Fresh(p)
    BY <1>1 DEF WriterInv, OwnsWhatIsNew, Owns, Open
<1> QED
    BY <1>1, <1>2 DEF Commit, WriterInv, DrawnSequences, Owns

\* COMMIT makes inbox record, fact and message of the key visible together.
LEMMA CommitInv ==
    ASSUME WriterInv, TypeOK', NEW p \in Process, Commit(p)
    PROVE  WriterInv'
<1> DEFINE k == tx[p].key
<1>0. /\ tx' = [tx EXCEPT ![p] = IdleTx]
      /\ tx \in [Process -> TxType] /\ inbox \in [Key -> Hash \cup {NoHash}]
      /\ DOMAIN facts = Key /\ DOMAIN outbox = Key
    BY CommitEffect DEF WriterInv, TypeOK
<1>1. \A q \in Process \ {p} : tx'[q] = tx[q]
    BY <1>0
<1>2. tx'[p] = IdleTx
    BY <1>0
<1>3. CASE ~Fresh(p)
  <2>1. UNCHANGED <<inbox, facts, outbox>>
    BY <1>3, CommitEffect
  <2> QED
    BY <1>1, <1>2, <2>1 DEF WriterInv, OwnsWhatIsNew, OneWriterPerKey, DrawnSequences,
       InputAtomic, Owns, Open, Fresh, IdleTx
<1>4. CASE Fresh(p)
  <2>1. k \in Key /\ tx[p].hash # NoHash
    BY CommitEffect, WriterConstants
  <2>2. \A j \in Key : /\ inbox'[j] = IF j = k THEN tx[p].hash ELSE inbox[j]
                       /\ facts'[j] = IF j = k THEN tx[p].seq ELSE facts[j]
                       /\ outbox'[j] = IF j = k THEN [seq |-> tx[p].outSeq, status |-> "PENDING"]
                                       ELSE outbox[j]
    BY <1>0, <1>4, CommitEffect
  <2>3. InputAtomic'
    BY <1>4, <2>1, <2>2, CommitEffect DEF WriterInv, InputAtomic, NoRecord
  <2>4. ASSUME NEW q \in Process \ {p}, Open(q)
        PROVE  tx[q].key \in Key /\ tx[q].key # k
    BY <1>4, <2>4, CommitEffect
       DEF WriterInv, TypeOK, OwnsWhatIsNew, OneWriterPerKey, Owns, Open, Fresh
  <2>5. \A q \in Process : Open(q)' => q # p /\ Open(q) /\ (Fresh(q)' <=> Fresh(q))
    BY <1>1, <1>2, <2>2, <2>4 DEF Open, Fresh, IdleTx
  <2>6. \A q \in Process, t \in Tables : Owns(q, t)' => q # p /\ Owns(q, t)
    BY <1>1, <1>2 DEF Owns, IdleTx
  <2>7. OwnsWhatIsNew'
    BY <1>1, <1>2, <2>5 DEF WriterInv, OwnsWhatIsNew, Owns, Open, IdleTx
  <2>8. OneWriterPerKey' /\ DrawnSequences'
    BY <1>1, <1>2 DEF WriterInv, OneWriterPerKey, DrawnSequences, Owns, IdleTx
  <2> QED
    BY <2>3, <2>7, <2>8 DEF WriterInv
<1> QED
    BY <1>3, <1>4

\* Every step keeps the writers' invariant.
LEMMA WriterInvStep ==
    ASSUME Inv, [Next]_vars
    PROVE  WriterInv'
<1> USE DEF Inv
<1>1. TypeOK /\ TypeOK'
    BY TypeStep DEF WriterInv
<1>2. ASSUME NEW p \in Process, WriterStep(p)
      PROVE  WriterInv'
  <2>1. CASE InsertInbox(p) \/ PlanSequence(p) \/ AppendFact(p) \/ Enqueue(p)
    BY <1>1, <2>1, StatementInv
  <2>2. CASE Commit(p)
    BY <1>1, <2>2, CommitInv
  <2>3. ASSUME tx' = [tx EXCEPT ![p] = tx'[p]], UNCHANGED <<inbox, facts, outbox>>,
               tx'[p].own = {}, tx'[p].step \in {"idle", "insert", "conflict"}
        PROVE  WriterInv'
    BY <1>1, <2>3, OwnStep DEF Owns, Open
  <2>4. ASSUME NEW d \in Deliveries, Accept(p, d[1], d[2])
        PROVE  WriterInv'
    BY <1>1, <2>3, <2>4 DEF Accept, IdleTx, TypeOK, storeVars
  <2>5. CASE RecordConflict(p) \/ Abort(p) \/ Crash(p)
    BY <1>1, <2>3, <2>5 DEF RecordConflict, Abort, Crash, IdleTx, TypeOK, storeVars
  <2> QED
    BY <1>2, <2>1, <2>2, <2>4, <2>5 DEF WriterStep
<1>3. ASSUME UNCHANGED <<tx, inbox, facts>>,
             \A k \in Key : outbox'[k] = NoRecord <=> outbox[k] = NoRecord
      PROVE  WriterInv'
    BY <1>1, <1>3 DEF WriterInv, OwnsWhatIsNew, OneWriterPerKey, DrawnSequences,
       InputAtomic, Owns, Open, Fresh
<1>4. ASSUME NEW u \in Publisher, PublisherStep(u)
      PROVE  WriterInv'
  <2>1. CASE CommitMarks(u)
    <3>1. \A k \in marked[u] : k \in Key /\ outbox[k] # NoRecord
      BY <1>1 DEF PublisherBatches, PublishedWasDelivered, TypeOK
    <3>2. \A k \in Key : outbox'[k] = IF k \in marked[u]
                                      THEN [outbox[k] EXCEPT !.status = "PUBLISHED"]
                                      ELSE outbox[k]
      BY <2>1 DEF CommitMarks
    <3>3. \A k \in marked[u] : outbox'[k] # NoRecord
      BY <1>1, <3>1, <3>2 DEF NoRecord, TypeOK
    <3> QED
      BY <1>3, <2>1, <3>1, <3>2, <3>3 DEF CommitMarks
  <2>2. CASE Fetch(u) \/ HandOver(u) \/ Mark(u) \/ PublishFails(u)
    BY <1>3, <2>2 DEF Fetch, HandOver, Mark, PublishFails, storeVars
  <2> QED
    BY <1>4, <2>1, <2>2 DEF PublisherStep
<1>5. CASE LeaseStep
    BY <1>3, <1>5 DEF LeaseStep, storeVars
<1>6. CASE UNCHANGED vars
    BY <1>3, <1>6 DEF vars, storeVars
<1> QED
    BY <1>2, <1>4, <1>5, <1>6 DEF Next

\* No step takes an accepted row or a message away, or gives one a new content.
LEMMA RowsStay ==
    ASSUME Inv, NEW p \in Process, WriterStep(p)
    PROVE  /\ \A k \in Key : inbox[k] # NoHash => inbox'[k] = inbox[k]
           /\ \A k \in Key : \/ outbox'[k] = outbox[k]
                             \/ /\ outbox[k] = NoRecord /\ outbox'[k] # NoRecord
                                /\ outbox'[k].status = "PENDING"
           /\ UNCHANGED pubVars
<1>1. CASE Commit(p)
  <2>1. Fresh(p) =>
          /\ inbox' = [inbox EXCEPT ![tx[p].key] = tx[p].hash]
          /\ outbox' = [outbox EXCEPT ![tx[p].key] = [seq |-> tx[p].outSeq, status |-> "PENDING"]]
          /\ tx[p].outSeq # 0
    BY <1>1, CommitEffect DEF Inv
  <2>2. ~Fresh(p) => UNCHANGED <<inbox, outbox>>
    BY <1>1, CommitEffect DEF Inv
  <2>3. /\ tx[p].key \in Key /\ DOMAIN inbox = Key /\ DOMAIN outbox = Key
        /\ Fresh(p) => outbox[tx[p].key] = NoRecord
    BY <1>1, CommitEffect DEF Inv, WriterInv, InputAtomic, Fresh, TypeOK
  <2> QED
    BY <1>1, <2>1, <2>2, <2>3 DEF Fresh, NoRecord, Commit, pubVars
<1>2. CASE ~Commit(p)
    BY <1>2 DEF WriterStep, Accept, RecordConflict, InsertInbox, PlanSequence, AppendFact,
                Enqueue, Abort, Crash, storeVars, pubVars
<1> QED
    BY <1>1, <1>2

\* Every step finds and records conflicts only beside an accepted content.
LEMMA ConflictInvStep ==
    ASSUME Inv, [Next]_vars
    PROVE  ConflictInv'
<1> USE DEF Inv
<1>1. TypeOK
    BY DEF WriterInv
<1>2. ASSUME NEW p \in Process, WriterStep(p)
      PROVE  ConflictInv'
  <2>1. \A k \in Key : inbox[k] # NoHash => inbox'[k] # NoHash
    BY <1>2, RowsStay
  <2>2. \A q \in Process \ {p} : tx'[q] = tx[q]
    BY <1>1, <1>2, StatementSteps DEF WriterStep, Statement, Accept, RecordConflict, Commit, Abort,
       Crash, TypeOK
  <2>3. conflicts \subseteq Key /\ \A q \in Process : tx[q].step = "conflict" => tx[q].key \in Key
    BY <1>1 DEF TypeOK
  <2>4. ASSUME tx'[p].step # "conflict", UNCHANGED conflicts
        PROVE  ConflictInv'
    BY <2>1, <2>2, <2>3, <2>4 DEF ConflictInv
  <2>5. CASE InsertInbox(p) \/ PlanSequence(p) \/ AppendFact(p) \/ Enqueue(p)
    <3>1. tx'[p].step \in {"sequence", "append", "enqueue", "commit"}
      BY <1>1, <2>5
         DEF InsertInbox, PlanSequence, AppendFact, Enqueue, Advance, TypeOK, TxType
    <3>2. UNCHANGED conflicts
      BY <2>5 DEF InsertInbox, PlanSequence, AppendFact, Enqueue, storeVars
    <3> QED
      BY <2>4, <3>1, <3>2
  <2>6. CASE Commit(p) \/ Abort(p) \/ Crash(p)
    BY <1>1, <2>4, <2>6 DEF Commit, Abort, Crash, IdleTx, TypeOK, storeVars
  <2>7. CASE RecordConflict(p)
    <3>1. /\ inbox' = inbox /\ conflicts' = conflicts \cup {tx[p].key}
          /\ tx'[p].step = "idle" /\ tx[p].step = "conflict"
      BY <1>1, <2>7 DEF RecordConflict, At, IdleTx, TypeOK
    <3> QED
      BY <2>2, <2>3, <3>1 DEF ConflictInv
  <2>8. ASSUME NEW d \in Deliveries, Accept(p, d[1], d[2])
        PROVE  ConflictInv'
    <3>1. /\ inbox' = inbox /\ conflicts' = conflicts
          /\ tx'[p].step = "conflict" => inbox[tx'[p].key] # NoHash
      BY <1>1, <2>8 DEF Accept, IdleTx, TypeOK, storeVars
    <3> QED
      BY <2>2, <2>3, <3>1 DEF ConflictInv
  <2> QED
    BY <1>2, <2>5, <2>6, <2>7, <2>8 DEF WriterStep
<1>3. ASSUME UNCHANGED <<tx, inbox, conflicts>>
      PROVE  ConflictInv'
    BY <1>3 DEF ConflictInv
<1>4. ASSUME NEW u \in Publisher, PublisherStep(u)
      PROVE  UNCHANGED <<tx, inbox, conflicts>>
    BY <1>4 DEF PublisherStep, Fetch, HandOver, Mark, CommitMarks, PublishFails, storeVars
<1> QED
    BY <1>2, <1>3, <1>4 DEF Next, LeaseStep, vars, storeVars

\* Every step keeps what publishers hold committed and what they marked handed over.
LEMMA PublisherInvStep ==
    ASSUME Inv, [Next]_vars
    PROVE  PublisherBatches' /\ PublishedWasDelivered'
<1> DEFINE PI == PublisherBatches /\ PublishedWasDelivered
<1>1. TypeOK /\ TypeOK' /\ PI
    BY TypeStep DEF Inv, WriterInv
<1>2. ASSUME NEW p \in Process, WriterStep(p)
      PROVE  PI'
  <2>1. UNCHANGED <<batch, marked, handed, delivered>>
    BY <1>2, RowsStay DEF pubVars
  <2>2. \A k \in Key : outbox[k] # NoRecord => outbox'[k] # NoRecord
    BY <1>2, RowsStay
  <2>3. \A k \in Key : outbox'[k].status = "PUBLISHED" => outbox[k].status = "PUBLISHED"
    BY <1>2, RowsStay
  <2>4. \A u \in Publisher : \A i \in 1 .. Len(batch[u]) : batch[u][i] \in Key
    BY <1>1 DEF TypeOK
  <2>5. delivered \subseteq Key
    BY <1>1 DEF TypeOK
  <2> QED
    BY <1>1, <2>1, <2>2, <2>3, <2>4, <2>5 DEF PublisherBatches, PublishedWasDelivered
<1>3. ASSUME UNCHANGED <<outbox, pubVars>>
      PROVE  PI'
    BY <1>1, <1>3 DEF PublisherBatches, PublishedWasDelivered, pubVars
<1>4. ASSUME NEW u \in Publisher, Fetch(u)
      PROVE  PI'
  <2>1. PICK n \in 1 .. BatchSize : \E rows \in [1 .. n -> Pending] :
            batch' = [batch EXCEPT ![u] = rows]
    BY <1>4 DEF Fetch
  <2>2. \A i \in 1 .. Len(batch'[u]) : batch'[u][i] \in Pending
    BY <1>1, <2>1, WriterConstants DEF TypeOK
  <2>3. handed[u] = FALSE
    BY <1>1, <1>4 DEF Fetch, PublisherBatches, TypeOK
  <2> QED
    BY <1>1, <1>4, <2>1, <2>2, <2>3
       DEF Fetch, PublisherBatches, PublishedWasDelivered, Pending, NoRecord, storeVars, TypeOK
<1>5. ASSUME NEW u \in Publisher, HandOver(u)
      PROVE  PI'
  <2>1. Head(batch[u]) = batch[u][1] /\ 1 \in 1 .. Len(batch[u])
    BY <1>1, <1>5 DEF HandOver, TypeOK
  <2> QED
    BY <1>1, <1>5, <2>1
       DEF HandOver, PublisherBatches, PublishedWasDelivered, storeVars, TypeOK
<1>6. ASSUME NEW u \in Publisher, Mark(u)
      PROVE  PI'
  <2>1. \A i \in 1 .. Len(Tail(batch[u])) :
            Tail(batch[u])[i] = batch[u][i + 1] /\ i + 1 \in 1 .. Len(batch[u])
    BY <1>1, <1>6 DEF Mark, TypeOK
  <2>2. Head(batch[u]) \in delivered
    BY <1>1, <1>6 DEF Mark, PublisherBatches
  <2> QED
    BY <1>1, <1>6, <2>1, <2>2
       DEF Mark, PublisherBatches, PublishedWasDelivered, storeVars, TypeOK
<1>7. ASSUME NEW u \in Publisher, CommitMarks(u)
      PROVE  PI'
  <2>1. marked[u] \subseteq delivered /\ delivered \subseteq Key
    BY <1>1 DEF PublisherBatches, TypeOK
  <2>2. \A k \in Key : outbox'[k] = IF k \in marked[u]
                                    THEN [outbox[k] EXCEPT !.status = "PUBLISHED"]
                                    ELSE outbox[k]
    BY <1>7 DEF CommitMarks
  <2>3. \A k \in Key : outbox[k] # NoRecord => outbox'[k] # NoRecord
    <3> SUFFICES ASSUME NEW k \in Key, outbox[k] # NoRecord
                 PROVE  outbox'[k] # NoRecord
        OBVIOUS
    <3>1. CASE k \in marked[u]
      <4>1. outbox'[k].status = "PUBLISHED"
        BY <1>1, <2>2, <3>1 DEF TypeOK
      <4> QED
        BY <4>1 DEF NoRecord
    <3>2. CASE k \notin marked[u]
      BY <2>2, <3>2
    <3> QED
      BY <3>1, <3>2
  <2>4. PublishedWasDelivered'
    BY <1>1, <1>7, <2>1, <2>2, <2>3 DEF CommitMarks, PublishedWasDelivered
  <2>5. \A v \in Publisher : \A i \in 1 .. Len(batch[v]) : batch[v][i] \in Key
    BY <1>1 DEF TypeOK
  <2>6. PublisherBatches'
    BY <1>1, <1>7, <2>1, <2>3, <2>5 DEF CommitMarks, PublisherBatches, TypeOK
  <2> QED
    BY <2>4, <2>6
<1>8. ASSUME NEW u \in Publisher, PublishFails(u)
      PROVE  PI'
    BY <1>1, <1>8 DEF PublishFails, PublisherBatches, PublishedWasDelivered, storeVars, TypeOK
<1> QED
    BY <1>2, <1>3, <1>4, <1>5, <1>6, <1>7, <1>8
       DEF Next, LeaseStep, PublisherStep, vars, storeVars

\* The writers' and publishers' invariants hold in every reachable state.
THEOREM InvCorrect == Spec => []Inv
<1>1. Init => Inv
    BY WriterInvInit DEF Inv, Init, PublisherBatches, PublishedWasDelivered, ConflictInv,
       IdleTx, NoRecord
<1>2. Inv /\ [Next]_vars => Inv'
    BY WriterInvStep, PublisherInvStep, ConflictInvStep DEF Inv
<1> QED
    BY <1>1, <1>2, PTL DEF Spec

\* An input's inbox record, fact and message exist together or not at all.
THEOREM InputsAreAtomic == Spec => []InputAtomic
<1>1. Inv => InputAtomic
    BY DEF Inv, WriterInv
<1> QED
    BY <1>1, InvCorrect, PTL

\* A message is marked PUBLISHED only after its callback returned.
THEOREM AtLeastOnce == Spec => []PublishedWasDelivered
<1>1. Inv => PublishedWasDelivered
    BY DEF Inv
<1> QED
    BY <1>1, InvCorrect, PTL

\* The content accepted first stays the key's content, whatever is delivered.
THEOREM FirstContentStays == Spec => AcceptedContentStays
<1> DEFINE Stays == /\ \A k \in Key : inbox[k] # NoHash => inbox'[k] = inbox[k]
                    /\ \A k \in conflicts' : inbox'[k] # NoHash
<1>1. Inv /\ Inv' /\ [Next]_vars => [Stays]_vars
  <2> SUFFICES ASSUME Inv, Inv', Next
               PROVE  Stays
      BY DEF Inv
  <2>1. \A k \in conflicts' : inbox'[k] # NoHash
    BY DEF Inv, ConflictInv
  <2>2. \A k \in Key : inbox[k] # NoHash => inbox'[k] = inbox[k]
    BY RowsStay DEF Next, LeaseStep, PublisherStep, Fetch, HandOver, Mark, CommitMarks,
       PublishFails, storeVars
  <2> QED
    BY <2>1, <2>2
<1> QED
    BY <1>1, InvCorrect, PTL DEF Spec, AcceptedContentStays

-----------------------------------------------------------------------------
(* Delivery sequences.                                                     *)

\* Committing the next sequence makes it the latest.
LEMMA LatestAdvances ==
    ASSUME NEW f \in [Key -> Nat], NEW k \in Key,
           NEW g, g = [f EXCEPT ![k] = MaxSeq(f) + 1]
    PROVE  MaxSeq(g) = MaxSeq(f) + 1
<1>1. MaxSeq(f) \in Nat /\ \A j \in Key : f[j] <= MaxSeq(f)
    BY LatestIsMax
<1>2. g \in [Key -> Nat]
    BY <1>1
<1>3. g[k] = MaxSeq(f) + 1 /\ \A j \in Key : g[j] <= MaxSeq(f) + 1
    BY <1>1, <1>2
<1>4. /\ MaxSeq(g) \in Nat
      /\ MaxSeq(g) = 0 \/ \E j \in Key : g[j] = MaxSeq(g)
      /\ \A j \in Key : g[j] <= MaxSeq(g)
    BY <1>2, LatestIsMax
<1>5. MaxSeq(f) + 1 <= MaxSeq(g)
    BY <1>3, <1>4
<1>6. MaxSeq(g) <= MaxSeq(f) + 1
  <2>1. CASE MaxSeq(g) = 0
    BY <1>1, <2>1
  <2>2. ASSUME NEW j \in Key, g[j] = MaxSeq(g)
        PROVE  MaxSeq(g) <= MaxSeq(f) + 1
    <3>1. g[j] <= MaxSeq(f) + 1
      BY <1>3
    <3> QED
      BY <2>2, <3>1
  <2> QED
    BY <1>4, <2>1, <2>2
<1> QED
    BY <1>1, <1>4, <1>5, <1>6

\* p's transaction alone changes and nothing is committed.
LEMMA PlannedStep ==
    ASSUME Inv, SequenceInv, Inv', NEW p \in Process,
           tx' = [tx EXCEPT ![p] = tx'[p]],
           UNCHANGED <<facts, checkpoint>>,
           tx'[p].step \in {"append", "enqueue", "commit"} =>
              1 <= tx'[p].seq /\ tx'[p].seq <= LatestDelivery + 1,
           Owns(p, "fact")' => tx'[p].seq = LatestDelivery + 1,
           tx'[p].step \in {"enqueue", "commit"} /\ ~Owns(p, "fact")' =>
              tx'[p].seq <= LatestDelivery,
           Owns(p, "fact")' => \A q \in Process \ {p} : ~Owns(q, "fact")
    PROVE  SequenceInv'
<1>1. \A q \in Process \ {p} : tx'[q] = tx[q]
    BY DEF Inv, WriterInv, TypeOK
<1>2. LatestDelivery' = LatestDelivery
    BY DEF LatestDelivery
<1>3. PlannedSequences'
    BY <1>1, <1>2 DEF SequenceInv, PlannedSequences, Owns
<1>4. DeliverySequenceDense' /\ CheckpointCovered'
    BY <1>2 DEF SequenceInv, DeliverySequenceDense, CheckpointCovered
<1> QED
    BY <1>3, <1>4 DEF SequenceInv

\* A statement before COMMIT plans and takes sequences as PlannedSequences says.
LEMMA StatementPlanned ==
    ASSUME Inv, SequenceInv, Inv', NEW p \in Process,
           InsertInbox(p) \/ PlanSequence(p) \/ AppendFact(p) \/ Enqueue(p)
    PROVE  SequenceInv'
<1> DEFINE k == tx[p].key
           L == LatestDelivery
<1>1. tx' = [tx EXCEPT ![p] = tx'[p]] /\ UNCHANGED <<facts, checkpoint>>
    BY StatementSteps DEF Inv, WriterInv, Statement, storeVars
<1>2. tx \in [Process -> TxType] /\ tx[p] \in TxType /\ facts \in [Key -> Nat]
    BY DEF Inv, WriterInv, TypeOK
<1>3. L \in Nat /\ \A j \in Key : facts[j] \in Nat /\ facts[j] <= L
    BY <1>2, LatestIsMax DEF LatestDelivery, MaxSeq
<1>4. tx[p].step # "idle" => k \in Key
    BY DEF Inv, WriterInv, TypeOK
<1> HIDE DEF L, k
<1>5. CASE InsertInbox(p)
  <2>1. tx'[p].step = "sequence" /\ ~Owns(p, "fact")'
    BY <1>2, <1>5 DEF InsertInbox, At, Advance, TxType, Inv, WriterInv, OwnsWhatIsNew, Owns
  <2> QED
    BY <1>1, <2>1, PlannedStep
<1>6. CASE PlanSequence(p)
  <2>1. /\ tx'[p].step = "append" /\ tx'[p].seq = L + 1
        /\ tx[p].step = "sequence" /\ tx'[p].own = tx[p].own
    BY <1>2, <1>6 DEF PlanSequence, At, TxType, L
  <2>2. ~Owns(p, "fact")'
    BY <2>1 DEF Inv, WriterInv, OwnsWhatIsNew, Owns
  <2> QED
    BY <1>1, <1>3, <2>1, <2>2, PlannedStep DEF L
<1>7. CASE AppendFact(p)
  <2>1. tx[p].step = "append" /\ k \in Key
    BY <1>4, <1>7 DEF AppendFact, At
  <2>2. 1 <= tx[p].seq /\ tx[p].seq <= L + 1 /\ tx[p].seq \in Nat
    BY <1>2, <2>1 DEF SequenceInv, PlannedSequences, TxType, L
  <2>3. CASE facts[k] # 0
    <3>1. /\ tx'[p].step = "enqueue" /\ tx'[p].seq = facts[k]
          /\ tx'[p].own = tx[p].own
      BY <1>2, <1>7, <2>3 DEF AppendFact, TxType, k
    <3>2. ~Owns(p, "fact")'
      BY <2>1, <3>1 DEF Inv, WriterInv, OwnsWhatIsNew, Owns
    <3> QED
      BY <1>1, <1>3, <2>1, <2>3, <3>1, <3>2, PlannedStep DEF L
  <2>4. CASE facts[k] = 0
    <3>1. SequenceFree(p) /\ Advance(p, "enqueue", {"fact"})
      BY <1>7, <2>4 DEF AppendFact, k
    <3>2. tx'[p].step = "enqueue" /\ tx'[p].seq = tx[p].seq /\ Owns(p, "fact")'
      BY <1>2, <3>1 DEF Advance, TxType, Owns
    <3>3. tx[p].seq = L + 1
      <4> SUFFICES ASSUME tx[p].seq <= L
                   PROVE  FALSE
          BY <1>3, <2>2
      <4>1. PICK j \in Key : facts[j] = L
        BY <1>2, <1>3, <2>2, LatestIsMax DEF L, LatestDelivery, MaxSeq
      <4>2. tx[p].seq \in 1 .. facts[j]
        BY <1>3, <2>2, <4>1
      <4>3. \E i \in Key : facts[i] = tx[p].seq
        BY <4>2 DEF SequenceInv, DeliverySequenceDense
      <4> QED
        BY <3>1, <4>3 DEF SequenceFree
    <3>4. ASSUME NEW q \in Process \ {p}, Owns(q, "fact")
          PROVE  FALSE
      <4>1. tx[q].seq = L + 1
        BY <3>4 DEF SequenceInv, PlannedSequences, L
      <4> QED
        BY <3>1, <3>3, <3>4, <4>1 DEF SequenceFree, Owns
    <3> QED
      BY <1>1, <1>3, <3>2, <3>3, <3>4, PlannedStep DEF L
  <2> QED
    BY <2>3, <2>4
<1>8. CASE Enqueue(p)
  <2>1. /\ tx[p].step = "enqueue" /\ tx'[p].step = "commit" /\ tx'[p].seq = tx[p].seq
        /\ "fact" \in tx'[p].own <=> "fact" \in tx[p].own
    BY <1>2, <1>8 DEF Enqueue, At, Advance, TxType
  <2> QED
    BY <1>1, <2>1, PlannedStep DEF SequenceInv, PlannedSequences, Owns
<1> QED
    BY <1>5, <1>6, <1>7, <1>8

\* COMMIT adds the fact with the next sequence, or none.
LEMMA CommitPlanned ==
    ASSUME Inv, SequenceInv, Inv', NEW p \in Process, Commit(p)
    PROVE  SequenceInv'
<1> DEFINE k == tx[p].key
           L == LatestDelivery
<1>1. /\ tx' = [tx EXCEPT ![p] = IdleTx] /\ checkpoint' = tx[p].seq
      /\ k \in Key /\ tx[p].step = "commit"
      /\ Fresh(p) => facts' = [facts EXCEPT ![k] = tx[p].seq] /\ Owns(p, "fact")
      /\ ~Fresh(p) => facts' = facts /\ ~Owns(p, "fact")
    BY CommitEffect DEF Inv, Commit, At
<1>2. tx \in [Process -> TxType] /\ facts \in [Key -> Nat]
    BY DEF Inv, WriterInv, TypeOK
<1>3. \A q \in Process : tx'[q] = IF q = p THEN IdleTx ELSE tx[q]
    BY <1>1, <1>2
<1>4. L \in Nat /\ \A j \in Key : facts[j] \in Nat /\ facts[j] <= L
    BY <1>2, LatestIsMax DEF LatestDelivery, MaxSeq
<1>5. \A q \in Process : tx[q].seq \in Nat
    BY <1>2 DEF TxType
<1> HIDE DEF L, k
<1>6. CASE ~Fresh(p)
  <2>1. LatestDelivery' = L
    BY <1>1, <1>6 DEF LatestDelivery, L
  <2>2. tx[p].seq <= L
    BY <1>1, <1>6 DEF SequenceInv, PlannedSequences, L
  <2>3. PlannedSequences'
    BY <1>3, <2>1 DEF SequenceInv, PlannedSequences, Owns, IdleTx, L
  <2>4. DeliverySequenceDense' /\ CheckpointCovered'
    BY <1>1, <1>6, <2>1, <2>2 DEF SequenceInv, DeliverySequenceDense, CheckpointCovered
  <2> QED
    BY <2>3, <2>4 DEF SequenceInv
<1>7. CASE Fresh(p)
  <2>1. tx[p].seq = L + 1 /\ Owns(p, "fact")
    BY <1>1, <1>7 DEF SequenceInv, PlannedSequences, L
  <2>2. LatestDelivery' = L + 1
    <3>1. L = MaxSeq(facts) /\ LatestDelivery' = MaxSeq(facts')
      BY DEF L, LatestDelivery, MaxSeq
    <3>2. facts' = [facts EXCEPT ![k] = MaxSeq(facts) + 1]
      BY <1>1, <1>7, <2>1, <3>1
    <3> QED
      BY <1>1, <1>2, <3>1, <3>2, LatestAdvances
  <2>3. \A j \in Key : facts'[j] = IF j = k THEN L + 1 ELSE facts[j]
    BY <1>1, <1>2, <1>7, <2>1
  <2>4. \A q \in Process \ {p} : ~Owns(q, "fact")
    BY <2>1 DEF SequenceInv, PlannedSequences
  <2>5. PlannedSequences'
    BY <1>3, <1>4, <1>5, <2>2, <2>4 DEF SequenceInv, PlannedSequences, Owns, IdleTx, L
  <2>6. facts[k] = 0
    BY <1>1, <1>7 DEF Inv, WriterInv, InputAtomic, Fresh, k
  <2>7. DeliverySequenceDense'
    <3>1. \A i, j \in Key : facts'[i] = facts'[j] /\ facts'[i] # 0 => i = j
      BY <1>4, <2>3 DEF SequenceInv, DeliverySequenceDense
    <3>2. ASSUME NEW i \in 1 .. L
          PROVE  \E j \in Key : facts[j] = i
      <4>1. PICK j \in Key : facts[j] = L
        BY <1>2, <1>4, <3>2, LatestIsMax DEF L, LatestDelivery, MaxSeq
      <4> QED
        BY <3>2, <4>1 DEF SequenceInv, DeliverySequenceDense
    <3>3. ASSUME NEW j \in Key, NEW i \in 1 .. facts'[j]
          PROVE  \E m \in Key : facts'[m] = i
      <4>1. i \in Nat /\ 1 <= i /\ i <= L + 1
        BY <1>4, <2>3, <3>3
      <4>2. CASE i = L + 1
        BY <1>1, <2>3, <4>2
      <4>3. CASE i # L + 1
        <5>1. i \in 1 .. L
          BY <1>4, <4>1, <4>3
        <5>2. PICK m \in Key : facts[m] = i
          BY <3>2, <5>1
        <5> QED
          BY <2>3, <2>6, <4>1, <5>2
      <4> QED
        BY <4>2, <4>3
    <3> QED
      BY <3>1, <3>3 DEF DeliverySequenceDense
  <2>8. CheckpointCovered'
    BY <1>1, <1>4, <2>1, <2>2 DEF CheckpointCovered
  <2> QED
    BY <2>5, <2>7, <2>8 DEF SequenceInv
<1> QED
    BY <1>6, <1>7

\* Every step keeps the sequences dense and the checkpoint inside them.
LEMMA SequenceInvStep ==
    ASSUME Inv, SequenceInv, Inv', [Next]_vars
    PROVE  SequenceInv'
<1>1. TypeOK
    BY DEF Inv, WriterInv
<1>2. ASSUME NEW p \in Process, WriterStep(p)
      PROVE  SequenceInv'
  <2>1. ASSUME tx' = [tx EXCEPT ![p] = tx'[p]], UNCHANGED <<facts, checkpoint>>,
               tx'[p].own = {}, tx'[p].step \in {"idle", "insert", "conflict"}
        PROVE  SequenceInv'
    BY <2>1, PlannedStep DEF Owns
  <2>2. ASSUME NEW d \in Deliveries, Accept(p, d[1], d[2])
        PROVE  SequenceInv'
    BY <1>1, <2>1, <2>2 DEF Accept, IdleTx, TypeOK, storeVars
  <2>3. CASE RecordConflict(p) \/ Abort(p) \/ Crash(p)
    BY <1>1, <2>1, <2>3 DEF RecordConflict, Abort, Crash, IdleTx, TypeOK, storeVars
  <2> QED
    BY <1>2, <2>2, <2>3, StatementPlanned, CommitPlanned DEF WriterStep
<1>3. ASSUME UNCHANGED <<tx, facts, checkpoint>>
      PROVE  SequenceInv'
    BY <1>3 DEF SequenceInv, PlannedSequences, DeliverySequenceDense, CheckpointCovered,
       LatestDelivery, Owns
<1>4. ASSUME NEW u \in Publisher, PublisherStep(u)
      PROVE  UNCHANGED <<tx, facts, checkpoint>>
    BY <1>4 DEF PublisherStep, Fetch, HandOver, Mark, CommitMarks, PublishFails, storeVars
<1> QED
    BY <1>2, <1>3, <1>4 DEF Next, LeaseStep, vars, storeVars

\* Sequences are dense and the checkpoint covered in every reachable state.
LEMMA SequencesCorrect == Spec => []SequenceInv
<1>1. Init => SequenceInv
  <2> SUFFICES ASSUME Init
               PROVE  SequenceInv
      OBVIOUS
  <2>1. /\ \A k \in Key : facts[k] = 0
        /\ \A p \in Process : tx[p].step = "idle" /\ tx[p].own = {}
        /\ checkpoint = 0 /\ facts \in [Key -> Nat]
    BY DEF Init, IdleTx
  <2>2. LatestDelivery \in Nat
    BY <2>1, LatestIsMax DEF LatestDelivery, MaxSeq
  <2> QED
    BY <2>1, <2>2 DEF SequenceInv, PlannedSequences, DeliverySequenceDense, CheckpointCovered, Owns
<1> QED
    BY <1>1, SequenceInvStep, InvCorrect, PTL DEF Spec

\* A partition's delivery sequences are 1 .. n, each on one fact.
THEOREM SequencesAreDense == Spec => []DeliverySequenceDense
<1>1. SequenceInv => DeliverySequenceDense
    BY DEF SequenceInv
<1> QED
    BY <1>1, SequencesCorrect, PTL

\* The checkpoint never points past the committed facts.
THEOREM CheckpointIsCovered == Spec => []CheckpointCovered
<1>1. SequenceInv => CheckpointCovered
    BY DEF SequenceInv
<1> QED
    BY <1>1, SequencesCorrect, PTL

-----------------------------------------------------------------------------
(* The partition is an append-only log, handed over in its order.          *)

\* The outbox draws its sequences in the order the facts are committed in: the
\* unique delivery_sequence lets one transaction at a time hold a new fact.
OutboxFollowsFacts ==
    /\ \A k \in Key : facts[k] # 0 => outbox[k].seq # 0
    /\ \A j, k \in Key : facts[j] < facts[k] => outbox[j].seq < outbox[k].seq
    /\ \A p \in Process : Owns(p, "outbox") => \A k \in Key : outbox[k].seq < tx[p].outSeq

\* Whatever is older than a fetched message was handed over or comes before it
\* in the batch.
HandedOrAhead(u, k, i) == k \in delivered \/ \E j \in 1 .. i - 1 : batch[u][j] = k
BatchInOrder ==
    \A u \in Publisher : \A i \in 1 .. Len(batch[u]) : \A k \in Key :
        facts[k] # 0 /\ facts[k] < facts[batch[u][i]] => HandedOrAhead(u, k, i)

OrderInv == OutboxFollowsFacts /\ BatchInOrder

\* Only COMMIT writes a fact: that of a key that has none, with the next sequence.
FactCommitted(p) ==
    /\ Fresh(p) /\ tx[p].key \in Key /\ facts[tx[p].key] = 0
    /\ facts' = [facts EXCEPT ![tx[p].key] = LatestDelivery + 1]
    /\ checkpoint' = LatestDelivery + 1
    /\ outbox' = [outbox EXCEPT ![tx[p].key] = [seq |-> tx[p].outSeq, status |-> "PENDING"]]
    /\ Owns(p, "fact") /\ Owns(p, "outbox") /\ tx[p].outSeq # 0
    /\ tx' = [tx EXCEPT ![p] = IdleTx]
    /\ UNCHANGED pubVars

\* A COMMIT either adds a fact or only writes the checkpoint.
LEMMA CommitCases ==
    ASSUME Inv, SequenceInv, NEW p \in Process, Commit(p)
    PROVE  \/ FactCommitted(p)
           \/ /\ UNCHANGED <<facts, outbox, pubVars>>
              /\ checkpoint' = tx[p].seq /\ tx[p].seq \in 0 .. LatestDelivery
              /\ tx' = [tx EXCEPT ![p] = IdleTx]
<1>1. tx[p].step = "commit" /\ UNCHANGED pubVars
    BY DEF Commit, At
<1>2. tx[p].key \in Key
    BY CommitEffect DEF Inv
<1>3. CASE Fresh(p)
  <2>1. facts[tx[p].key] = 0
    BY <1>2, <1>3 DEF Inv, WriterInv, InputAtomic, Fresh
  <2>2. tx[p].seq = LatestDelivery + 1
    BY <1>3, CommitEffect DEF Inv, SequenceInv, PlannedSequences
  <2>3. Owns(p, "outbox")
    BY <1>1, <1>3 DEF Inv, WriterInv, OwnsWhatIsNew
  <2> QED
    BY <1>1, <1>2, <1>3, <2>1, <2>2, <2>3, CommitEffect DEF FactCommitted, Inv
<1>4. CASE ~Fresh(p)
  <2>1. tx[p].seq <= LatestDelivery
    BY <1>1, <1>4, CommitEffect DEF Inv, SequenceInv, PlannedSequences
  <2>2. tx[p].seq \in Nat /\ LatestDelivery \in Nat
    BY LatestIsMax DEF Inv, WriterInv, TypeOK, TxType, LatestDelivery, MaxSeq
  <2>3. facts' = facts /\ outbox' = outbox
    BY <1>4, CommitEffect DEF Inv
  <2>4. checkpoint' = tx[p].seq /\ tx' = [tx EXCEPT ![p] = IdleTx]
    BY CommitEffect DEF Inv
  <2>5. tx[p].seq \in 0 .. LatestDelivery
    BY <2>1, <2>2
  <2> QED
    BY <1>1, <2>3, <2>4, <2>5
<1> QED
    BY <1>3, <1>4

\* A writer's statement before COMMIT, rollback or crash writes no row, and draws
\* an outbox sequence that is new.
LEMMA OtherWriterSteps ==
    ASSUME Inv, NEW p \in Process, WriterStep(p), ~Commit(p)
    PROVE  /\ UNCHANGED <<facts, outbox, checkpoint, pubVars>>
           /\ \A q \in Process :
                 Owns(q, "outbox")' => \/ Owns(q, "outbox") /\ tx'[q].outSeq = tx[q].outSeq
                                       \/ tx'[q].outSeq = NextOutSeq
<1>1. tx \in [Process -> TxType]
    BY DEF Inv, WriterInv, TypeOK
<1>2. UNCHANGED <<facts, outbox, checkpoint, pubVars>>
    BY DEF WriterStep, Accept, RecordConflict, InsertInbox, PlanSequence, AppendFact, Enqueue,
       Abort, Crash, storeVars, pubVars
<1> DEFINE Draws(q) == Owns(q, "outbox")' => \/ Owns(q, "outbox") /\ tx'[q].outSeq = tx[q].outSeq
                                             \/ tx'[q].outSeq = NextOutSeq
<1>3. \A q \in Process \ {p} : tx'[q] = tx[q]
    BY <1>1, StatementSteps DEF WriterStep, Statement, Accept, RecordConflict, Abort, Crash, Inv,
       WriterInv
<1>4. Draws(p)
  <2>1. ASSUME tx'[p].own = {}
        PROVE  Draws(p)
    BY <2>1 DEF Owns
  <2>2. ASSUME NEW d \in Deliveries, Accept(p, d[1], d[2])
        PROVE  Draws(p)
    BY <1>1, <2>1, <2>2 DEF Accept, IdleTx
  <2>3. CASE RecordConflict(p) \/ Abort(p) \/ Crash(p)
    BY <1>1, <2>1, <2>3 DEF RecordConflict, Abort, Crash, IdleTx
  <2>4. CASE InsertInbox(p)
    BY <1>1, <2>4 DEF InsertInbox, Advance, Owns, TxType
  <2>5. CASE PlanSequence(p)
    BY <1>1, <2>5 DEF PlanSequence, Owns, TxType
  <2>6. CASE AppendFact(p)
    BY <1>1, <2>6 DEF AppendFact, Advance, Owns, TxType
  <2>7. CASE Enqueue(p)
    BY <1>1, <2>7 DEF Enqueue, Advance, Owns, TxType
  <2> QED
    BY <2>2, <2>3, <2>4, <2>5, <2>6, <2>7 DEF WriterStep
<1> QED
    BY <1>2, <1>3, <1>4 DEF Owns

\* Every step keeps the outbox in the order of the facts.
LEMMA OutboxFollowsFactsStep ==
    ASSUME Inv, SequenceInv, OutboxFollowsFacts, [Next]_vars
    PROVE  OutboxFollowsFacts'
<1>1. /\ facts \in [Key -> Nat] /\ tx \in [Process -> TxType]
      /\ outbox \in [Key -> [seq : Nat, status : {"PENDING", "PUBLISHED"}]]
    BY DEF Inv, WriterInv, TypeOK
<1>2. LatestDelivery \in Nat /\ \A k \in Key : facts[k] <= LatestDelivery
    BY <1>1, LatestIsMax DEF LatestDelivery, MaxSeq
<1>3. \A k \in Key : facts[k] \in Nat /\ outbox[k].seq \in Nat
    BY <1>1
<1>4. \A k \in Key : facts[k] = 0 => outbox[k].seq = 0
    BY DEF Inv, WriterInv, InputAtomic, NoRecord
<1>5. ASSUME NEW p \in Process, Commit(p)
      PROVE  OutboxFollowsFacts'
  <2>1. CASE FactCommitted(p)
    <3> DEFINE k == tx[p].key
               n == tx[p].outSeq
    <3>1. /\ k \in Key /\ n \in Nat /\ n # 0
          /\ facts[k] = 0
          /\ \A j \in Key : facts'[j] = IF j = k THEN LatestDelivery + 1 ELSE facts[j]
          /\ \A j \in Key : outbox'[j].seq = IF j = k THEN n ELSE outbox[j].seq
      BY <1>1, <2>1 DEF FactCommitted, TxType
    <3>2. \A j \in Key : outbox[j].seq < n
      BY <2>1 DEF FactCommitted, OutboxFollowsFacts
    <3>3. \A q \in Process : ~Owns(q, "outbox")'
      <4>1. \A q \in Process \ {p} : tx'[q] = tx[q] /\ tx'[p].own = {}
        BY <1>1, <2>1 DEF FactCommitted, IdleTx
      <4>2. ASSUME NEW q \in Process \ {p}, Owns(q, "outbox")
            PROVE  FALSE
        <5>1. Owns(q, "fact") /\ Owns(p, "fact")
          BY <2>1, <4>2 DEF FactCommitted, Inv, WriterInv, OwnsWhatIsNew
        <5> QED
          BY <4>2, <5>1 DEF SequenceInv, PlannedSequences
      <4>3. tx'[p].own = {}
        BY <1>1, <2>1 DEF FactCommitted, IdleTx
      <4> QED
        BY <4>1, <4>2, <4>3 DEF Owns
    <3> HIDE DEF k, n
    <3>4. \A j \in Key : facts'[j] # 0 => outbox'[j].seq # 0
      BY <3>1 DEF OutboxFollowsFacts
    <3>5. \A i, j \in Key : facts'[i] < facts'[j] => outbox'[i].seq < outbox'[j].seq
      <4> SUFFICES ASSUME NEW i \in Key, NEW j \in Key, facts'[i] < facts'[j]
                   PROVE  outbox'[i].seq < outbox'[j].seq
          OBVIOUS
      <4>1. CASE j = k
        BY <1>2, <1>3, <3>1, <3>2, <4>1
      <4>2. CASE j # k
        <5>1. i # k
          BY <1>2, <1>3, <3>1, <4>2
        <5> QED
          BY <3>1, <4>2, <5>1 DEF OutboxFollowsFacts
      <4> QED
        BY <4>1, <4>2
    <3> QED
      BY <3>3, <3>4, <3>5 DEF OutboxFollowsFacts
  <2>2. CASE /\ UNCHANGED <<facts, outbox>>
             /\ tx' = [tx EXCEPT ![p] = IdleTx]
    BY <1>1, <2>2 DEF OutboxFollowsFacts, Owns, IdleTx
  <2> QED
    BY <1>5, <2>1, <2>2, CommitCases
<1>6. ASSUME NEW p \in Process, WriterStep(p), ~Commit(p)
      PROVE  OutboxFollowsFacts'
  <2>1. \A k \in Key : outbox[k].seq < NextOutSeq
    BY <1>6, NextOutSeqIsNew DEF Inv, WriterInv
  <2> QED
    BY <1>6, <2>1, OtherWriterSteps DEF OutboxFollowsFacts
<1>7. ASSUME UNCHANGED <<facts, tx>>, \A k \in Key : outbox'[k].seq = outbox[k].seq
      PROVE  OutboxFollowsFacts'
    BY <1>7 DEF OutboxFollowsFacts, Owns
<1>8. ASSUME NEW u \in Publisher, PublisherStep(u)
      PROVE  UNCHANGED <<facts, tx>> /\ \A k \in Key : outbox'[k].seq = outbox[k].seq
    BY <1>1, <1>8 DEF PublisherStep, Fetch, HandOver, Mark, CommitMarks, PublishFails, storeVars
<1> QED
    BY <1>5, <1>6, <1>7, <1>8 DEF Next, LeaseStep, vars, storeVars

\* Every step keeps what precedes a fetched message handed over or ahead of it.
LEMMA BatchInOrderStep ==
    ASSUME Inv, SequenceInv, OrderInv, Inv', [Next]_vars
    PROVE  BatchInOrder'
<1>1. /\ facts \in [Key -> Nat] /\ batch \in [Publisher -> Seq(Key)] /\ delivered \subseteq Key
      /\ batch' \in [Publisher -> Seq(Key)]
    BY DEF Inv, WriterInv, TypeOK
<1>2. \A u \in Publisher : \A i \in 1 .. Len(batch[u]) : batch[u][i] \in Key /\ facts[batch[u][i]] # 0
    BY <1>1 DEF Inv, WriterInv, InputAtomic, PublisherBatches
<1>3. ASSUME NEW p \in Process, WriterStep(p)
      PROVE  BatchInOrder'
  <2>1. CASE UNCHANGED <<facts, pubVars>>
    BY <2>1 DEF OrderInv, BatchInOrder, HandedOrAhead, pubVars
  <2>2. CASE FactCommitted(p)
    <3> DEFINE k == tx[p].key
    <3>0. LatestDelivery \in Nat /\ \A j \in Key : facts[j] \in Nat /\ facts[j] <= LatestDelivery
      BY <1>1, LatestIsMax DEF LatestDelivery, MaxSeq
    <3>1. /\ k \in Key /\ facts[k] = 0
          /\ facts' = [facts EXCEPT ![k] = LatestDelivery + 1]
          /\ batch' = batch /\ delivered' = delivered
      BY <2>2 DEF FactCommitted, pubVars
    <3> HIDE DEF k
    <3>4. \A j \in Key : facts'[j] = IF j = k THEN LatestDelivery + 1 ELSE facts[j]
      BY <1>1, <3>1
    <3> SUFFICES ASSUME NEW u \in Publisher, NEW i \in 1 .. Len(batch[u]), NEW j \in Key,
                        facts'[j] # 0, facts'[j] < facts'[batch[u][i]]
                 PROVE  HandedOrAhead(u, j, i)
        BY <3>1 DEF BatchInOrder, HandedOrAhead
    <3>2. batch[u][i] \in Key /\ batch[u][i] # k
      BY <1>2, <3>1
    <3>3. j # k
      BY <3>0, <3>2, <3>4
    <3> QED
      BY <3>2, <3>3, <3>4 DEF OrderInv, BatchInOrder
  <2>3. Commit(p) => FactCommitted(p) \/ UNCHANGED <<facts, pubVars>>
    BY CommitCases
  <2>4. ~Commit(p) => UNCHANGED <<facts, pubVars>>
    BY <1>3, OtherWriterSteps
  <2> QED
    BY <2>1, <2>2, <2>3, <2>4
<1>4. ASSUME NEW u \in Publisher, Fetch(u)
      PROVE  BatchInOrder'
  <2>1. PICK n \in 1 .. BatchSize : \E rows \in [1 .. n -> Pending] :
            FirstPending(n, rows) /\ batch' = [batch EXCEPT ![u] = rows]
    BY <1>4 DEF Fetch
  <2>2. PICK rows \in [1 .. n -> Pending] :
            FirstPending(n, rows) /\ batch' = [batch EXCEPT ![u] = rows]
    BY <2>1
  <2>3. n \in Nat /\ Len(rows) = n /\ rows \in Seq(Key) /\ \A i \in 1 .. n : rows[i] \in Key
    BY <2>1, <2>2, WriterConstants DEF Pending
  <2>4. ASSUME NEW i \in 1 .. n, NEW k \in Key, facts[k] # 0, facts[k] < facts[rows[i]]
        PROVE  k \in delivered \/ \E j \in 1 .. i - 1 : rows[j] = k
    <3>1. outbox[k].seq # 0 /\ outbox[k].seq < outbox[rows[i]].seq
      BY <2>3, <2>4 DEF OrderInv, OutboxFollowsFacts
    <3>2. CASE k \notin Pending
      BY <3>1, <3>2 DEF Pending, Inv, WriterInv, TypeOK, PublishedWasDelivered
    <3>3. CASE k \in Pending
      <4>1. \/ \E j \in 1 .. n : rows[j] = k
            \/ \A j \in 1 .. n : outbox[rows[j]].seq < outbox[k].seq
        BY <2>2, <3>3 DEF FirstPending
      <4>2. outbox[rows[i]].seq \in Nat /\ outbox[k].seq \in Nat
        BY <2>3, <2>4 DEF Inv, WriterInv, TypeOK
      <4>3. PICK j \in 1 .. n : rows[j] = k
        BY <3>1, <4>1, <4>2
      <4>4. ~(i <= j)
        BY <2>2, <3>1, <4>2, <4>3 DEF FirstPending
      <4>5. j \in 1 .. i - 1
        BY <2>3, <2>4, <4>3, <4>4
      <4> QED
        BY <4>3, <4>5
    <3> QED
      BY <3>2, <3>3
  <2>5. facts' = facts /\ delivered' = delivered
    BY <1>4 DEF Fetch, storeVars
  <2>6. /\ \A v \in Publisher \ {u} : batch'[v] = batch[v]
        /\ batch'[u] = rows /\ Len(batch'[u]) = n
    BY <1>1, <2>2, <2>3
  <2>7. ASSUME NEW v \in Publisher, NEW i \in 1 .. Len(batch'[v]), NEW k \in Key,
               facts[k] # 0, facts[k] < facts[batch'[v][i]]
        PROVE  k \in delivered \/ \E j \in 1 .. i - 1 : batch'[v][j] = k
    <3>1. CASE v = u
      BY <2>4, <2>6, <2>7, <3>1
    <3>2. CASE v # u
      BY <2>6, <2>7, <3>2 DEF OrderInv, BatchInOrder, HandedOrAhead
    <3> QED
      BY <3>1, <3>2
  <2> QED
    BY <2>5, <2>7 DEF BatchInOrder, HandedOrAhead
<1>5. ASSUME NEW u \in Publisher, HandOver(u)
      PROVE  BatchInOrder'
    BY <1>5 DEF HandOver, OrderInv, BatchInOrder, HandedOrAhead, storeVars
<1>6. ASSUME NEW u \in Publisher, Mark(u)
      PROVE  BatchInOrder'
  <2>1. /\ facts' = facts /\ delivered' = delivered /\ batch[u] # <<>>
        /\ batch' = [batch EXCEPT ![u] = Tail(batch[u])]
    BY <1>6 DEF Mark, storeVars
  <2>2. Head(batch[u]) \in delivered
    BY <1>6 DEF Mark, Inv, PublisherBatches
  <2>3. batch[u] \in Seq(Key) /\ Head(batch[u]) = batch[u][1]
    BY <1>1, <2>1
  <2>4. Len(Tail(batch[u])) = Len(batch[u]) - 1 /\ Len(batch[u]) \in Nat
    BY <2>1, <2>3
  <2>5. \A i \in 1 .. Len(batch[u]) - 1 : Tail(batch[u])[i] = batch[u][i + 1]
    BY <2>1, <2>3
  <2>6. ASSUME NEW i \in 1 .. Len(Tail(batch[u])), NEW k \in Key,
               facts[k] # 0, facts[k] < facts[Tail(batch[u])[i]]
        PROVE  k \in delivered \/ \E j \in 1 .. i - 1 : Tail(batch[u])[j] = k
    <3>1. i \in Nat /\ i >= 1 /\ i + 1 \in 1 .. Len(batch[u])
      BY <2>4, <2>6
    <3>2. facts[k] < facts[batch[u][i + 1]]
      BY <2>4, <2>5, <2>6
    <3>3. HandedOrAhead(u, k, i + 1)
      BY <2>6, <3>1, <3>2 DEF OrderInv, BatchInOrder
    <3>4. k \in delivered \/ \E j \in 1 .. i : batch[u][j] = k
      BY <3>1, <3>3 DEF HandedOrAhead
    <3>5. ASSUME NEW j \in 1 .. i, batch[u][j] = k
          PROVE  k \in delivered \/ \E m \in 1 .. i - 1 : Tail(batch[u])[m] = k
      <4>1. CASE j = 1
        BY <2>2, <2>3, <3>5, <4>1
      <4>2. CASE j # 1
        <5>1. j - 1 \in 1 .. i - 1 /\ j - 1 \in 1 .. Len(batch[u]) - 1 /\ (j - 1) + 1 = j
          BY <2>4, <2>6, <3>1, <3>5, <4>2
        <5> QED
          BY <2>5, <3>5, <5>1
      <4> QED
        BY <4>1, <4>2
    <3> QED
      BY <3>4, <3>5
  <2>7. batch'[u] = Tail(batch[u]) /\ \A v \in Publisher \ {u} : batch'[v] = batch[v]
    BY <1>1, <2>1
  <2>8. ASSUME NEW v \in Publisher, NEW i \in 1 .. Len(batch'[v]), NEW k \in Key,
               facts[k] # 0, facts[k] < facts[batch'[v][i]]
        PROVE  k \in delivered \/ \E j \in 1 .. i - 1 : batch'[v][j] = k
    <3>1. CASE v = u
      <4>1. batch'[v] = Tail(batch[u])
        BY <2>7, <3>1
      <4> QED
        BY <2>6, <2>8, <4>1
    <3>2. CASE v # u
      BY <2>7, <2>8, <3>2 DEF OrderInv, BatchInOrder, HandedOrAhead
    <3> QED
      BY <3>1, <3>2
  <2>9. facts' = facts /\ delivered' = delivered
    BY <2>1
  <2> QED
    BY <2>8, <2>9 DEF BatchInOrder, HandedOrAhead
<1>7. ASSUME NEW u \in Publisher, CommitMarks(u) \/ PublishFails(u)
      PROVE  BatchInOrder'
  <2>1. /\ facts' = facts /\ delivered' = delivered
        /\ \A v \in Publisher : batch'[v] = batch[v] \/ batch'[v] = <<>>
    BY <1>1, <1>7 DEF CommitMarks, PublishFails, storeVars
  <2>2. ASSUME NEW v \in Publisher, NEW i \in 1 .. Len(batch'[v])
        PROVE  batch'[v] = batch[v]
    BY <2>1, <2>2
  <2>3. ASSUME NEW v \in Publisher, NEW i \in 1 .. Len(batch'[v]), NEW k \in Key,
               facts[k] # 0, facts[k] < facts[batch'[v][i]]
        PROVE  k \in delivered \/ \E j \in 1 .. i - 1 : batch'[v][j] = k
    BY <2>2, <2>3 DEF OrderInv, BatchInOrder, HandedOrAhead
  <2> QED
    BY <2>1, <2>3 DEF BatchInOrder, HandedOrAhead
<1>8. ASSUME UNCHANGED <<facts, pubVars>>
      PROVE  BatchInOrder'
    BY <1>8 DEF OrderInv, BatchInOrder, HandedOrAhead, pubVars
<1> QED
    BY <1>3, <1>4, <1>5, <1>6, <1>7, <1>8
       DEF Next, LeaseStep, PublisherStep, vars, storeVars

\* The outbox follows the facts and batches follow the outbox in every reachable state.
LEMMA OrderCorrect == Spec => []OrderInv
<1>1. Init => OrderInv
    BY DEF Init, OrderInv, OutboxFollowsFacts, BatchInOrder, Owns, IdleTx
<1>2. Inv /\ SequenceInv /\ OrderInv /\ Inv' /\ [Next]_vars => OrderInv'
    BY OutboxFollowsFactsStep, BatchInOrderStep DEF OrderInv
<1> QED
    BY <1>1, <1>2, InvCorrect, SequencesCorrect, PTL DEF Spec

-----------------------------------------------------------------------------
(* The partition's stores implement PartitionLog.                          *)

LogFrom(f) == [i \in 1 .. MaxSeq(f) |-> CHOOSE k \in Key : f[k] = i]
Dense(f) ==
    /\ \A j, k \in Key : f[j] = f[k] /\ f[j] # 0 => j = k
    /\ \A k \in Key : \A i \in 1 .. f[k] : \E j \in Key : f[j] = i

\* Facts with sequences 1 .. n, each on one key, are one log in only one way.
LEMMA LogIsInverse ==
    ASSUME NEW f \in [Key -> Nat], Dense(f)
    PROVE  /\ LogFrom(f) \in Seq(Key) /\ Len(LogFrom(f)) = MaxSeq(f)
           /\ DOMAIN LogFrom(f) = 1 .. MaxSeq(f)
           /\ \A i \in 1 .. MaxSeq(f) : LogFrom(f)[i] \in Key /\ f[LogFrom(f)[i]] = i
           /\ \A k \in Key : f[k] # 0 => f[k] \in 1 .. MaxSeq(f) /\ LogFrom(f)[f[k]] = k
<1> DEFINE n == MaxSeq(f)
           s == LogFrom(f)
<1>1. /\ n \in Nat
      /\ n = 0 \/ \E k \in Key : f[k] = n
      /\ \A k \in Key : f[k] <= n
    BY LatestIsMax
<1>2. ASSUME NEW i \in 1 .. n
      PROVE  \E k \in Key : f[k] = i
  <2>1. PICK k \in Key : f[k] = n
    BY <1>1, <1>2
  <2> QED
    BY <1>2, <2>1 DEF Dense
<1>3. \A i \in 1 .. n : s[i] \in Key /\ f[s[i]] = i
  <2> SUFFICES ASSUME NEW i \in 1 .. n
               PROVE  s[i] \in Key /\ f[s[i]] = i
      OBVIOUS
  <2>1. s[i] = CHOOSE k \in Key : f[k] = i
    BY DEF LogFrom
  <2> QED
    BY <1>2, <2>1
<1>4. s \in Seq(Key) /\ Len(s) = n /\ DOMAIN s = 1 .. n
  <2>1. DOMAIN s = 1 .. n /\ s = [i \in 1 .. n |-> s[i]]
    BY DEF LogFrom
  <2> HIDE DEF s, n
  <2>2. s \in [1 .. n -> Key]
    BY <1>3, <2>1
  <2> QED
    BY <1>1, <2>2
<1> HIDE DEF s, n
<1>5. \A k \in Key : f[k] # 0 => f[k] \in 1 .. n
    BY <1>1
<1>6. ASSUME NEW k \in Key, f[k] # 0
      PROVE  s[f[k]] = k
  <2>1. s[f[k]] \in Key /\ f[s[f[k]]] = f[k]
    BY <1>3, <1>5, <1>6
  <2> QED
    BY <1>6, <2>1 DEF Dense
<1> QED
    BY <1>3, <1>4, <1>5, <1>6 DEF s, n

\* Giving a key without a fact the next sequence appends it to the log.
LEMMA LogGrows ==
    ASSUME NEW f \in [Key -> Nat], Dense(f), NEW k \in Key, f[k] = 0,
           NEW g \in [Key -> Nat], g = [f EXCEPT ![k] = MaxSeq(f) + 1], Dense(g)
    PROVE  LogFrom(g) = Append(LogFrom(f), k)
<1> DEFINE n == MaxSeq(f)
           s == LogFrom(f)
           t == LogFrom(g)
<1>1. n \in Nat /\ MaxSeq(g) = n + 1
    BY LatestIsMax, LatestAdvances
<1>2. /\ s \in Seq(Key) /\ Len(s) = n
      /\ \A i \in 1 .. n : s[i] \in Key /\ f[s[i]] = i
    BY LogIsInverse
<1>3. /\ t \in Seq(Key) /\ Len(t) = n + 1
      /\ \A j \in Key : g[j] # 0 => t[g[j]] = j
    BY <1>1, LogIsInverse
<1>4. \A j \in Key : g[j] = IF j = k THEN n + 1 ELSE f[j]
    OBVIOUS
<1> HIDE DEF n, s, t
<1>5. t[n + 1] = k
    BY <1>1, <1>3, <1>4
<1>6. ASSUME NEW i \in 1 .. n
      PROVE  t[i] = s[i]
  <2>1. s[i] \in Key /\ f[s[i]] = i /\ i # 0
    BY <1>1, <1>2
  <2>2. s[i] # k
    BY <2>1
  <2> QED
    BY <1>3, <1>4, <2>1, <2>2
<1>7. Append(s, k) \in Seq(Key) /\ Len(Append(s, k)) = n + 1
    BY <1>2
<1>8. \A i \in 1 .. n + 1 : t[i] = Append(s, k)[i]
    BY <1>1, <1>2, <1>5, <1>6
<1>9. t = Append(s, k)
    BY <1>1, <1>3, <1>7, <1>8
<1> QED
    BY <1>9 DEF s, t

\* The log of the committed facts, by what the stores say of each input.
LEMMA LogOfFacts ==
    ASSUME Inv, SequenceInv
    PROVE  /\ LogOf = LogFrom(facts) /\ LatestDelivery = MaxSeq(facts)
           /\ facts \in [Key -> Nat] /\ Dense(facts)
           /\ Len(LogOf) = LatestDelivery /\ DOMAIN LogOf = 1 .. LatestDelivery
           /\ \A i \in 1 .. LatestDelivery : LogOf[i] \in Key /\ facts[LogOf[i]] = i
           /\ \A k \in Key : facts[k] # 0 => facts[k] \in 1 .. LatestDelivery
                                              /\ LogOf[facts[k]] = k
<1>1. LogOf = LogFrom(facts) /\ LatestDelivery = MaxSeq(facts)
    BY DEF LogOf, LogFrom, LatestDelivery, MaxSeq
<1>2. facts \in [Key -> Nat] /\ Dense(facts)
    BY DEF Inv, WriterInv, TypeOK, SequenceInv, DeliverySequenceDense, Dense
<1> QED
    BY <1>1, <1>2, LogIsInverse

\* A COMMIT that adds a fact records its input in the log.
LEMMA CommitRecords ==
    ASSUME Inv, SequenceInv, Inv', SequenceInv', NEW p \in Process, FactCommitted(p)
    PROVE  Abstract!Record(tx[p].key)
<1> DEFINE k == tx[p].key
<1>1. k \in Key /\ facts[k] = 0 /\ facts' = [facts EXCEPT ![k] = MaxSeq(facts) + 1]
      /\ checkpoint' = LatestDelivery + 1 /\ delivered' = delivered
    BY LogOfFacts DEF FactCommitted, pubVars
<1>2. Dense(facts) /\ Dense(facts') /\ facts \in [Key -> Nat] /\ facts' \in [Key -> Nat]
    BY DEF Inv, WriterInv, TypeOK, SequenceInv, DeliverySequenceDense, Dense
<1>3. LogFrom(facts') = Append(LogFrom(facts), k)
    BY <1>1, <1>2, LogGrows
<1>4. LogOf = LogFrom(facts) /\ LogOf' = LogFrom(facts')
    BY DEF LogOf, LogFrom, LatestDelivery, MaxSeq
<1>5. LogOf' = Append(LogOf, k)
    BY <1>3, <1>4
<1>6. Len(LogOf') = LatestDelivery + 1
  <2>1. LogOf \in Seq(Key) /\ Len(LogOf) = LatestDelivery
    BY <1>2, <1>4, LogIsInverse DEF LatestDelivery, MaxSeq
  <2> QED
    BY <1>5, <2>1
<1>7. ~Abstract!InLog(k)
  <2>1. \A i \in DOMAIN LogOf : facts[LogOf[i]] = i /\ i # 0
    BY LogOfFacts
  <2> QED
    BY <1>1, <2>1 DEF Abstract!InLog
<1> QED
    BY <1>1, <1>5, <1>6, <1>7 DEF Abstract!Record

\* Passing a message to the callback delivers the oldest message not delivered
\* yet, or one that was delivered before.
LEMMA HandOverDelivers ==
    ASSUME Inv, SequenceInv, OrderInv, NEW u \in Publisher, HandOver(u)
    PROVE  UNCHANGED Abstract!logVars \/ \E i \in DOMAIN LogOf : Abstract!Deliver(i)
<1> DEFINE k == Head(batch[u])
           i == facts[k]
<1>1. /\ UNCHANGED <<facts, checkpoint>> /\ delivered' = delivered \cup {k}
      /\ batch[u] # <<>> /\ batch[u] \in Seq(Key)
    BY DEF HandOver, storeVars, Inv, WriterInv, TypeOK
<1>2. LogOf' = LogOf
    BY <1>1 DEF LogOf, LatestDelivery
<1>3. CASE k \in delivered
    BY <1>1, <1>2, <1>3 DEF Abstract!logVars
<1>4. CASE k \notin delivered
  <2>1. 1 \in 1 .. Len(batch[u]) /\ batch[u][1] = k /\ k \in Key
    BY <1>1
  <2>2. facts[k] # 0
    BY <2>1 DEF Inv, PublisherBatches, WriterInv, InputAtomic
  <2>3. \A j \in Key : facts[j] # 0 /\ facts[j] < i => j \in delivered
    BY <2>1 DEF OrderInv, BatchInOrder, HandedOrAhead
  <2>4. i \in DOMAIN LogOf /\ LogOf[i] = k
    BY <2>1, <2>2, LogOfFacts
  <2> HIDE DEF k, i
  <2>5. ASSUME NEW m \in 1 .. i - 1
        PROVE  LogOf[m] \in delivered
    <3>1. i \in 1 .. LatestDelivery /\ LatestDelivery \in Nat
      BY <2>4, LogOfFacts, LatestIsMax
    <3>2. m \in 1 .. LatestDelivery /\ m < i /\ m # 0
      BY <2>5, <3>1
    <3>3. LogOf[m] \in Key /\ facts[LogOf[m]] = m
      BY <3>2, LogOfFacts
    <3> QED
      BY <2>3, <3>2, <3>3
  <2>6. Abstract!Deliver(i)
    BY <1>1, <1>2, <1>4, <2>4, <2>5 DEF Abstract!Deliver
  <2> QED
    BY <2>4, <2>6
<1> QED
    BY <1>3, <1>4

\* Every step of writers, publishers, lease and time is a step of the log or none.
LEMMA LogStep ==
    ASSUME Inv, SequenceInv, OrderInv, Inv', SequenceInv', [Next]_vars
    PROVE  [Abstract!LogNext]_(Abstract!logVars)
<1>1. ASSUME UNCHANGED <<facts, checkpoint, delivered>>
      PROVE  UNCHANGED Abstract!logVars
    BY <1>1 DEF Abstract!logVars, LogOf, LatestDelivery
<1>2. ASSUME NEW p \in Process, Commit(p)
      PROVE  Abstract!LogNext
  <2>1. CASE FactCommitted(p)
    BY <2>1, CommitRecords DEF FactCommitted, Abstract!LogNext
  <2>2. CASE UNCHANGED <<facts, outbox, pubVars>> /\ checkpoint' \in 0 .. LatestDelivery
    <3>1. LogOf' = LogOf /\ delivered' = delivered
      BY <2>2 DEF LogOf, LatestDelivery, pubVars
    <3>2. Len(LogOf) = LatestDelivery
      BY LogOfFacts
    <3> QED
      BY <2>2, <3>1, <3>2 DEF Abstract!Rewind, Abstract!LogNext
  <2> QED
    BY <1>2, <2>1, <2>2, CommitCases
<1>3. ASSUME NEW p \in Process, WriterStep(p), ~Commit(p)
      PROVE  UNCHANGED Abstract!logVars
    BY <1>1, <1>3, OtherWriterSteps DEF pubVars
<1>4. ASSUME NEW u \in Publisher, PublisherStep(u), ~HandOver(u)
      PROVE  UNCHANGED Abstract!logVars
    BY <1>1, <1>4 DEF PublisherStep, Fetch, Mark, CommitMarks, PublishFails, storeVars
<1>5. ASSUME NEW u \in Publisher, HandOver(u)
      PROVE  [Abstract!LogNext]_(Abstract!logVars)
    BY <1>5, HandOverDelivers DEF Abstract!LogNext
<1>6. CASE LeaseStep \/ UNCHANGED vars
    BY <1>1, <1>6 DEF LeaseStep, vars, storeVars, pubVars
<1> QED
    BY <1>2, <1>3, <1>4, <1>5, <1>6 DEF Next

\* The stores, with any number of writers, publishers and crashes between them,
\* implement the append-only log: each input recorded once and whole, the
\* checkpoint inside it, first deliveries in its order.
THEOREM StoresImplementLog == Spec => ImplementsLog
<1>1. Init => Abstract!LogInit
  <2> SUFFICES ASSUME Init
               PROVE  Abstract!LogInit
      OBVIOUS
  <2>1. checkpoint = 0 /\ delivered = {} /\ facts \in [Key -> Nat] /\ \A k \in Key : facts[k] = 0
    BY DEF Init
  <2>2. LatestDelivery = 0
    BY <2>1, LatestIsMax DEF LatestDelivery, MaxSeq
  <2>3. LogOf = <<>>
    BY <2>2 DEF LogOf
  <2> QED
    BY <2>1, <2>3 DEF Abstract!LogInit
<1>2. Inv /\ SequenceInv /\ OrderInv /\ Inv' /\ SequenceInv' /\ [Next]_vars
        => [Abstract!LogNext]_(Abstract!logVars)
    BY LogStep
<1> QED
    BY <1>1, <1>2, InvCorrect, SequencesCorrect, OrderCorrect, PTL
       DEF Spec, ImplementsLog, Abstract!LogSpec
=============================================================================
