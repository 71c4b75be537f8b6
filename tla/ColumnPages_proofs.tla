-------------------------- MODULE ColumnPages_proofs --------------------------
(***************************************************************************)
(* Proofs about ColumnPages, for columns of any number of rows and files   *)
(* of any number of columns: what readParquetSummary() decodes is what     *)
(* writeParquetBytes() encoded.                                            *)
(***************************************************************************)
EXTENDS ColumnPages, FunctionLemmas, SequenceTheorems

-----------------------------------------------------------------------------
(***************************************************************************)
(* Varints: what a file holds, and how a number is read from it.           *)
(***************************************************************************)
\* The recursive definition of Varint, ParquetFile.py's _varint(), defines a function to
\* bytes.
LEMMA VarintDef ==
    /\ Varint \in [Nat -> Seq(Byte)]
    /\ \A n \in Nat : Varint[n] = IF n < 128 THEN <<n>> ELSE <<128 + (n % 128)>> \o Varint[n \div 128]
<1> DEFINE m == [n \in Nat |-> n]
           base == 0..127
           b == [n \in base |-> <<n>>]
           pred == [n \in Nat \ base |-> n \div 128]
           step == [n \in Nat |-> [s \in Seq(Byte) |-> <<128 + (n % 128)>> \o s]]
           Is(f) == f = [n \in Nat |-> IF n < 128 THEN <<n>> ELSE <<128 + (n % 128)>> \o f[n \div 128]]
<1>1. m \in [Nat -> Nat] /\ base \subseteq Nat
    OBVIOUS
<1>2. b \in [base -> Seq(Byte)]
    BY DEF Byte
<1>3. pred \in [Nat \ base -> Nat] /\ \A n \in Nat \ base : m[pred[n]] < m[n]
    OBVIOUS
<1>4. step \in [Nat -> [Seq(Byte) -> Seq(Byte)]]
  <2>1. ASSUME NEW n \in Nat, NEW s \in Seq(Byte)
        PROVE  <<128 + (n % 128)>> \o s \in Seq(Byte)
    <3>1. 128 + (n % 128) \in Byte
      BY DEF Byte
    <3>2. <<128 + (n % 128)>> \in Seq(Byte)
      BY <3>1
    <3> QED
      BY <3>2
  <2> QED
    BY <2>1
<1>5. <<>> \in Seq(Byte)
    OBVIOUS
<1>6. PICK f \in [Nat -> Seq(Byte)] : Satisfies(Nat, base, b, pred, step, f)
  <2>1. IsRecursion(Nat, Seq(Byte), <<>>, m, base, b, pred, step)
    BY <1>1, <1>2, <1>3, <1>4, <1>5 DEF IsRecursion
  <2> HIDE DEF m, base, b, pred, step
  <2> QED
    BY <2>1, RecursionExists
<1>7. ASSUME NEW n \in Nat
      PROVE  f[n] = IF n < 128 THEN <<n>> ELSE <<128 + (n % 128)>> \o f[n \div 128]
  <2>1. n \div 128 \in Nat /\ (n \in base <=> n < 128)
    OBVIOUS
  <2>2. f[n] = IF n \in base THEN b[n] ELSE step[n][f[pred[n]]]
    <3> HIDE DEF base, b, pred, step
    <3> QED
      BY <1>6 DEF Satisfies
  <2>3. CASE n < 128
    BY <2>1, <2>2, <2>3
  <2>4. CASE ~ (n < 128)
    <3>1. pred[n] = n \div 128 /\ n \notin base
      BY <2>1, <2>4
    <3>2. f[n \div 128] \in Seq(Byte)
      BY <2>1
    <3>3. f[n] = step[n][f[n \div 128]]
      BY <2>2, <3>1
    <3> QED
      BY <2>4, <3>2, <3>3
  <2> QED
    BY <2>3, <2>4
<1>8. Is(f)
    BY <1>7
<1>9. Varint = CHOOSE g : Is(g)
    BY DEF Varint
<1>10. Is(Varint)
  <2> HIDE DEF Is
  <2> QED
    BY <1>8, <1>9
<1>11. f = Varint
  <2>1. f = [n \in Nat |-> f[n]] /\ Varint = [n \in Nat |-> Varint[n]]
    BY <1>8, <1>10
  <2>2. ASSUME NEW n \in base
        PROVE  f[n] = Varint[n]
    BY <1>8, <1>10
  <2>3. ASSUME NEW n \in Nat \ base, f[n \div 128] = Varint[n \div 128]
        PROVE  f[n] = Varint[n]
    <3>1. ~ (n < 128)
      OBVIOUS
    <3>2. f[n] = <<128 + (n % 128)>> \o f[n \div 128]
      BY <1>7, <3>1
    <3>3. Varint[n] = <<128 + (n % 128)>> \o Varint[n \div 128]
      BY <1>10, <3>1
    <3> QED
      BY <2>3, <3>2, <3>3
  <2>4. AgreeStepwise(Nat, m, base, pred, f, Varint)
    BY <1>1, <1>3, <2>1, <2>2, <2>3 DEF AgreeStepwise
  <2> HIDE DEF m, base, pred
  <2> QED
    BY <2>4, RecursionUnique
<1> QED
    BY <1>10, <1>11

\* The bytes t are in s from o on.
HoldsAt(s, o, t) ==
    /\ o \in Nat \ {0} /\ o + Len(t) <= Len(s) + 1
    /\ \A i \in 1..Len(t) : s[o + i - 1] = t[i]

\* Parts of what is held are held, each behind the one before it.
LEMMA HoldsParts ==
    ASSUME NEW s \in Seq(Byte), NEW o, NEW t \in Seq(Byte), NEW u \in Seq(Byte),
           HoldsAt(s, o, t \o u)
    PROVE  HoldsAt(s, o, t) /\ HoldsAt(s, o + Len(t), u)
<1>1. Len(t \o u) = Len(t) + Len(u) /\ Len(s) \in Nat /\ Len(t) \in Nat /\ Len(u) \in Nat
    OBVIOUS
<1>2. o \in Nat \ {0} /\ o + Len(t) + Len(u) <= Len(s) + 1
    BY <1>1 DEF HoldsAt
<1>3. ASSUME NEW i \in 1..Len(t)
      PROVE  s[o + i - 1] = t[i]
  <2>1. i \in 1..Len(t \o u) /\ (t \o u)[i] = t[i]
    BY <1>1
  <2> QED
    BY <2>1 DEF HoldsAt
<1>4. ASSUME NEW i \in 1..Len(u)
      PROVE  s[(o + Len(t)) + i - 1] = u[i]
  <2>1. Len(t) + i \in 1..Len(t \o u) /\ (t \o u)[Len(t) + i] = u[i]
    BY <1>1
  <2>2. s[o + (Len(t) + i) - 1] = u[i]
    BY <2>1 DEF HoldsAt
  <2>3. o + (Len(t) + i) - 1 = (o + Len(t)) + i - 1
    BY <1>1, <1>2
  <2> QED
    BY <2>2, <2>3
<1> QED
    BY <1>1, <1>2, <1>3, <1>4 DEF HoldsAt

\* The first byte of what is held.
LEMMA HoldsFirst ==
    ASSUME NEW s \in Seq(Byte), NEW o, NEW b \in Byte, NEW u \in Seq(Byte), HoldsAt(s, o, <<b>> \o u)
    PROVE  o \in Nat \ {0} /\ o \in DOMAIN s /\ s[o] = b /\ HoldsAt(s, o + 1, u)
<1>1. <<b>> \in Seq(Byte) /\ Len(<<b>>) = 1 /\ <<b>>[1] = b
    OBVIOUS
<1>2. HoldsAt(s, o, <<b>>) /\ HoldsAt(s, o + 1, u)
    BY <1>1, HoldsParts
<1> QED
    BY <1>1, <1>2 DEF HoldsAt

\* A file that grows still holds what it held: pages that were written stay.
LEMMA HoldsExtended ==
    ASSUME NEW s \in Seq(Byte), NEW o, NEW t \in Seq(Byte), NEW u \in Seq(Byte), HoldsAt(s, o, t)
    PROVE  HoldsAt(s \o u, o, t)
<1>1. Len(s \o u) = Len(s) + Len(u) /\ Len(s) \in Nat /\ Len(t) \in Nat /\ Len(u) \in Nat
    OBVIOUS
<1>2. ASSUME NEW i \in 1..Len(t)
      PROVE  (s \o u)[o + i - 1] = t[i]
    BY <1>1 DEF HoldsAt
<1> QED
    BY <1>1, <1>2 DEF HoldsAt

\* A file holds what was just added to it.
LEMMA HoldsAtEnd ==
    ASSUME NEW s \in Seq(Byte), NEW t \in Seq(Byte)
    PROVE  HoldsAt(s \o t, Len(s) + 1, t)
<1>1. Len(s \o t) = Len(s) + Len(t) /\ Len(s) \in Nat /\ Len(t) \in Nat
    OBVIOUS
<1>2. ASSUME NEW i \in 1..Len(t)
      PROVE  (s \o t)[(Len(s) + 1) + i - 1] = t[i]
    BY <1>1
<1> QED
    BY <1>1, <1>2 DEF HoldsAt

\* A slice of the length of what is held is what is held.
LEMMA HoldsSub ==
    ASSUME NEW s \in Seq(Byte), NEW o, NEW t \in Seq(Byte), HoldsAt(s, o, t)
    PROVE  SubSeq(s, o, o + Len(t) - 1) = t
<1>1. Len(s) \in Nat /\ Len(t) \in Nat /\ o \in Nat \ {0} /\ o + Len(t) <= Len(s) + 1
    BY DEF HoldsAt
<1> DEFINE w == SubSeq(s, o, o + Len(t) - 1)
<1>2. w \in Seq(Byte) /\ Len(w) = Len(t)
    BY <1>1
<1>3. ASSUME NEW i \in 1..Len(t)
      PROVE  w[i] = t[i]
  <2>1. w[i] = s[o + i - 1]
    BY <1>1
  <2> QED
    BY <2>1 DEF HoldsAt
<1> HIDE DEF w
<1>4. w = t
    BY <1>2, <1>3, SeqEqual
<1> QED
    BY <1>4 DEF w

\* What a varint read returns.
VarintRead == [value : Nat, next : Nat]

\* Positions a reader still has before it.
Remaining == [o \in Nat |-> IF o \in DOMAIN file THEN Len(file) + 1 - o ELSE 0]

\* A reader that goes forward inside the file has less before it: the measure of the
\* reader's recursions.
LEMMA RemainingLess ==
    ASSUME file \in Seq(Byte)
    PROVE  /\ Remaining \in [Nat -> Nat]
           /\ \A o, p \in Nat : o \in DOMAIN file /\ o < p => Remaining[p] < Remaining[o]
<1>1. Len(file) \in Nat /\ DOMAIN file = 1..Len(file)
    OBVIOUS
<1> QED
    BY <1>1 DEF Remaining

\* The body of ReadVarint.
VarintStep(f, o) ==
    IF o \notin DOMAIN file THEN [value |-> 0, next |-> o]
    ELSE IF file[o] < 128 THEN [value |-> file[o], next |-> o + 1]
    ELSE LET rest == f[o + 1]
         IN [rest EXCEPT !.value = file[o] - 128 + 128 * @]

\* A byte is a number, and one with the continuation bit adds a number.
LEMMA ByteArithmetic ==
    \A x \in Byte : /\ x \in Nat
                    /\ ~ (x < 128) => /\ x \in 128..255
                                       /\ \A v \in Nat : x - 128 + 128 * v \in Nat
BY DEF Byte

\* The recursive definition of ReadVarint defines a function: the reader stops at the end
\* of the file.
LEMMA ReadVarintDef ==
    ASSUME file \in Seq(Byte)
    PROVE  /\ ReadVarint \in [Nat -> VarintRead]
           /\ \A o \in Nat : ReadVarint[o] = VarintStep(ReadVarint, o)
<1> DEFINE Base == {o \in Nat : o \notin DOMAIN file \/ file[o] < 128}
           b == [o \in Base |-> IF o \notin DOMAIN file THEN [value |-> 0, next |-> o]
                                ELSE [value |-> file[o], next |-> o + 1]]
           pred == [o \in Nat \ Base |-> o + 1]
           step == [o \in Nat |-> [r \in VarintRead |->
                      IF o \in Base THEN r ELSE [r EXCEPT !.value = file[o] - 128 + 128 * @]]]
           Is(f) == f = [o \in Nat |-> VarintStep(f, o)]
<1>0. \A o \in DOMAIN file : o \in Nat /\ file[o] \in Byte
    OBVIOUS
<1>1. Base \subseteq Nat /\ [value |-> 0, next |-> 0] \in VarintRead
    BY DEF VarintRead
<1>2. b \in [Base -> VarintRead]
  <2>1. ASSUME NEW o \in Base, o \in DOMAIN file
        PROVE  [value |-> file[o], next |-> o + 1] \in VarintRead
    <3>1. file[o] \in Nat /\ o + 1 \in Nat
      BY <1>0, <2>1, ByteArithmetic
    <3> QED
      BY <3>1 DEF VarintRead
  <2>2. ASSUME NEW o \in Base
        PROVE  [value |-> 0, next |-> o] \in VarintRead
    BY DEF VarintRead
  <2> HIDE DEF Base
  <2> QED
    BY <2>1, <2>2
<1>3. ASSUME NEW o \in Nat \ Base
      PROVE  o \in DOMAIN file /\ file[o] \in 128..255 /\ ~(file[o] < 128)
  <2>1. o \in DOMAIN file /\ ~(file[o] < 128)
    OBVIOUS
  <2>2. file[o] \in Byte
    BY <1>0, <2>1
  <2> QED
    BY <2>1, <2>2, ByteArithmetic
<1>4. pred \in [Nat \ Base -> Nat] /\ \A o \in Nat \ Base : Remaining[pred[o]] < Remaining[o]
  <2>1. ASSUME NEW o \in Nat \ Base
        PROVE  pred[o] = o + 1 /\ o + 1 \in Nat /\ Remaining[o + 1] < Remaining[o]
    <3>1. o \in Nat /\ o + 1 \in Nat /\ o < o + 1
      OBVIOUS
    <3>2. o \in DOMAIN file
      BY <1>3
    <3>3. Remaining[o + 1] < Remaining[o]
      BY <3>1, <3>2, RemainingLess
    <3> QED
      BY <3>1, <3>3
  <2>2. \A o \in Nat \ Base : o + 1 \in Nat
    OBVIOUS
  <2> HIDE DEF Base
  <2> QED
    BY <2>1, <2>2
<1>5. step \in [Nat -> [VarintRead -> VarintRead]]
  <2>1. ASSUME NEW o \in Nat \ Base, NEW r \in VarintRead
        PROVE  [r EXCEPT !.value = file[o] - 128 + 128 * @] \in VarintRead
    <3>1. file[o] - 128 + 128 * r.value \in Nat
      <4>1. file[o] \in Byte /\ ~ (file[o] < 128)
        BY <1>0, <1>3
      <4>2. r.value \in Nat
        BY DEF VarintRead
      <4> HIDE DEF Base
      <4> QED
        BY <4>1, <4>2, ByteArithmetic
    <3> QED
      BY <3>1 DEF VarintRead
  <2> HIDE DEF Base
  <2> QED
    BY <2>1
<1>6. PICK f \in [Nat -> VarintRead] : Satisfies(Nat, Base, b, pred, step, f)
  <2>1. IsRecursion(Nat, VarintRead, [value |-> 0, next |-> 0], Remaining, Base, b, pred, step)
    <3> HIDE DEF Base, b, pred, step
    <3> QED
      BY <1>1, <1>2, <1>4, <1>5, RemainingLess DEF IsRecursion
  <2> HIDE DEF Base, b, pred, step
  <2> QED
    BY <2>1, RecursionExists
<1>7. ASSUME NEW o \in Nat
      PROVE  f[o] = VarintStep(f, o)
  <2>1. CASE o \in Base
    BY <1>6, <2>1 DEF Satisfies, VarintStep
  <2>2. CASE o \notin Base
    <3>1. f[o] = step[o][f[pred[o]]]
      BY <1>6, <2>2 DEF Satisfies
    <3>2. pred[o] = o + 1 /\ f[o + 1] \in VarintRead
      BY <2>2
    <3>3. f[o] = [f[o + 1] EXCEPT !.value = file[o] - 128 + 128 * @]
      BY <2>2, <3>1, <3>2
    <3> QED
      BY <1>3, <2>2, <3>3 DEF VarintStep
  <2> QED
    BY <2>1, <2>2
<1>8. Is(f)
    BY <1>7
<1>9. ReadVarint = CHOOSE g : Is(g)
    BY DEF ReadVarint, VarintStep
<1>10. Is(ReadVarint)
  <2> HIDE DEF Is
  <2> QED
    BY <1>8, <1>9
<1>11. f = ReadVarint
  <2>1. f = [o \in Nat |-> f[o]] /\ ReadVarint = [o \in Nat |-> ReadVarint[o]]
    BY <1>8, <1>10
  <2>2. ASSUME NEW o \in Base
        PROVE  f[o] = ReadVarint[o]
    <3>1. f[o] = VarintStep(f, o) /\ ReadVarint[o] = VarintStep(ReadVarint, o)
      BY <1>7, <1>10
    <3> QED
      BY <3>1 DEF VarintStep
  <2>3. ASSUME NEW o \in Nat \ Base, f[pred[o]] = ReadVarint[pred[o]]
        PROVE  f[o] = ReadVarint[o]
    <3>1. f[o] = VarintStep(f, o) /\ ReadVarint[o] = VarintStep(ReadVarint, o)
      BY <1>7, <1>10
    <3>2. f[o + 1] = ReadVarint[o + 1]
      BY <2>3
    <3> HIDE DEF Base
    <3> QED
      BY <3>1, <3>2 DEF VarintStep
  <2>4. AgreeStepwise(Nat, Remaining, Base, pred, f, ReadVarint)
    <3> HIDE DEF Base, pred
    <3> QED
      BY <1>1, <1>4, <2>1, <2>2, <2>3, RemainingLess DEF AgreeStepwise
  <2> HIDE DEF Base, pred
  <2> QED
    BY <2>4, RecursionUnique
<1> QED
    BY <1>10, <1>11

\* A varint is read forward.
LEMMA ReadVarintForward ==
    ASSUME file \in Seq(Byte), NEW o \in Nat
    PROVE  ReadVarint[o].next \in Nat /\ ReadVarint[o].next >= o
<1> DEFINE Bad == {p \in Nat : ~ (ReadVarint[p].next >= p)}
<1>1. \A p \in Nat : ReadVarint[p].next \in Nat
    BY ReadVarintDef DEF VarintRead
<1>2. CASE Bad = {}
    BY <1>1, <1>2
<1>3. CASE Bad # {}
  <2>1. Bad \subseteq Nat /\ Remaining \in [Nat -> Nat]
    BY RemainingLess
  <2>2. \A p \in Nat : p \in Bad <=> ~ (ReadVarint[p].next >= p)
    OBVIOUS
  <2> HIDE DEF Bad
  <2>3. PICK p \in Bad : \A q \in Bad : Remaining[p] <= Remaining[q]
    BY <1>3, <2>1, LeastMeasure
  <2>4. p \in Nat /\ p + 1 \in Nat /\ p < p + 1
    BY <2>1
  <2>5. ReadVarint[p] = VarintStep(ReadVarint, p)
    BY <2>4, ReadVarintDef
  <2>6. ReadVarint[p + 1] \in VarintRead
    BY <2>4, ReadVarintDef
  <2>7. p \in DOMAIN file /\ ReadVarint[p].next = ReadVarint[p + 1].next
    <3>1. CASE p \notin DOMAIN file
      <4>1. ReadVarint[p].next = p
        BY <2>5, <3>1 DEF VarintStep
      <4> QED
        BY <2>2, <2>4, <4>1
    <3>2. CASE p \in DOMAIN file /\ file[p] < 128
      <4>1. ReadVarint[p].next = p + 1
        BY <2>5, <3>2 DEF VarintStep
      <4> QED
        BY <2>2, <2>4, <4>1
    <3>3. CASE p \in DOMAIN file /\ ~ (file[p] < 128)
      BY <2>5, <2>6, <3>3 DEF VarintStep, VarintRead
    <3> QED
      BY <3>1, <3>2, <3>3
  <2>8. Remaining[p + 1] < Remaining[p]
    BY <2>4, <2>7, RemainingLess
  <2>9. p + 1 \notin Bad
    BY <2>1, <2>3, <2>4, <2>8
  <2> QED
    BY <1>1, <2>2, <2>4, <2>7, <2>9
<1> QED
    BY <1>2, <1>3

\* A byte of seven bits and the rest give the number back.
LEMMA VarintArithmetic ==
    \A n \in Nat : ~ (n < 128) =>
        /\ n \div 128 \in Nat /\ n \div 128 < n
        /\ 128 + (n % 128) \in Byte /\ ~ (128 + (n % 128) < 128)
        /\ (128 + (n % 128)) - 128 + 128 * (n \div 128) = n
BY DEF Byte

\* The varint of n, if it is at o, is read as n.
VarintReadAt(n, o) ==
    HoldsAt(file, o, Varint[n]) => /\ ReadVarint[o].value = n
                                   /\ ReadVarint[o].next = o + Len(Varint[n])

\* What is written as a varint is read back, and nothing after it.
LEMMA VarintReadBack ==
    ASSUME file \in Seq(Byte), NEW n \in Nat, NEW o \in Nat
    PROVE  VarintReadAt(n, o)
<1> DEFINE m == [k \in Nat |-> k]
           Bad == {k \in Nat : \E p \in Nat : ~ VarintReadAt(k, p)}
<1>1. CASE Bad = {}
    BY <1>1
<1>2. CASE Bad # {}
  <2>1. Bad \subseteq Nat /\ m \in [Nat -> Nat] /\ \A k \in Nat : m[k] = k
    OBVIOUS
  <2>2. \A k \in Nat : k \in Bad <=> \E p \in Nat : ~ VarintReadAt(k, p)
    OBVIOUS
  <2> HIDE DEF Bad, m
  <2>3. PICK k \in Bad : \A j \in Bad : m[k] <= m[j]
    BY <1>2, <2>1, LeastMeasure
  <2>4. PICK p \in Nat : ~ VarintReadAt(k, p)
    BY <2>1, <2>2
  <2>5. k \in Nat /\ HoldsAt(file, p, Varint[k])
    BY <2>1, <2>4 DEF VarintReadAt
  <2>6. ReadVarint[p] = VarintStep(ReadVarint, p)
    BY ReadVarintDef
  <2>7. CASE k < 128
    <3>1. Varint[k] = <<k>>
      BY <2>5, <2>7, VarintDef
    <3>2. p \in DOMAIN file /\ file[p] = k
      BY <2>5, <3>1 DEF HoldsAt
    <3>3. ReadVarint[p] = [value |-> k, next |-> p + 1]
      BY <2>6, <2>7, <3>2 DEF VarintStep
    <3> QED
      BY <2>4, <3>1, <3>3 DEF VarintReadAt
  <2>8. CASE ~ (k < 128)
    <3> DEFINE first == 128 + (k % 128)
               up == k \div 128
    <3>1. up \in Nat /\ up < k /\ first \in Byte /\ ~ (first < 128) /\ first - 128 + 128 * up = k
      BY <2>5, <2>8, VarintArithmetic
    <3>2. Varint[k] = <<first>> \o Varint[up] /\ Varint[up] \in Seq(Byte)
      <4>1. \A j \in Nat : Varint[j] \in Seq(Byte)
        BY VarintDef
      <4>2. Varint[k] = <<128 + (k % 128)>> \o Varint[k \div 128]
        BY <2>5, <2>8, VarintDef
      <4> QED
        BY <3>1, <4>1, <4>2
    <3> HIDE DEF first, up
    <3>3. p \in DOMAIN file /\ file[p] = first /\ HoldsAt(file, p + 1, Varint[up])
      <4>1. HoldsAt(file, p, <<first>> \o Varint[up])
        BY <2>5, <3>2
      <4> DEFINE t == Varint[up]
      <4>2. t \in Seq(Byte) /\ HoldsAt(file, p, <<first>> \o t)
        BY <3>2, <4>1
      <4> HIDE DEF t
      <4>3. p \in DOMAIN file /\ file[p] = first /\ HoldsAt(file, p + 1, t)
        BY <3>1, <4>2, HoldsFirst
      <4> QED
        BY <4>3 DEF t
    <3>4. up \notin Bad /\ p + 1 \in Nat
      BY <2>1, <2>3, <2>5, <3>1
    <3>5. VarintReadAt(up, p + 1)
      BY <2>2, <3>1, <3>4
    <3>6. ReadVarint[p + 1].value = up /\ ReadVarint[p + 1].next = (p + 1) + Len(Varint[up])
      BY <3>3, <3>5 DEF VarintReadAt
    <3>7. ReadVarint[p + 1] \in VarintRead
      BY <3>4, ReadVarintDef
    <3>8. ReadVarint[p] = [ReadVarint[p + 1] EXCEPT !.value = first - 128 + 128 * @]
      BY <2>6, <3>1, <3>3 DEF VarintStep
    <3>9. ReadVarint[p].value = first - 128 + 128 * ReadVarint[p + 1].value
          /\ ReadVarint[p].next = ReadVarint[p + 1].next
      BY <3>7, <3>8 DEF VarintRead
    <3>10. ReadVarint[p].value = k /\ ReadVarint[p].next = (p + 1) + Len(Varint[up])
      BY <3>1, <3>6, <3>9
    <3>11. Len(Varint[k]) = 1 + Len(Varint[up]) /\ Len(Varint[up]) \in Nat
      BY <3>1, <3>2
    <3>12. (p + 1) + Len(Varint[up]) = p + Len(Varint[k])
      <4> DEFINE x == Len(Varint[up])
                 y == Len(Varint[k])
      <4>1. x \in Nat /\ y = 1 + x
        BY <3>11
      <4> HIDE DEF x, y
      <4>2. (p + 1) + x = p + y
        BY <4>1
      <4> QED
        BY <4>2 DEF x, y
    <3> QED
      BY <2>4, <3>10, <3>12 DEF VarintReadAt
  <2> QED
    BY <2>7, <2>8
<1> QED
    BY <1>1, <1>2

-----------------------------------------------------------------------------
(***************************************************************************)
(* Page headers: fields that are skipped, and the size that is taken.      *)
(***************************************************************************)
\* What a header read returns.
HeaderRead == [next : Nat, size : Int]

\* The body of ReadHeader.
HeaderStep(f, o, open) ==
    IF o \notin DOMAIN file THEN [next |-> o, size |-> 0]
    ELSE IF file[o] = 0
         THEN IF open = 0 THEN [next |-> o + 1, size |-> 0] ELSE f[o + 1][open - 1]
    ELSE IF TypeAt(o) = StructType THEN f[o + 1][open + 1]
    ELSE LET rest == f[ReadVarint[o + 1].next][open]
         IN IF open = 0 /\ IdAt(o) = 3 THEN [rest EXCEPT !.size = ReadZigzag(o + 1)] ELSE rest

\* A zigzag read is an integer, whatever the file holds.
LEMMA ReadZigzagType ==
    ASSUME file \in Seq(Byte), NEW o \in Nat
    PROVE  ReadZigzag(o) \in Int
<1> DEFINE n == ReadVarint[o].value
<1>1. n \in Nat
    BY ReadVarintDef DEF VarintRead
<1>2. ReadZigzag(o) = IF n % 2 = 0 THEN n \div 2 ELSE -((n + 1) \div 2)
    BY DEF ReadZigzag
<1> HIDE DEF n
<1>3. (n \div 2) \in Int /\ (-((n + 1) \div 2)) \in Int
    BY <1>1
<1> QED
    BY <1>2, <1>3

\* The field at o takes one byte, or a byte and a varint.
OneByteField(o) == file[o] = 0 \/ TypeAt(o) = StructType
NextField(o) == IF OneByteField(o) THEN o + 1 ELSE ReadVarint[o + 1].next

\* The field after the one at o is beyond it.
LEMMA NextFieldForward ==
    ASSUME file \in Seq(Byte), NEW o \in Nat
    PROVE  NextField(o) \in Nat /\ o < NextField(o)
<1>1. o + 1 \in Nat /\ o < o + 1
    OBVIOUS
<1>2. ReadVarint[o + 1].next \in Nat /\ ReadVarint[o + 1].next >= o + 1
    BY <1>1, ReadVarintForward
<1> DEFINE r == ReadVarint[o + 1].next
<1>3. r \in Nat /\ r >= o + 1
    BY <1>2
<1>4. NextField(o) = IF OneByteField(o) THEN o + 1 ELSE r
    BY DEF NextField
<1> HIDE DEF r
<1>5. o < r
    BY <1>3
<1> QED
    BY <1>1, <1>3, <1>4, <1>5

\* The recursive definition of ReadHeader defines a function: every field takes a byte.
LEMMA ReadHeaderDef ==
    ASSUME file \in Seq(Byte)
    PROVE  \A o, open \in Nat : ReadHeader[o][open] = HeaderStep(ReadHeader, o, open)
<1> DEFINE V == [Nat -> HeaderRead]
           none == [open \in Nat |-> [next |-> 0, size |-> 0]]
           Base == {o \in Nat : o \notin DOMAIN file}
           b == [o \in Base |-> [open \in Nat |-> [next |-> o, size |-> 0]]]
           pred == [o \in Nat \ Base |-> NextField(o)]
           After(o, g, open) ==
               IF file[o] = 0 THEN IF open = 0 THEN [next |-> o + 1, size |-> 0] ELSE g[open - 1]
               ELSE IF TypeAt(o) = StructType THEN g[open + 1]
               ELSE IF open = 0 /\ IdAt(o) = 3 THEN [g[open] EXCEPT !.size = ReadZigzag(o + 1)]
               ELSE g[open]
           step == [o \in Nat |-> [g \in V |-> [open \in Nat |-> After(o, g, open)]]]
           Is(f) == f = [o \in Nat |-> [open \in Nat |-> HeaderStep(f, o, open)]]
<1>1. Base \subseteq Nat /\ none \in V
    BY DEF HeaderRead
<1>2. b \in [Base -> V]
    BY DEF HeaderRead
<1>3. pred \in [Nat \ Base -> Nat] /\ \A o \in Nat \ Base : Remaining[pred[o]] < Remaining[o]
  <2>1. \A o \in Nat \ Base : pred[o] = NextField(o) /\ o \in Nat /\ o \in DOMAIN file
    OBVIOUS
  <2>2. \A o \in Nat : NextField(o) \in Nat /\ o < NextField(o)
    BY NextFieldForward
  <2>3. pred \in [Nat \ Base -> Nat]
    BY <2>2
  <2> HIDE DEF Base, pred
  <2> QED
    BY <2>1, <2>2, <2>3, RemainingLess
<1>4. step \in [Nat -> [V -> V]]
  <2>1. ASSUME NEW o \in Nat, NEW g \in V, NEW open \in Nat
        PROVE  After(o, g, open) \in HeaderRead
    <3>1. [next |-> o + 1, size |-> 0] \in HeaderRead
      BY DEF HeaderRead
    <3>2. open # 0 => g[open - 1] \in HeaderRead
      OBVIOUS
    <3>3. g[open + 1] \in HeaderRead /\ g[open] \in HeaderRead
      OBVIOUS
    <3>4. ReadZigzag(o + 1) \in Int
      BY ReadZigzagType
    <3>5. [g[open] EXCEPT !.size = ReadZigzag(o + 1)] \in HeaderRead
      BY <3>3, <3>4 DEF HeaderRead
    <3> HIDE DEF V
    <3> QED
      BY <3>1, <3>2, <3>3, <3>5
  <2> HIDE DEF After
  <2> QED
    BY <2>1
<1>5. PICK f \in [Nat -> V] : Satisfies(Nat, Base, b, pred, step, f)
  <2>1. IsRecursion(Nat, V, none, Remaining, Base, b, pred, step)
    <3> HIDE DEF V, none, Base, b, pred, step
    <3> QED
      BY <1>1, <1>2, <1>3, <1>4, RemainingLess DEF IsRecursion
  <2> HIDE DEF V, none, Base, b, pred, step
  <2> QED
    BY <2>1, RecursionExists
<1>6. ASSUME NEW o \in Nat
      PROVE  f[o] = [open \in Nat |-> HeaderStep(f, o, open)]
  <2>1. CASE o \in Base
    <3>1. f[o] = [open \in Nat |-> [next |-> o, size |-> 0]]
      BY <1>5, <2>1 DEF Satisfies
    <3> QED
      BY <2>1, <3>1 DEF HeaderStep
  <2>2. CASE o \notin Base
    <3>1. f[o] = step[o][f[pred[o]]]
      BY <1>5, <2>2 DEF Satisfies
    <3>2. pred[o] = NextField(o) /\ f[NextField(o)] \in V
      BY <2>2, NextFieldForward
    <3>3. f[o] = [open \in Nat |-> After(o, f[NextField(o)], open)]
      <4> HIDE DEF V, After, Base, pred
      <4> QED
        BY <3>1, <3>2
    <3>4. ASSUME NEW open \in Nat
          PROVE  After(o, f[NextField(o)], open) = HeaderStep(f, o, open)
      <4>1. o \in DOMAIN file
        BY <2>2
      <4>2. CASE file[o] = 0
        BY <4>1, <4>2 DEF HeaderStep, NextField, OneByteField
      <4>3. CASE file[o] # 0 /\ TypeAt(o) = StructType
        BY <4>1, <4>3 DEF HeaderStep, NextField, OneByteField
      <4>4. CASE file[o] # 0 /\ TypeAt(o) # StructType
        BY <4>1, <4>4 DEF HeaderStep, NextField, OneByteField
      <4> QED
        BY <4>2, <4>3, <4>4
    <3> QED
      BY <3>3, <3>4
  <2> QED
    BY <2>1, <2>2
<1>7. Is(f)
    BY <1>6
<1>8. ReadHeader = CHOOSE g : Is(g)
    BY DEF ReadHeader, HeaderStep
<1>9. Is(ReadHeader)
  <2> HIDE DEF Is
  <2> QED
    BY <1>7, <1>8
<1>10. ASSUME NEW o \in Nat, NEW open \in Nat
       PROVE  ReadHeader[o][open] = HeaderStep(ReadHeader, o, open)
  <2> DEFINE r == ReadHeader
             Q(p, opened) == HeaderStep(ReadHeader, p, opened)
  <2>1. r = [p \in Nat |-> [opened \in Nat |-> Q(p, opened)]]
    BY <1>9
  <2> HIDE DEF r, Q
  <2>2. r[o] = [opened \in Nat |-> Q(o, opened)]
    BY <2>1
  <2>3. r[o][open] = Q(o, open)
    BY <2>2
  <2> QED
    BY <2>3 DEF r, Q
<1> QED
    BY <1>10

\* The bytes of two parts are bytes, and as many as both have.
LEMMA ConcatByte ==
    \A s, t \in Seq(Byte) : /\ s \o t \in Seq(Byte) /\ Len(s \o t) = Len(s) + Len(t)
                            /\ Len(s) \in Nat /\ Len(t) \in Nat
OBVIOUS

\* The byte before a number has its id and its type.
LEMMA FieldArithmetic ==
    \A id \in 1..14 : LET b == 16 * id + 5 IN b \in Byte /\ b # 0 /\ b % 16 = 5 /\ b \div 16 = id
BY DEF Byte

\* A zigzag of a natural is even and halves to it.
LEMMA ZigzagArithmetic ==
    \A n \in Nat : 2 * n \in Nat /\ (2 * n) % 2 = 0 /\ (2 * n) \div 2 = n
OBVIOUS

\* A number field is a byte and a varint.
LEMMA Int32FieldForm ==
    ASSUME NEW id \in 1..14, NEW n \in Nat
    PROVE  /\ Int32Field(id, n) = <<16 * id + 5>> \o Varint[2 * n]
           /\ Varint[2 * n] \in Seq(Byte) /\ Int32Field(id, n) \in Seq(Byte)
           /\ Len(Int32Field(id, n)) = 1 + Len(Varint[2 * n])
<1>1. WriteZigzag(n) = Varint[2 * n] /\ 2 * n \in Nat
    BY DEF WriteZigzag
<1>2. Int32Field(id, n) = <<16 * id + 5>> \o Varint[2 * n]
    BY <1>1 DEF Int32Field, Int32Type
<1>3. Varint[2 * n] \in Seq(Byte)
    BY <1>1, VarintDef
<1>4. 16 * id + 5 \in Byte
    BY FieldArithmetic
<1>5. <<16 * id + 5>> \in Seq(Byte) /\ Len(<<16 * id + 5>>) = 1
    BY <1>4
<1> DEFINE s == <<16 * id + 5>>
           t == Varint[2 * n]
<1>6. s \in Seq(Byte) /\ t \in Seq(Byte) /\ Len(s) = 1
    BY <1>3, <1>5
<1> HIDE DEF s, t
<1>7. s \o t \in Seq(Byte) /\ Len(s \o t) = 1 + Len(t)
    BY <1>6, ConcatByte
<1> QED
    BY <1>2, <1>3, <1>7 DEF s, t

\* The reader goes on after s.
Skipped(s, o, open) == ReadHeader[o][open] = ReadHeader[o + Len(s)][open]

\* The same, but s says the size.
SizeTaken(s, o, open, n) ==
    ReadHeader[o][open] = [ReadHeader[o + Len(s)][open] EXCEPT !.size = n]

\* A number field is skipped, or is the size.
LEMMA FieldReadBack ==
    ASSUME file \in Seq(Byte), NEW o, NEW id \in 1..14, NEW n \in Nat, NEW open \in Nat,
           HoldsAt(file, o, Int32Field(id, n))
    PROVE  /\ open # 0 \/ id # 3 => Skipped(Int32Field(id, n), o, open)
           /\ open = 0 /\ id = 3 => SizeTaken(Int32Field(id, n), o, open, n)
<1> DEFINE b == 16 * id + 5
           t == Varint[2 * n]
<1>1. b \in Byte /\ b # 0 /\ b % 16 = 5 /\ b \div 16 = id
    BY FieldArithmetic
<1>2. t \in Seq(Byte) /\ HoldsAt(file, o, <<b>> \o t) /\ Len(Int32Field(id, n)) = 1 + Len(t)
    BY Int32FieldForm
<1>3. 2 * n \in Nat /\ \A p \in Nat : VarintReadAt(2 * n, p)
    BY VarintReadBack
<1>4. o \in Nat /\ o \in DOMAIN file /\ file[o] = b /\ HoldsAt(file, o + 1, t)
  <2> HIDE DEF b, t
  <2> QED
    BY <1>1, <1>2, HoldsFirst
<1>5. ReadVarint[o + 1].value = 2 * n /\ ReadVarint[o + 1].next = (o + 1) + Len(t)
  <2>1. o + 1 \in Nat /\ HoldsAt(file, o + 1, Varint[2 * n])
    BY <1>4
  <2>2. VarintReadAt(2 * n, o + 1)
    BY <1>3, <2>1
  <2> QED
    BY <2>1, <2>2 DEF VarintReadAt
<1>6. ReadZigzag(o + 1) = n
  <2> DEFINE v == ReadVarint[o + 1].value
  <2>1. ReadZigzag(o + 1) = IF v % 2 = 0 THEN v \div 2 ELSE -((v + 1) \div 2)
    BY DEF ReadZigzag
  <2>2. v = 2 * n
    BY <1>5
  <2> HIDE DEF v
  <2> QED
    BY <2>1, <2>2, ZigzagArithmetic
<1>7. TypeAt(o) = 5 /\ IdAt(o) = id
    BY <1>1, <1>4 DEF TypeAt, IdAt
<1>8. ReadHeader[o][open] = HeaderStep(ReadHeader, o, open)
    BY <1>4, ReadHeaderDef
<1> DEFINE rest == ReadHeader[ReadVarint[o + 1].next][open]
<1>9. ReadHeader[o][open] = IF open = 0 /\ id = 3 THEN [rest EXCEPT !.size = n] ELSE rest
    BY <1>1, <1>4, <1>6, <1>7, <1>8 DEF HeaderStep, StructType
<1>10. ReadVarint[o + 1].next = o + Len(Int32Field(id, n))
  <2>1. Len(t) \in Nat
    BY <1>2
  <2> DEFINE k == Len(t)
  <2> HIDE DEF k
  <2>2. k \in Nat => (o + 1) + k = o + (1 + k)
    BY <1>4
  <2> QED
    BY <1>2, <1>5, <2>1, <2>2 DEF k
<1>11. open # 0 \/ id # 3 => ReadHeader[o][open] = rest
    BY <1>9
<1>12. open = 0 /\ id = 3 => ReadHeader[o][open] = [rest EXCEPT !.size = n]
    BY <1>9
<1> HIDE DEF b, t
<1> QED
    BY <1>10, <1>11, <1>12 DEF Skipped, SizeTaken

\* The reader goes into a struct.
LEMMA StructReadBack ==
    ASSUME file \in Seq(Byte), NEW o, NEW open \in Nat, HoldsAt(file, o, <<16 * 5 + StructType>>)
    PROVE  ReadHeader[o][open] = ReadHeader[o + 1][open + 1]
<1>1. o \in Nat /\ o \in DOMAIN file /\ file[o] = 92
    BY DEF HoldsAt, StructType
<1>2. file[o] # 0 /\ TypeAt(o) = StructType
    BY <1>1 DEF TypeAt, StructType
<1>3. ReadHeader[o][open] = HeaderStep(ReadHeader, o, open)
    BY <1>1, ReadHeaderDef
<1> QED
    BY <1>1, <1>2, <1>3 DEF HeaderStep

\* Two stop bytes end the inner struct and the header.
LEMMA StopsReadBack ==
    ASSUME file \in Seq(Byte), NEW o, HoldsAt(file, o, <<0, 0>>)
    PROVE  ReadHeader[o][1] = [next |-> o + 2, size |-> 0]
<1>1. Len(<<0, 0>>) = 2 /\ <<0, 0>>[1] = 0 /\ <<0, 0>>[2] = 0
    OBVIOUS
<1>2. o \in Nat \ {0} /\ o + 2 <= Len(file) + 1 /\ Len(file) \in Nat
    BY <1>1 DEF HoldsAt
<1>3. o \in DOMAIN file /\ o + 1 \in DOMAIN file /\ o + 1 \in Nat
    BY <1>2
<1>4. file[o] = 0 /\ file[o + 1] = 0
  <2>1. \A i \in 1..2 : file[o + i - 1] = <<0, 0>>[i]
    BY <1>1 DEF HoldsAt
  <2>2. o + 1 - 1 = o /\ o + 2 - 1 = o + 1
    BY <1>2
  <2> QED
    BY <1>1, <2>1, <2>2
<1>5. ReadHeader[o][1] = HeaderStep(ReadHeader, o, 1)
    BY <1>2, ReadHeaderDef
<1>6. ReadHeader[o + 1][0] = HeaderStep(ReadHeader, o + 1, 0)
    BY <1>3, ReadHeaderDef
<1>7. ReadHeader[o][1] = ReadHeader[o + 1][0]
    BY <1>3, <1>4, <1>5 DEF HeaderStep
<1>8. ReadHeader[o + 1][0] = [next |-> (o + 1) + 1, size |-> 0]
    BY <1>3, <1>4, <1>6 DEF HeaderStep
<1>9. (o + 1) + 1 = o + 2
    BY <1>2
<1> QED
    BY <1>7, <1>8, <1>9

\* Where the last part of what is held begins, and what is held before it.
LEMMA HoldsLast ==
    ASSUME NEW s \in Seq(Byte), NEW o, NEW t \in Seq(Byte), NEW u \in Seq(Byte), HoldsAt(s, o, t \o u)
    PROVE  /\ HoldsAt(s, o, t) /\ HoldsAt(s, o + Len(t), u)
           /\ o \in Nat /\ Len(t \o u) \in Nat /\ o + Len(t \o u) = (o + Len(t)) + Len(u)
<1>1. HoldsAt(s, o, t) /\ HoldsAt(s, o + Len(t), u)
    BY HoldsParts
<1>2. o \in Nat
    BY DEF HoldsAt
<1>3. Len(t \o u) = Len(t) + Len(u) /\ Len(t) \in Nat /\ Len(u) \in Nat
    BY ConcatByte
<1>4. \A x, y \in Nat : x + y \in Nat /\ o + (x + y) = (o + x) + y
    BY <1>2
<1> QED
    BY <1>1, <1>2, <1>3, <1>4

\* _readPageHeader() finds where the header of a page ends and the size _pageHeaderBytes()
\* wrote, whatever numbers of bytes the varints before it took.
LEMMA HeaderReadBack ==
    ASSUME file \in Seq(Byte), NEW o, NEW size \in Nat, NEW count \in Nat,
           HoldsAt(file, o, PageHeader(size, count))
    PROVE  ReadHeader[o][0] = [next |-> o + Len(PageHeader(size, count)), size |-> size]
<1> DEFINE f1 == Int32Field(1, size)
           f2 == Int32Field(2, size)
           f3 == Int32Field(3, size)
           st == <<16 * 5 + StructType>>
           g1 == Int32Field(1, count)
           g2 == Int32Field(2, 0)
           g3 == Int32Field(3, 3)
           g4 == Int32Field(4, 3)
           z  == <<0, 0>>
           a2 == f1 \o f2
           a3 == a2 \o f3
           a4 == a3 \o st
           a5 == a4 \o g1
           a6 == a5 \o g2
           a7 == a6 \o g3
           a8 == a7 \o g4
           a9 == a8 \o z
<1>1. PageHeader(size, count) = a9
    BY DEF PageHeader
<1>2. /\ f1 \in Seq(Byte) /\ f2 \in Seq(Byte) /\ f3 \in Seq(Byte) /\ g1 \in Seq(Byte)
      /\ g2 \in Seq(Byte) /\ g3 \in Seq(Byte) /\ g4 \in Seq(Byte)
  <2>1. \A id \in 1..14, n \in Nat : Int32Field(id, n) \in Seq(Byte)
    BY Int32FieldForm
  <2>2. 1 \in 1..14 /\ 2 \in 1..14 /\ 3 \in 1..14 /\ 4 \in 1..14 /\ 0 \in Nat /\ 3 \in Nat
    OBVIOUS
  <2> QED
    BY <2>1, <2>2
<1>3. st \in Seq(Byte) /\ z \in Seq(Byte)
  <2>1. 16 * 5 + StructType \in Byte /\ 0 \in Byte
    BY DEF Byte, StructType
  <2> QED
    BY <2>1
<1> DEFINE H(p, open) == ReadHeader[p][open]
<1>4. ASSUME NEW p, NEW id \in 1..14, NEW n \in Nat, NEW open \in Nat,
             HoldsAt(file, p, Int32Field(id, n)), open # 0 \/ id # 3
      PROVE  Skipped(Int32Field(id, n), p, open)
    BY <1>4, FieldReadBack
<1>5. ASSUME NEW p, HoldsAt(file, p, f3)
      PROVE  H(p, 0) = [H(p + Len(f3), 0) EXCEPT !.size = size]
  <2>1. 3 \in 1..14 /\ 0 \in Nat /\ HoldsAt(file, p, Int32Field(3, size))
    BY <1>5
  <2>2. ASSUME NEW id \in 1..14, NEW open \in Nat, HoldsAt(file, p, Int32Field(id, size)), open = 0, id = 3
        PROVE  SizeTaken(Int32Field(id, size), p, open, size)
    BY <2>2, FieldReadBack
  <2>3. SizeTaken(Int32Field(3, size), p, 0, size)
    BY <2>1, <2>2
  <2> QED
    BY <2>3 DEF SizeTaken
<1>6. HoldsAt(file, o, a9)
    BY <1>1
<1> HIDE DEF a9, a8, a7, a6, a5, a4, a3, a2, f1, f2, f3, st, g1, g2, g3, g4, z
<1>7. /\ a2 \in Seq(Byte) /\ a3 \in Seq(Byte) /\ a4 \in Seq(Byte) /\ a5 \in Seq(Byte)
      /\ a6 \in Seq(Byte) /\ a7 \in Seq(Byte) /\ a8 \in Seq(Byte)
  <2>1. a2 \in Seq(Byte)
    BY <1>2, ConcatByte DEF a2
  <2>2. a3 \in Seq(Byte)
    BY <2>1, <1>2, ConcatByte DEF a3
  <2>3. a4 \in Seq(Byte)
    BY <2>2, <1>3, ConcatByte DEF a4
  <2>4. a5 \in Seq(Byte)
    BY <2>3, <1>2, ConcatByte DEF a5
  <2>5. a6 \in Seq(Byte)
    BY <2>4, <1>2, ConcatByte DEF a6
  <2>6. a7 \in Seq(Byte)
    BY <2>5, <1>2, ConcatByte DEF a7
  <2>7. a8 \in Seq(Byte)
    BY <2>6, <1>2, ConcatByte DEF a8
  <2> QED
    BY <2>1, <2>2, <2>3, <2>4, <2>5, <2>6, <2>7
<1> HIDE DEF H
<1>7a. \A t, u \in Seq(Byte) :
          HoldsAt(file, o, t \o u) => /\ HoldsAt(file, o, t) /\ HoldsAt(file, o + Len(t), u)
                                     /\ o + Len(t \o u) = (o + Len(t)) + Len(u)
  <2>1. ASSUME NEW t \in Seq(Byte), NEW u \in Seq(Byte), HoldsAt(file, o, t \o u)
        PROVE  /\ HoldsAt(file, o, t) /\ HoldsAt(file, o + Len(t), u)
               /\ o + Len(t \o u) = (o + Len(t)) + Len(u)
    BY <2>1, HoldsLast
  <2> QED
    BY <2>1
<1>8. HoldsAt(file, o, a8) /\ HoldsAt(file, o + Len(a8), z) /\ o + Len(a9) = (o + Len(a8)) + Len(z)
    BY <1>3, <1>6, <1>7, <1>7a, Zenon DEF a9
<1>9. HoldsAt(file, o, a7) /\ HoldsAt(file, o + Len(a7), g4) /\ o + Len(a8) = (o + Len(a7)) + Len(g4)
    BY <1>2, <1>8, <1>7, <1>7a, Zenon DEF a8
<1>10. HoldsAt(file, o, a6) /\ HoldsAt(file, o + Len(a6), g3) /\ o + Len(a7) = (o + Len(a6)) + Len(g3)
    BY <1>2, <1>9, <1>7, <1>7a, Zenon DEF a7
<1>11. HoldsAt(file, o, a5) /\ HoldsAt(file, o + Len(a5), g2) /\ o + Len(a6) = (o + Len(a5)) + Len(g2)
    BY <1>2, <1>10, <1>7, <1>7a, Zenon DEF a6
<1>12. HoldsAt(file, o, a4) /\ HoldsAt(file, o + Len(a4), g1) /\ o + Len(a5) = (o + Len(a4)) + Len(g1)
    BY <1>2, <1>11, <1>7, <1>7a, Zenon DEF a5
<1>13. HoldsAt(file, o, a3) /\ HoldsAt(file, o + Len(a3), st) /\ o + Len(a4) = (o + Len(a3)) + Len(st)
    BY <1>3, <1>12, <1>7, <1>7a, Zenon DEF a4
<1>14. HoldsAt(file, o, a2) /\ HoldsAt(file, o + Len(a2), f3) /\ o + Len(a3) = (o + Len(a2)) + Len(f3)
    BY <1>2, <1>13, <1>7, <1>7a, Zenon DEF a3
<1>15. HoldsAt(file, o, f1) /\ HoldsAt(file, o + Len(f1), f2) /\ o + Len(a2) = (o + Len(f1)) + Len(f2)
    BY <1>2, <1>14, <1>7a, Zenon DEF a2
<1>15a. Len(st) = 1 /\ Len(z) = 2
    BY DEF st, z
<1>15b. 1 \in 1..14 /\ 2 \in 1..14 /\ 3 \in 1..14 /\ 4 \in 1..14 /\ 0 \in Nat /\ 1 \in Nat
        /\ 3 \in Nat /\ 1 # 0 /\ 1 # 3 /\ 2 # 3
    OBVIOUS
<1>16. H(o, 0) = H(o + Len(a2), 0)
  <2>1. Skipped(f1, o, 0)
    BY <1>15, <1>15b, <1>4 DEF f1
  <2>2. Skipped(f2, o + Len(f1), 0)
    BY <1>15, <1>15b, <1>4 DEF f2
  <2> QED
    BY <1>15, <2>1, <2>2 DEF Skipped, H
<1>17. H(o + Len(a2), 0) = [H(o + Len(a3), 0) EXCEPT !.size = size]
    BY <1>5, <1>14
<1>18. H(o + Len(a3), 0) = H(o + Len(a4), 1)
  <2>1. ReadHeader[o + Len(a3)][0] = ReadHeader[(o + Len(a3)) + 1][0 + 1]
    BY <1>13, StructReadBack DEF st
  <2>2. o + Len(a4) = (o + Len(a3)) + 1
    BY <1>13, <1>15a
  <2> QED
    BY <2>1, <2>2 DEF H
<1>19. H(o + Len(a4), 1) = H(o + Len(a5), 1)
  <2>1. Skipped(g1, o + Len(a4), 1)
    BY <1>12, <1>15b, <1>4 DEF g1
  <2> QED
    BY <1>12, <2>1 DEF Skipped, H
<1>20. H(o + Len(a5), 1) = H(o + Len(a6), 1)
  <2>1. Skipped(g2, o + Len(a5), 1)
    BY <1>11, <1>15b, <1>4 DEF g2
  <2> QED
    BY <1>11, <2>1 DEF Skipped, H
<1>21. H(o + Len(a6), 1) = H(o + Len(a7), 1)
  <2>1. Skipped(g3, o + Len(a6), 1)
    BY <1>10, <1>15b, <1>4 DEF g3
  <2> QED
    BY <1>10, <2>1 DEF Skipped, H
<1>22. H(o + Len(a7), 1) = H(o + Len(a8), 1)
  <2>1. Skipped(g4, o + Len(a7), 1)
    BY <1>9, <1>15b, <1>4 DEF g4
  <2> QED
    BY <1>9, <2>1 DEF Skipped, H
<1>23. H(o + Len(a8), 1) = [next |-> o + Len(a9), size |-> 0]
  <2>1. ReadHeader[o + Len(a8)][1] = [next |-> (o + Len(a8)) + 2, size |-> 0]
    BY <1>8, StopsReadBack DEF z
  <2>2. o + Len(a9) = (o + Len(a8)) + 2
    BY <1>8, <1>15a
  <2> QED
    BY <2>1, <2>2 DEF H
<1>24. H(o, 0) = [[next |-> o + Len(a9), size |-> 0] EXCEPT !.size = size]
    BY <1>16, <1>17, <1>18, <1>19, <1>20, <1>21, <1>22, <1>23
<1>25. H(o, 0) = [next |-> o + Len(a9), size |-> size]
    BY <1>24
<1> QED
    BY <1>1, <1>25 DEF H

-----------------------------------------------------------------------------
(***************************************************************************)
(* Values: numbers of a width, little and big endian, and strings.         *)
(***************************************************************************)
\* Recursion over the width of a number goes down by one.
Identity == [n \in Nat |-> n]
OneLess(Base) == [n \in Nat \ Base |-> n - 1]

\* Going down by one goes down.
LEMMA IdentityDown ==
    ASSUME NEW Base, 0 \in Base
    PROVE  /\ Identity \in [Nat -> Nat] /\ OneLess(Base) \in [Nat \ Base -> Nat]
           /\ \A n \in Nat \ Base : Identity[OneLess(Base)[n]] < Identity[n]
BY DEF Identity, OneLess

\* The low byte and the rest give a number back; of a number that fits one byte, the byte
\* has the sign.
LEMMA LowByteArithmetic ==
    \A n \in Int : /\ n % 256 \in Byte /\ n \div 256 \in Int
                   /\ (n % 256) + 256 * (n \div 256) = n
                   /\ n \in -128..127 => n = IF n % 256 < 128 THEN n % 256 ELSE (n % 256) - 256
BY DEF Byte

\* The low byte of a number, and the rest.
LowByte(n) == <<n % 256>>
High(n) == n \div 256

\* The low byte is one byte.
LEMMA LowByteType ==
    \A n \in Int : LowByte(n) \in Seq(Byte) /\ Len(LowByte(n)) = 1 /\ High(n) \in Int
BY LowByteArithmetic DEF LowByte, High

\* The recursive definition of Little defines a function for each width.
LEMMA LittleDef ==
    /\ \A w \in Nat : Little[w] \in [Int -> Seq(Byte)]
    /\ \A n \in Int : Little[0][n] = <<>>
    /\ \A w \in Nat \ {0}, n \in Int : Little[w][n] = LowByte(n) \o Little[w - 1][High(n)]
<1> DEFINE V == [Int -> Seq(Byte)]
           none == [n \in Int |-> <<>>]
           base == {0}
           b == [w \in base |-> none]
           step == [w \in Nat |-> [g \in V |-> [n \in Int |-> LowByte(n) \o g[High(n)]]]]
           Step(g, w) == [n \in Int |-> IF w = 0 THEN <<>> ELSE LowByte(n) \o g[w - 1][High(n)]]
           Is(g) == g = [w \in Nat |-> Step(g, w)]
<1>1. none \in V /\ b \in [base -> V] /\ base \subseteq Nat /\ 0 \in base
    OBVIOUS
<1>2. ASSUME NEW g \in V, NEW n \in Int
      PROVE  LowByte(n) \o g[High(n)] \in Seq(Byte)
  <2>1. LowByte(n) \in Seq(Byte) /\ g[High(n)] \in Seq(Byte)
    BY LowByteType
  <2> QED
    BY <2>1, ConcatByte
<1>3. step \in [Nat -> [V -> V]]
    BY <1>2
<1>4. PICK f \in [Nat -> V] : Satisfies(Nat, base, b, OneLess(base), step, f)
  <2>1. IsRecursion(Nat, V, none, Identity, base, b, OneLess(base), step)
    <3> HIDE DEF V, none, base, b, step
    <3> QED
      BY <1>1, <1>3, IdentityDown DEF IsRecursion
  <2> HIDE DEF V, none, base, b, step
  <2> QED
    BY <2>1, RecursionExists
<1>5. f[0] = none
  <2>1. 0 \in Nat /\ 0 \in base /\ b[0] = none
    OBVIOUS
  <2> HIDE DEF base, b, step, none
  <2> QED
    BY <1>4, <2>1 DEF Satisfies
<1>6. ASSUME NEW w \in Nat \ {0}
      PROVE  f[w] = [n \in Int |-> LowByte(n) \o f[w - 1][High(n)]]
  <2>1. f[w] = step[w][f[OneLess(base)[w]]]
    BY <1>4 DEF Satisfies
  <2>2. OneLess(base)[w] = w - 1 /\ w - 1 \in Nat /\ f[w - 1] \in V
    BY DEF OneLess
  <2> HIDE DEF V, base
  <2> QED
    BY <2>1, <2>2
<1>7. Is(f)
  <2>1. ASSUME NEW w \in Nat
        PROVE  f[w] = Step(f, w)
    <3>1. CASE w = 0
      BY <1>5, <3>1
    <3>2. CASE w # 0
      <4>1. w \in Nat \ {0}
        BY <3>2
      <4>2. f[w] = [n \in Int |-> LowByte(n) \o f[w - 1][High(n)]]
        BY <1>6, <4>1
      <4> HIDE DEF V
      <4> QED
        BY <3>2, <4>2
    <3> QED
      BY <3>1, <3>2
  <2> HIDE DEF Step
  <2> QED
    BY <2>1
<1>8. Little = CHOOSE g : Is(g)
    BY DEF Little, LowByte, High
<1>9. Is(Little)
  <2> HIDE DEF Is
  <2> QED
    BY <1>7, <1>8
<1>10. f = Little
  <2>1. Little = [w \in Nat |-> Little[w]]
    <3> HIDE DEF Step
    <3> QED
      BY <1>9
  <2>2. \A w \in Nat : f[w] = Step(f, w) /\ Little[w] = Step(Little, w)
    <3> HIDE DEF Step
    <3> QED
      BY <1>7, <1>9
  <2>3. f[0] = Little[0]
    <3>1. Step(f, 0) = Step(Little, 0)
      OBVIOUS
    <3> HIDE DEF Step
    <3> QED
      BY <2>2, <3>1
  <2>4. ASSUME NEW w \in Nat \ base, f[OneLess(base)[w]] = Little[OneLess(base)[w]]
        PROVE  f[w] = Little[w]
    <3>1. f[w - 1] = Little[w - 1] /\ w # 0 /\ w \in Nat
      BY <2>4 DEF OneLess
    <3>2. Step(f, w) = Step(Little, w)
      BY <3>1
    <3> HIDE DEF Step
    <3> QED
      BY <2>2, <3>1, <3>2
  <2>5. f = [w \in Nat |-> f[w]]
    OBVIOUS
  <2>6. \A w \in base : w \in Nat => f[w] = Little[w]
    BY <2>3
  <2>7. AgreeStepwise(Nat, Identity, base, OneLess(base), f, Little)
    <3> HIDE DEF base, V
    <3> QED
      BY <1>1, <2>1, <2>4, <2>5, <2>6, IdentityDown DEF AgreeStepwise
  <2> HIDE DEF base
  <2> QED
    BY <2>7, RecursionUnique
<1> DEFINE Done(g) == /\ \A w \in Nat : g[w] \in [Int -> Seq(Byte)]
                      /\ \A n \in Int : g[0][n] = <<>>
                      /\ \A w \in Nat \ {0}, n \in Int : g[w][n] = LowByte(n) \o g[w - 1][High(n)]
<1>11. Done(f)
  <2>1. \A n \in Int : f[0][n] = <<>>
    BY <1>5
  <2>2. ASSUME NEW w \in Nat \ {0}, NEW n \in Int
        PROVE  f[w][n] = LowByte(n) \o f[w - 1][High(n)]
    <3> HIDE DEF V
    <3>1. f[w] = [k \in Int |-> LowByte(k) \o f[w - 1][High(k)]]
      BY <1>6
    <3> QED
      BY <3>1
  <2> QED
    BY <2>1, <2>2
<1> HIDE DEF Done
<1>12. Done(Little)
    BY <1>10, <1>11
<1> QED
    BY <1>12 DEF Done

\* A number takes as many bytes as it is given.
LEMMA LittleLength ==
    ASSUME NEW w \in Nat, NEW n \in Int
    PROVE  Little[w][n] \in Seq(Byte) /\ Len(Little[w][n]) = w
<1> DEFINE P(k) == \A x \in Int : Little[k][x] \in Seq(Byte) /\ Len(Little[k][x]) = k
           S == {k \in Nat : P(k)}
<1>1. 0 \in S
  <2>1. \A x \in Int : Little[0][x] = <<>>
    BY LittleDef
  <2>2. <<>> \in Seq(Byte) /\ Len(<<>>) = 0
    OBVIOUS
  <2>3. P(0)
    BY <2>1, <2>2, Zenon
  <2> QED
    BY <2>3
<1>2. ASSUME NEW k \in Nat, P(k)
      PROVE  P(k + 1)
  <2> TAKE x \in Int
  <2> DEFINE s == LowByte(x)
             t == Little[k][High(x)]
  <2>1. k + 1 \in Nat \ {0} /\ (k + 1) - 1 = k
    OBVIOUS
  <2>2. Little[k + 1][x] = s \o t
    <3>1. \A j \in Nat \ {0} : Little[j][x] = LowByte(x) \o Little[j - 1][High(x)]
      BY LittleDef
    <3>2. Little[k + 1][x] = LowByte(x) \o Little[(k + 1) - 1][High(x)]
      BY <2>1, <3>1
    <3> QED
      BY <2>1, <3>2
  <2>3. s \in Seq(Byte) /\ Len(s) = 1 /\ High(x) \in Int
    BY LowByteType
  <2>4. t \in Seq(Byte) /\ Len(t) = k
    BY <1>2, <2>3
  <2> HIDE DEF s, t
  <2>5. s \o t \in Seq(Byte) /\ Len(s \o t) = k + 1
    <3>1. s \o t \in Seq(Byte) /\ Len(s \o t) = Len(s) + Len(t)
      BY <2>3, <2>4, ConcatByte, Zenon
    <3>2. Len(s) + Len(t) = k + 1
      BY <2>3, <2>4
    <3> QED
      BY <3>1, <3>2
  <2> QED
    BY <2>2, <2>5
<1>3. \A k \in Nat : k \in S <=> P(k)
    OBVIOUS
<1>4. S \subseteq Nat
    OBVIOUS
<1> HIDE DEF S, P
<1>5. \A k \in S : k + 1 \in S
    BY <1>2, <1>3, <1>4
<1>6. S = Nat
    BY <1>1, <1>4, <1>5, NaturalInduction
<1>7. P(w)
    BY <1>3, <1>6
<1> QED
    BY <1>7 DEF P

\* The numbers that fit one byte.
OneByte == -128..127

\* The recursive definition of Fits defines a function for each width.
LEMMA FitsDef ==
    /\ \A n \in Int : Fits[1][n] = (n \in OneByte)
    /\ \A w \in Nat \ {0, 1}, n \in Int : Fits[w][n] = Fits[w - 1][High(n)]
<1> DEFINE V == [Int -> BOOLEAN]
           base == {0, 1}
           signed == [n \in Int |-> n \in OneByte]
           b == [w \in base |-> signed]
           step == [w \in Nat |-> [g \in V |-> [n \in Int |-> g[High(n)]]]]
           Step(g, w) == [n \in Int |-> IF w <= 1 THEN n \in OneByte ELSE g[w - 1][High(n)]]
           Is(g) == g = [w \in Nat |-> Step(g, w)]
<1>1. signed \in V /\ b \in [base -> V] /\ base \subseteq Nat /\ 0 \in base /\ 1 \in base
    OBVIOUS
<1>2. step \in [Nat -> [V -> V]]
    BY LowByteType
<1>3. PICK f \in [Nat -> V] : Satisfies(Nat, base, b, OneLess(base), step, f)
  <2>1. IsRecursion(Nat, V, signed, Identity, base, b, OneLess(base), step)
    <3> HIDE DEF V, signed, base, b, step
    <3> QED
      BY <1>1, <1>2, IdentityDown DEF IsRecursion
  <2> HIDE DEF V, signed, base, b, step
  <2> QED
    BY <2>1, RecursionExists
<1>4. ASSUME NEW w \in base
      PROVE  f[w] = signed
  <2>1. w \in Nat /\ b[w] = signed
    OBVIOUS
  <2> HIDE DEF base, b, step, signed
  <2> QED
    BY <1>3, <2>1 DEF Satisfies
<1>5. ASSUME NEW w \in Nat \ base
      PROVE  f[w] = [n \in Int |-> f[w - 1][High(n)]]
  <2>1. f[w] = step[w][f[OneLess(base)[w]]]
    BY <1>3 DEF Satisfies
  <2>2. OneLess(base)[w] = w - 1 /\ w - 1 \in Nat /\ f[w - 1] \in V
    BY DEF OneLess
  <2> HIDE DEF V, base
  <2> QED
    BY <2>1, <2>2
<1>6. Is(f)
  <2>1. ASSUME NEW w \in Nat
        PROVE  f[w] = Step(f, w)
    <3>1. CASE w \in base
      <4>1. w <= 1
        BY <3>1
      <4> HIDE DEF base, V
      <4> QED
        BY <1>4, <3>1, <4>1
    <3>2. CASE w \notin base
      <4>1. w \in Nat \ base /\ ~ (w <= 1)
        BY <3>2
      <4>2. f[w] = [n \in Int |-> f[w - 1][High(n)]]
        BY <1>5, <4>1
      <4> HIDE DEF V
      <4> QED
        BY <4>1, <4>2
    <3> QED
      BY <3>1, <3>2
  <2> HIDE DEF Step
  <2> QED
    BY <2>1
<1>7. Fits = CHOOSE g : Is(g)
    BY DEF Fits, OneByte, High
<1>8. Is(Fits)
  <2> HIDE DEF Is
  <2> QED
    BY <1>6, <1>7
<1>9. \A w \in Nat : Fits[w] = Step(Fits, w)
  <2> HIDE DEF Step
  <2> QED
    BY <1>8
<1>10. Fits[1] = Step(Fits, 1)
    BY <1>9
<1>11. ASSUME NEW w \in Nat \ {0, 1}, NEW n \in Int
       PROVE  Fits[w][n] = Fits[w - 1][High(n)]
  <2>1. Fits[w] = Step(Fits, w) /\ ~ (w <= 1)
    BY <1>9
  <2> QED
    BY <2>1
<1> QED
    BY <1>10, <1>11

\* The last byte has the sign, any other is below the rest.
TopByte(x) == IF x < 128 THEN x ELSE x - 256
Wide(x, v) == x + 256 * v

\* Both are integers.
LEMMA SignedArithmetic ==
    \A x \in Byte : TopByte(x) \in Int /\ \A v \in Int : Wide(x, v) \in Int
BY DEF Byte, TopByte, Wide

\* The body of Signed.
SignedStep(f, s) ==
    IF Len(s) <= 1 THEN IF s = <<>> THEN 0 ELSE TopByte(s[1]) ELSE Wide(s[1], f[Tail(s)])

\* The recursive definition of Signed defines a function: each tail is shorter.
LEMMA SignedDef == \A s \in Seq(Byte) : Signed[s] = SignedStep(Signed, s)
<1> DEFINE D == Seq(Byte)
           length == [s \in D |-> Len(s)]
           base == {s \in D : Len(s) <= 1}
           b == [s \in base |-> IF s = <<>> THEN 0 ELSE TopByte(s[1])]
           pred == [s \in D \ base |-> Tail(s)]
           step == [s \in D |-> [v \in Int |-> IF s \in base THEN 0 ELSE Wide(s[1], v)]]
           Is(g) == g = [s \in D |-> SignedStep(g, s)]
<1>1. base \subseteq D /\ length \in [D -> Nat] /\ 0 \in Int
    OBVIOUS
<1>2. \A s \in D : s # <<>> => s[1] \in Byte
    OBVIOUS
<1>3. b \in [base -> Int]
  <2>1. \A s \in base : s \in D
    OBVIOUS
  <2> HIDE DEF base, D
  <2> QED
    BY <1>2, <2>1, SignedArithmetic
<1>4. pred \in [D \ base -> D] /\ \A s \in D \ base : length[pred[s]] < length[s]
  <2>1. ASSUME NEW s \in D \ base
        PROVE  Tail(s) \in D /\ Len(Tail(s)) < Len(s)
    BY HeadTailProperties
  <2>2. pred \in [D \ base -> D]
    BY <2>1
  <2>3. \A s \in D \ base : pred[s] = Tail(s) /\ s \in D
    OBVIOUS
  <2>4. \A s \in D : length[s] = Len(s)
    OBVIOUS
  <2> HIDE DEF D, base, pred, length
  <2> QED
    BY <2>1, <2>2, <2>3, <2>4
<1>5. step \in [D -> [Int -> Int]]
  <2>1. ASSUME NEW s \in D \ base, NEW v \in Int
        PROVE  Wide(s[1], v) \in Int
    <3>1. s[1] \in Byte
      OBVIOUS
    <3> QED
      BY <3>1, SignedArithmetic
  <2> HIDE DEF D, base
  <2> QED
    BY <2>1
<1>6. PICK f \in [D -> Int] : Satisfies(D, base, b, pred, step, f)
  <2>1. IsRecursion(D, Int, 0, length, base, b, pred, step)
    <3> HIDE DEF D, length, base, b, pred, step
    <3> QED
      BY <1>1, <1>3, <1>4, <1>5 DEF IsRecursion
  <2> HIDE DEF D, length, base, b, pred, step
  <2> QED
    BY <2>1, RecursionExists
<1>7. ASSUME NEW s \in D
      PROVE  f[s] = SignedStep(f, s)
  <2>1. CASE s \in base
    <3>1. f[s] = b[s]
      <4> HIDE DEF D, base, b, pred, step
      <4> QED
        BY <1>6, <2>1 DEF Satisfies
    <3> QED
      BY <2>1, <3>1 DEF SignedStep
  <2>2. CASE s \notin base
    <3>1. f[s] = step[s][f[pred[s]]]
      <4> HIDE DEF D, base, b, pred, step
      <4> QED
        BY <1>6, <2>2 DEF Satisfies
    <3>2. pred[s] = Tail(s) /\ f[Tail(s)] \in Int
      <4>1. Tail(s) \in D
        BY <2>2, HeadTailProperties
      <4> QED
        BY <2>2, <4>1
    <3>3. f[s] = Wide(s[1], f[Tail(s)])
      <4> HIDE DEF D, base, pred
      <4> QED
        BY <2>2, <3>1, <3>2
    <3> QED
      BY <2>2, <3>3 DEF SignedStep
  <2> QED
    BY <2>1, <2>2
<1>8. Is(f)
  <2> HIDE DEF D
  <2> QED
    BY <1>7
<1>9. Signed = CHOOSE g : Is(g)
    BY DEF Signed, SignedStep, TopByte, Wide
<1>10. Is(Signed)
  <2> HIDE DEF Is
  <2> QED
    BY <1>8, <1>9
<1> HIDE DEF D
<1>11. \A s \in D : Signed[s] = SignedStep(Signed, s)
    BY <1>10
<1> QED
    BY <1>11 DEF D

\* The value of one byte, and of more.
LEMMA SignedForms ==
    ASSUME NEW s \in Seq(Byte)
    PROVE  /\ Len(s) = 1 => Signed[s] = TopByte(s[1])
           /\ Len(s) > 1 => Signed[s] = Wide(s[1], Signed[Tail(s)])
<1>1. Signed[s] = SignedStep(Signed, s) /\ Len(s) \in Nat
    BY SignedDef
<1>2. Len(s) = 1 => s # <<>> /\ Len(s) <= 1
    OBVIOUS
<1>3. Len(s) > 1 => ~ (Len(s) <= 1)
    BY <1>1
<1> QED
    BY <1>1, <1>2, <1>3 DEF SignedStep

\* The low byte of a number gives it back, alone or with the rest.
LEMMA LowByteValue ==
    \A n \in Int : /\ LowByte(n)[1] \in Byte /\ Wide(LowByte(n)[1], High(n)) = n
                   /\ n \in OneByte => TopByte(LowByte(n)[1]) = n
BY LowByteArithmetic DEF LowByte, High, Wide, TopByte, OneByte

\* Head and tail of one byte before others.
LEMMA ConcatOne ==
    ASSUME NEW s \in Seq(Byte), NEW t \in Seq(Byte), Len(s) = 1
    PROVE  (s \o t)[1] = s[1] /\ Tail(s \o t) = t /\ Len(s \o t) = 1 + Len(t)
<1>1. s \o t \in Seq(Byte) /\ Len(s \o t) = 1 + Len(t) /\ Len(t) \in Nat /\ (s \o t)[1] = s[1]
  <2>1. s \o t \in Seq(Byte) /\ Len(s \o t) = Len(s) + Len(t) /\ Len(t) \in Nat
    BY ConcatByte
  <2>2. \A i \in 1..Len(s) + Len(t) : (s \o t)[i] = IF i <= Len(s) THEN s[i] ELSE t[i - Len(s)]
    BY ConcatProperties
  <2>3. (s \o t)[1] = s[1]
    BY <2>1, <2>2
  <2> QED
    BY <2>1, <2>3
<1>2. ASSUME NEW i \in 1..Len(t)
      PROVE  (s \o t)[i + 1] = t[i]
  <2>1. \A j \in 1..Len(s) + Len(t) : (s \o t)[j] = IF j <= Len(s) THEN s[j] ELSE t[j - Len(s)]
    BY ConcatProperties
  <2>2. i + 1 \in 1..Len(s) + Len(t) /\ ~ (i + 1 <= Len(s)) /\ (i + 1) - Len(s) = i
    BY <1>1
  <2> QED
    BY <2>1, <2>2
<1> DEFINE w == s \o t
<1>3. w # <<>>
    BY <1>1
<1>4. Tail(w) \in Seq(Byte) /\ Len(Tail(w)) = Len(w) - 1 /\ \A i \in 1..Len(Tail(w)) : Tail(w)[i] = w[i + 1]
  <2> HIDE DEF w
  <2> QED
    BY <1>1, <1>3, HeadTailProperties DEF w
<1>5. Len(Tail(w)) = Len(t)
    BY <1>1, <1>4
<1>6. \A i \in 1..Len(t) : Tail(w)[i] = t[i]
    BY <1>2, <1>4, <1>5
<1> HIDE DEF w
<1>7. Tail(w) = t
    BY <1>4, <1>5, <1>6, SeqEqual
<1> QED
    BY <1>1, <1>7 DEF w

\* A number that fits w bytes is their value.
NumberReadBack(w, n) == Fits[w][n] => Signed[Little[w][n]] = n

\* A number that fits is read back from its bytes.
LEMMA SignedLittle ==
    ASSUME NEW w \in Nat \ {0}, NEW n \in Int
    PROVE  NumberReadBack(w, n)
<1> DEFINE P(k) == \A x \in Int : NumberReadBack(k + 1, x)
           S == {k \in Nat : P(k)}
<1>1. P(0)
  <2> TAKE x \in Int
  <2> SUFFICES ASSUME Fits[1][x]
               PROVE  Signed[Little[1][x]] = x
    BY DEF NumberReadBack
  <2>1. x \in OneByte
    BY FitsDef
  <2>2. ASSUME NEW j \in Nat \ {0}, NEW i, i = j - 1
        PROVE  Little[j][x] = LowByte(x) \o Little[i][High(x)]
    BY <2>2, LittleDef
  <2>3. Little[1][x] = LowByte(x) \o Little[0][High(x)]
    <3>1. 1 \in Nat \ {0} /\ 0 = 1 - 1
      OBVIOUS
    <3> QED
      BY <2>2, <3>1
  <2>4. High(x) \in Int /\ LowByte(x) \in Seq(Byte) /\ Len(LowByte(x)) = 1
    BY LowByteType
  <2>5. Little[0][High(x)] = <<>>
    BY <2>4, LittleDef
  <2>6. Little[1][x] = LowByte(x)
    <3>1. LowByte(x) \o <<>> = LowByte(x)
      BY <2>4, ConcatEmptySeq
    <3> QED
      BY <2>3, <2>5, <3>1
  <2>7. Signed[LowByte(x)] = TopByte(LowByte(x)[1])
    BY <2>4, SignedForms
  <2> QED
    BY <2>1, <2>6, <2>7, LowByteValue
<1>2. ASSUME NEW k \in Nat, P(k)
      PROVE  P(k + 1)
  <2> TAKE x \in Int
  <2> DEFINE j == k + 1
             i == (k + 1) + 1
             t == Little[j][High(x)]
  <2>1. j \in Nat \ {0} /\ i \in Nat \ {0} /\ i \in Nat \ {0, 1} /\ i - 1 = j /\ j > 0
    OBVIOUS
  <2>2. High(x) \in Int /\ LowByte(x) \in Seq(Byte) /\ Len(LowByte(x)) = 1
    BY LowByteType
  <2>3. NumberReadBack(j, High(x))
    BY <1>2, <2>2
  <2> HIDE DEF i, j
  <2>4. Fits[i][x] = Fits[i - 1][High(x)]
    BY <2>1, FitsDef
  <2>5. Little[i][x] = LowByte(x) \o Little[i - 1][High(x)]
    BY <2>1, LittleDef
  <2>6. t \in Seq(Byte) /\ Len(t) = j
    BY <2>1, <2>2, LittleLength
  <2> SUFFICES ASSUME Fits[i][x]
               PROVE  Signed[Little[i][x]] = x
    BY DEF NumberReadBack, i
  <2>7. Signed[t] = High(x)
    BY <2>1, <2>3, <2>4 DEF NumberReadBack
  <2> HIDE DEF t
  <2>8. Little[i][x] = LowByte(x) \o t
    BY <2>1, <2>5 DEF t
  <2> DEFINE s == LowByte(x) \o t
  <2>9. s \in Seq(Byte) /\ s[1] = LowByte(x)[1] /\ Tail(s) = t /\ Len(s) = 1 + Len(t)
    BY <2>2, <2>6, ConcatOne, ConcatByte
  <2> HIDE DEF s
  <2>10. Len(s) > 1
    BY <2>1, <2>6, <2>9
  <2>11. Signed[s] = Wide(s[1], Signed[Tail(s)])
    BY <2>9, <2>10, SignedForms
  <2>12. Signed[s] = Wide(LowByte(x)[1], High(x))
    BY <2>7, <2>9, <2>11
  <2> QED
    BY <2>8, <2>12, LowByteValue DEF s
<1>3. \A k \in Nat : k \in S <=> P(k)
    OBVIOUS
<1>4. S \subseteq Nat
    OBVIOUS
<1> HIDE DEF S, P
<1>5. 0 \in S /\ \A k \in S : k + 1 \in S
    BY <1>1, <1>2, <1>3, <1>4
<1>6. S = Nat
    BY <1>4, <1>5, NaturalInduction
<1>7. P(w - 1) /\ (w - 1) + 1 = w
    BY <1>3, <1>6
<1> QED
    BY <1>7 DEF P

\* The bytes of a decimal are written backwards and turned round by the reader.
LEMMA ReverseTwice ==
    ASSUME NEW s \in Seq(Byte)
    PROVE  Reverse(s) \in Seq(Byte) /\ Len(Reverse(s)) = Len(s) /\ Reverse(Reverse(s)) = s
<1> DEFINE n == Len(s)
           r == Reverse(s)
<1>1. n \in Nat /\ \A i \in 1..n : n - i + 1 \in 1..n
    OBVIOUS
<1>2. r = [i \in 1..n |-> s[(n - i) + 1]]
    BY DEF Reverse
<1>3. \A i \in 1..n : s[(n - i) + 1] \in Byte
    BY <1>1
<1>4. r \in Seq(Byte) /\ Len(r) = n
    BY <1>1, <1>2, <1>3
<1>5. \A i \in 1..n : r[i] = s[(n - i) + 1]
    BY <1>2
<1> DEFINE q == Reverse(r)
<1>6. q = [i \in 1..n |-> r[(n - i) + 1]]
    BY <1>4 DEF Reverse
<1> HIDE DEF r
<1>7. \A i \in 1..n : (n - i) + 1 \in 1..n /\ r[(n - i) + 1] \in Byte
    BY <1>1, <1>4
<1>8. q \in Seq(Byte) /\ Len(q) = n
    BY <1>1, <1>6, <1>7
<1>9. ASSUME NEW i \in 1..n
      PROVE  q[i] = s[i]
  <2>1. q[i] = r[(n - i) + 1] /\ (n - i) + 1 \in 1..n
    BY <1>6, <1>7
  <2>2. r[(n - i) + 1] = s[(n - ((n - i) + 1)) + 1]
    BY <1>5, <2>1
  <2>3. (n - ((n - i) + 1)) + 1 = i
    BY <1>1
  <2> QED
    BY <2>1, <2>2, <2>3
<1> HIDE DEF q
<1>10. q = s
    BY <1>8, <1>9, SeqEqual
<1> QED
    BY <1>4, <1>10 DEF q, r

\* The widths of the kinds of numbers.
LEMMA Widths ==
    /\ Width("int64") = 8 /\ Width("int32") = 4 /\ Width("decimal") = 16 /\ Width("flag") = 1
BY DEF Width

\* The kinds a column may have.
Kind == NumberKind \cup {"text", "flag"}

\* A number of a kind: its bytes, one after the other or backwards.
LEMMA NumberValueReadBack ==
    ASSUME file \in Seq(Byte), NEW kind \in Kind \ {"text"}, NEW v \in Int, Encodable(kind, v), NEW p,
           HoldsAt(file, p, Plain(kind, v))
    PROVE  Len(Plain(kind, v)) = LengthAt(kind, p) /\ ValueAt(kind, p) = v
<1>1. Width(kind) \in Nat \ {0}
    BY Widths DEF Kind, NumberKind
<1> DEFINE w == Width(kind)
           t == Little[w][v]
<1>2. t \in Seq(Byte) /\ Len(t) = w
    BY <1>1, LittleLength
<1>3. Fits[w][v]
    BY DEF Encodable
<1>4. Signed[t] = v
  <2>1. NumberReadBack(w, v)
    BY <1>1, SignedLittle
  <2> QED
    BY <1>3, <2>1 DEF NumberReadBack
<1>5. LengthAt(kind, p) = w
    BY DEF LengthAt
<1>6. CASE kind = "decimal"
  <2>1. w = 16
    BY <1>6, Widths
  <2>2. Plain(kind, v) = Reverse(t)
    BY <1>6, <2>1 DEF Plain
  <2>3. Reverse(t) \in Seq(Byte) /\ Len(Reverse(t)) = w /\ Reverse(Reverse(t)) = t
    BY <1>2, ReverseTwice
  <2> DEFINE r == Reverse(t)
  <2>4. HoldsAt(file, p, r)
    BY <2>2
  <2> HIDE DEF r, w, t
  <2>5. SubSeq(file, p, p + Len(r) - 1) = r
    BY <2>3, <2>4, HoldsSub DEF r
  <2>6. Bytes(p, 16) = r
    BY <2>1, <2>3, <2>5 DEF Bytes, r
  <2>7. ValueAt(kind, p) = Signed[Reverse(Bytes(p, 16))]
    BY <1>6 DEF ValueAt
  <2> QED
    BY <1>4, <1>5, <2>2, <2>3, <2>6, <2>7 DEF r
<1>7. CASE kind # "decimal"
  <2>1. Plain(kind, v) = t
    BY <1>7 DEF Plain
  <2>2. ValueAt(kind, p) = Signed[Bytes(p, w)]
    BY <1>7 DEF ValueAt
  <2> HIDE DEF w, t
  <2>3. SubSeq(file, p, p + Len(t) - 1) = t
    BY <1>2, <2>1, HoldsSub
  <2>4. Bytes(p, w) = t
    BY <1>2, <2>3 DEF Bytes
  <2> QED
    BY <1>2, <1>4, <1>5, <2>1, <2>2, <2>4
<1> QED
    BY <1>6, <1>7

\* A string: its length, and its bytes behind that.
LEMMA TextReadBack ==
    ASSUME file \in Seq(Byte), NEW v \in Seq(Byte), Encodable("text", v), NEW p,
           HoldsAt(file, p, Plain("text", v))
    PROVE  Len(Plain("text", v)) = LengthAt("text", p) /\ ValueAt("text", p) = v
<1> DEFINE n == Len(v)
           t == Little[4][n]
<1>1. n \in Nat /\ n \in Int /\ 4 \in Nat \ {0}
    OBVIOUS
<1>2. t \in Seq(Byte) /\ Len(t) = 4
    BY <1>1, LittleLength
<1>3. Signed[t] = n
  <2>1. Fits[4][n]
    BY DEF Encodable
  <2>2. NumberReadBack(4, n)
    BY <1>1, SignedLittle
  <2> QED
    BY <2>1, <2>2 DEF NumberReadBack
<1>4. Plain("text", v) = t \o v
    BY DEF Plain
<1>5. HoldsAt(file, p, t \o v)
    BY <1>4
<1> HIDE DEF t
<1>6. HoldsAt(file, p, t) /\ HoldsAt(file, p + Len(t), v) /\ Len(t \o v) = Len(t) + Len(v)
    BY <1>2, <1>5, HoldsParts, ConcatByte
<1>7. SubSeq(file, p, p + Len(t) - 1) = t
    BY <1>2, <1>6, HoldsSub
<1>8. Bytes(p, 4) = t
    BY <1>2, <1>7 DEF Bytes
<1>9. HoldsAt(file, p + 4, v)
    BY <1>2, <1>6
<1>10. SubSeq(file, p + 4, (p + 4) + Len(v) - 1) = v
    BY <1>9, HoldsSub
<1>11. Bytes(p + 4, n) = v
    BY <1>10 DEF Bytes
<1>12. ValueAt("text", p) = Bytes(p + 4, Signed[Bytes(p, 4)])
    BY DEF ValueAt
<1>13. LengthAt("text", p) = 4 + Signed[Bytes(p, 4)]
    BY DEF LengthAt
<1> HIDE DEF n
<1> QED
    BY <1>2, <1>3, <1>4, <1>6, <1>8, <1>11, <1>12, <1>13 DEF n

-----------------------------------------------------------------------------
(***************************************************************************)
(* Definition levels: the rows that have values.                           *)
(***************************************************************************)
\* The sum of some of the bits of a byte is a byte, and says which they are.
LEMMA BitsOfByte ==
    ASSUME NEW a \in {0, 1}, NEW b \in {0, 2}, NEW c \in {0, 4}, NEW d \in {0, 8},
           NEW e \in {0, 16}, NEW f \in {0, 32}, NEW g \in {0, 64}, NEW h \in {0, 128},
           NEW x, x = a + b + c + d + e + f + g + h
    PROVE  /\ x \in Byte
           /\ (x \div 1) % 2 = 1 <=> a # 0
           /\ (x \div 2) % 2 = 1 <=> b # 0
           /\ (x \div 4) % 2 = 1 <=> c # 0
           /\ (x \div 8) % 2 = 1 <=> d # 0
           /\ (x \div 16) % 2 = 1 <=> e # 0
           /\ (x \div 32) % 2 = 1 <=> f # 0
           /\ (x \div 64) % 2 = 1 <=> g # 0
           /\ (x \div 128) % 2 = 1 <=> h # 0
<1>1. x \in Byte
    BY DEF Byte
<1>2. (x \div 1) % 2 = 1 <=> a # 0
    OBVIOUS
<1>3. (x \div 2) % 2 = 1 <=> b # 0
    OBVIOUS
<1>4. (x \div 4) % 2 = 1 <=> c # 0
    OBVIOUS
<1>5. (x \div 8) % 2 = 1 <=> d # 0
    OBVIOUS
<1>6. (x \div 16) % 2 = 1 <=> e # 0
    OBVIOUS
<1>7. (x \div 32) % 2 = 1 <=> f # 0
    OBVIOUS
<1>8. (x \div 64) % 2 = 1 <=> g # 0
    OBVIOUS
<1>9. (x \div 128) % 2 = 1 <=> h # 0
    OBVIOUS
<1> QED
    BY <1>1, <1>2, <1>3, <1>4, <1>5, <1>6, <1>7, <1>8, <1>9

\* A group of definition levels is one byte, and has the bit of each row that has a value.
LEMMA GroupReadBack ==
    ASSUME NEW values, NEW g
    PROVE  /\ PackedGroup(values, g) \in Byte
           /\ \A k \in 1..8 : (PackedGroup(values, g) \div Bit[k]) % 2 = 1
                                  <=> Present(values, 8 * (g - 1) + k)
<1> DEFINE bit(k) == IF Present(values, 8 * (g - 1) + k) THEN Bit[k] ELSE 0
           x == PackedGroup(values, g)
<1>1. /\ Bit[1] = 1 /\ Bit[2] = 2 /\ Bit[3] = 4 /\ Bit[4] = 8 /\ Bit[5] = 16 /\ Bit[6] = 32
      /\ Bit[7] = 64 /\ Bit[8] = 128
    BY DEF Bit
<1>2. x = bit(1) + bit(2) + bit(3) + bit(4) + bit(5) + bit(6) + bit(7) + bit(8)
    BY DEF PackedGroup
<1>3. /\ bit(1) \in {0, 1} /\ bit(2) \in {0, 2} /\ bit(3) \in {0, 4} /\ bit(4) \in {0, 8}
      /\ bit(5) \in {0, 16} /\ bit(6) \in {0, 32} /\ bit(7) \in {0, 64} /\ bit(8) \in {0, 128}
    BY <1>1
<1>4. \A k \in 1..8 : bit(k) # 0 <=> Present(values, 8 * (g - 1) + k)
    BY <1>1
<1> DEFINE Read(k) == (x \div Bit[k]) % 2 = 1
<1> HIDE DEF bit, x
<1>5. /\ x \in Byte
      /\ (x \div 1) % 2 = 1 <=> bit(1) # 0
      /\ (x \div 2) % 2 = 1 <=> bit(2) # 0
      /\ (x \div 4) % 2 = 1 <=> bit(3) # 0
      /\ (x \div 8) % 2 = 1 <=> bit(4) # 0
      /\ (x \div 16) % 2 = 1 <=> bit(5) # 0
      /\ (x \div 32) % 2 = 1 <=> bit(6) # 0
      /\ (x \div 64) % 2 = 1 <=> bit(7) # 0
      /\ (x \div 128) % 2 = 1 <=> bit(8) # 0
    BY <1>2, <1>3, BitsOfByte
<1>6. \A k \in 1..8 : Read(k) <=> bit(k) # 0
  <2>1. /\ Read(1) <=> bit(1) # 0
        /\ Read(2) <=> bit(2) # 0
        /\ Read(3) <=> bit(3) # 0
        /\ Read(4) <=> bit(4) # 0
        /\ Read(5) <=> bit(5) # 0
        /\ Read(6) <=> bit(6) # 0
        /\ Read(7) <=> bit(7) # 0
        /\ Read(8) <=> bit(8) # 0
    BY <1>1, <1>5
  <2> HIDE DEF Read
  <2>2. \A k \in 1..8 : k \in {1, 2, 3, 4, 5, 6, 7, 8}
    OBVIOUS
  <2> QED
    BY <2>1, <2>2
<1> QED
    BY <1>4, <1>5, <1>6 DEF x

\* The group and the bit of a row.
LEMMA RowArithmetic ==
    \A n \in Nat : \A i \in 1..n :
        LET g == (i - 1) \div 8 + 1
            k == ((i - 1) % 8) + 1
        IN g \in 1..Groups(n) /\ k \in 1..8 /\ 8 * (g - 1) + k = i /\ (i - 1) \div 8 = g - 1
BY DEF Groups

\* The levels of the rows are read back.
LEMMA LevelsReadBack ==
    ASSUME file \in Seq(Byte), NEW column, column.optional, NEW n \in Nat, Len(column.values) = n,
           RunHeader(n) \in Byte, NEW o, HoldsAt(file, o, DefinitionLevels(column))
    PROVE  /\ DefinitionLevels(column) \in Seq(Byte)
           /\ Len(DefinitionLevels(column)) = LevelsLength(n)
           /\ \A i \in 1..n : LevelAt(o, i) <=> Present(column.values, i)
<1> DEFINE groups == Groups(n)
           r == <<RunHeader(n)>>
           t == [g \in 1..groups |-> PackedGroup(column.values, g)]
<1>1. groups \in Nat /\ LevelsLength(n) = groups + 1
    BY DEF Groups, LevelsLength
<1>2. DefinitionLevels(column) = r \o t
    BY DEF DefinitionLevels
<1>3. \A g \in 1..groups : PackedGroup(column.values, g) \in Byte
    BY GroupReadBack
<1>4. t \in Seq(Byte) /\ Len(t) = groups /\ \A g \in 1..groups : t[g] = PackedGroup(column.values, g)
  <2> HIDE DEF groups
  <2> QED
    BY <1>1, <1>3
<1>5. r \in Seq(Byte) /\ Len(r) = 1
    OBVIOUS
<1>6. HoldsAt(file, o, r \o t)
    BY <1>2
<1> HIDE DEF t, r
<1>7. r \o t \in Seq(Byte) /\ Len(r \o t) = 1 + groups
  <2>1. r \o t \in Seq(Byte) /\ Len(r \o t) = Len(r) + Len(t)
    BY <1>4, <1>5, ConcatByte, Zenon
  <2> QED
    BY <1>4, <1>5, <2>1, Zenon
<1>8. HoldsAt(file, o + 1, t)
    BY <1>4, <1>5, <1>6, HoldsParts
<1>9. ASSUME NEW i \in 1..n
      PROVE  LevelAt(o, i) <=> Present(column.values, i)
  <2> DEFINE g == (i - 1) \div 8 + 1
             k == ((i - 1) % 8) + 1
  <2>1. g \in 1..groups /\ k \in 1..8 /\ 8 * (g - 1) + k = i /\ (i - 1) \div 8 = g - 1
    BY RowArithmetic
  <2>2. LevelAt(o, i) <=> (file[o + 1 + (i - 1) \div 8] \div Bit[k]) % 2 = 1
    BY DEF LevelAt
  <2> HIDE DEF g, k, groups
  <2>3. o \in Nat
    BY <1>6 DEF HoldsAt
  <2>4. o + 1 + (i - 1) \div 8 = (o + 1) + g - 1
    BY <1>1, <2>1, <2>3
  <2>5. file[(o + 1) + g - 1] = t[g]
    BY <1>4, <1>8, <2>1 DEF HoldsAt
  <2>6. t[g] = PackedGroup(column.values, g)
    BY <1>4, <2>1
  <2> DEFINE x == PackedGroup(column.values, g)
  <2>7. (x \div Bit[k]) % 2 = 1 <=> Present(column.values, 8 * (g - 1) + k)
    BY <2>1, GroupReadBack
  <2> HIDE DEF x
  <2>8. file[o + 1 + (i - 1) \div 8] = x
    BY <2>4, <2>5, <2>6 DEF x
  <2> QED
    BY <2>1, <2>2, <2>7, <2>8
<1> QED
    BY <1>1, <1>2, <1>7, <1>9

-----------------------------------------------------------------------------
(***************************************************************************)
(* The rows of a page: values one after the other, of sizes of their own.  *)
(***************************************************************************)
\* Recursion over the rows goes to the row before.
Before(n) == [i \in (1..n) \ {1} |-> i - 1]

\* The row before is a row, and before.
LEMMA BeforeLess ==
    ASSUME NEW n \in Nat
    PROVE  /\ Identity \in [Nat -> Nat]
           /\ [i \in 1..n |-> i] \in [1..n -> Nat] /\ Before(n) \in [(1..n) \ {1} -> 1..n]
           /\ \A i \in (1..n) \ {1} : /\ Before(n)[i] = i - 1 /\ i - 1 \in 1..n
                                      /\ [j \in 1..n |-> j][Before(n)[i]] < [j \in 1..n |-> j][i]
BY DEF Before, Identity

\* Joined(s, f): f[i] is the first i of the sequences s, one after the other.
Joined(s, f) ==
    /\ f \in [1..Len(s) -> Seq(Byte)] /\ f[1] = s[1]
    /\ \A i \in (1..Len(s)) \ {1} : f[i] = f[i - 1] \o s[i]

\* FlattenSeq joins the sequences from first to last.
LEMMA FlattenForm ==
    ASSUME NEW s \in Seq(Seq(Byte)), s # <<>>
    PROVE  \E f : Joined(s, f) /\ FlattenSeq(s) = f[Len(s)]
<1> DEFINE n == Len(s)
           D == 1..n
           m == [i \in D |-> i]
           b == [i \in {1} |-> s[1]]
           pred == Before(n)
           step == [i \in D |-> [t \in Seq(Byte) |-> t \o s[i]]]
           Is(f) == f = [i \in 1..Len(s) |-> IF i = 1 THEN s[i] ELSE f[i-1] \o s[i]]
<1>1. n \in Nat \ {0} /\ \A i \in D : s[i] \in Seq(Byte)
    OBVIOUS
<1>2. 1 \in D /\ {1} \subseteq D
    BY <1>1
<1>3. m \in [D -> Nat] /\ pred \in [D \ {1} -> D] /\ \A i \in D \ {1} : m[pred[i]] < m[i] /\ pred[i] = i - 1
    BY <1>1, BeforeLess
<1>4. b \in [{1} -> Seq(Byte)]
    BY <1>1, <1>2
<1>5. step \in [D -> [Seq(Byte) -> Seq(Byte)]]
    BY <1>1, ConcatByte
<1>6. PICK f \in [D -> Seq(Byte)] : Satisfies(D, {1}, b, pred, step, f)
  <2>1. <<>> \in Seq(Byte)
    OBVIOUS
  <2>2. IsRecursion(D, Seq(Byte), <<>>, m, {1}, b, pred, step)
    <3> HIDE DEF m, b, pred, step, D
    <3> QED
      BY <1>2, <1>3, <1>4, <1>5, <2>1 DEF IsRecursion
  <2> HIDE DEF m, b, pred, step, D
  <2> QED
    BY <2>2, RecursionExists
<1>7. f[1] = s[1]
    BY <1>2, <1>6 DEF Satisfies
<1>8. ASSUME NEW i \in D \ {1}
      PROVE  f[i] = f[i - 1] \o s[i]
  <2>1. f[i] = step[i][f[pred[i]]]
    BY <1>6 DEF Satisfies
  <2>2. pred[i] = i - 1 /\ i - 1 \in D
    BY <1>1, BeforeLess
  <2> QED
    BY <2>1, <2>2
<1>9. Is(f)
    BY <1>7, <1>8
<1>10. PICK g : Is(g) /\ FlattenSeq(s) = g[Len(s)]
  <2>1. FlattenSeq(s) = (CHOOSE g : Is(g))[Len(s)]
    BY <1>1 DEF FlattenSeq
  <2>2. Is(CHOOSE g : Is(g))
    <3> HIDE DEF Is
    <3> QED
      BY <1>9
  <2> HIDE DEF Is
  <2> QED
    BY <2>1, <2>2
<1>11. f = g
  <2>1. f = [i \in D |-> f[i]] /\ g = [i \in D |-> g[i]]
    BY <1>9, <1>10
  <2>2. g[1] = s[1]
    BY <1>2, <1>10
  <2>3. ASSUME NEW i \in D \ {1}, f[pred[i]] = g[pred[i]]
        PROVE  f[i] = g[i]
    <3>1. pred[i] = i - 1
      BY <1>3
    <3>2. g[i] = g[i - 1] \o s[i]
      BY <1>10
    <3> QED
      BY <1>8, <2>3, <3>1, <3>2
  <2>4. AgreeStepwise(D, m, {1}, pred, f, g)
    <3> HIDE DEF m, pred, D
    <3> QED
      BY <1>3, <1>7, <2>1, <2>2, <2>3 DEF AgreeStepwise
  <2> HIDE DEF m, pred, D
  <2> QED
    BY <2>4, RecursionUnique
<1> QED
    BY <1>6, <1>7, <1>8, <1>10, <1>11 DEF Joined

\* A file that holds all of them holds the first i of them, from the same place on.
LEMMA JoinedHolds ==
    ASSUME file \in Seq(Byte), NEW s \in Seq(Seq(Byte)), s # <<>>, NEW f, Joined(s, f), NEW o,
           HoldsAt(file, o, f[Len(s)])
    PROVE  \A i \in 1..Len(s) : HoldsAt(file, o, f[i])
<1> DEFINE n == Len(s)
           S == {k \in Nat : k < n => HoldsAt(file, o, f[n - k])}
<1>1. n \in Nat \ {0} /\ \A i \in 1..n : s[i] \in Seq(Byte)
    OBVIOUS
<1>2. 0 \in S
  <2>1. n - 0 = n
    BY <1>1
  <2> QED
    BY <2>1
<1>3. ASSUME NEW k \in S
      PROVE  k + 1 \in S
  <2>1. k \in Nat /\ k + 1 \in Nat
    OBVIOUS
  <2>2. CASE ~ (k + 1 < n)
    BY <2>1, <2>2
  <2>3. CASE k + 1 < n
    <3> DEFINE i == n - k
    <3>1. i \in (1..n) \ {1} /\ i - 1 \in 1..n /\ k < n /\ n - (k + 1) = i - 1
      BY <1>1, <2>1, <2>3
    <3>2. HoldsAt(file, o, f[i])
      BY <3>1
    <3> HIDE DEF i
    <3>3. f[i] = f[i - 1] \o s[i] /\ f[i - 1] \in Seq(Byte) /\ s[i] \in Seq(Byte)
      BY <1>1, <3>1 DEF Joined
    <3>4. HoldsAt(file, o, f[i - 1])
      <4>1. ASSUME NEW t \in Seq(Byte), NEW u \in Seq(Byte), HoldsAt(file, o, t \o u)
            PROVE  HoldsAt(file, o, t)
        BY <4>1, HoldsParts
      <4> QED
        BY <3>2, <3>3, <4>1
    <3> QED
      BY <2>1, <3>1, <3>4
  <2> QED
    BY <2>2, <2>3
<1>4. S \subseteq Nat
    OBVIOUS
<1>5. S = Nat
  <2> HIDE DEF S
  <2> QED
    BY <1>2, <1>3, <1>4, NaturalInduction
<1>6. ASSUME NEW i \in 1..n
      PROVE  HoldsAt(file, o, f[i])
  <2>1. n - i \in Nat /\ n - i < n /\ n - (n - i) = i
    BY <1>1
  <2>2. HoldsAt(file, o, f[n - (n - i)])
    BY <1>5, <2>1
  <2> QED
    BY <2>1, <2>2
<1> QED
    BY <1>6

\* Where each of the sequences begins.
Place(s, f, o) == [i \in 1..Len(s) |-> IF i = 1 THEN o ELSE o + Len(f[i - 1])]

\* Each sequence is at its place, which is the end of the one before.
LEMMA PlaceHolds ==
    ASSUME file \in Seq(Byte), NEW s \in Seq(Seq(Byte)), s # <<>>, NEW f, Joined(s, f), NEW o,
           HoldsAt(file, o, f[Len(s)])
    PROVE  /\ Place(s, f, o)[1] = o
           /\ \A i \in (1..Len(s)) \ {1} : Place(s, f, o)[i] = Place(s, f, o)[i - 1] + Len(s[i - 1])
           /\ \A i \in 1..Len(s) : HoldsAt(file, Place(s, f, o)[i], s[i])
<1> DEFINE n == Len(s)
           p == Place(s, f, o)
<1>1. n \in Nat \ {0} /\ 1 \in 1..n /\ \A i \in 1..n : s[i] \in Seq(Byte)
    OBVIOUS
<1>2. o \in Nat
    BY DEF HoldsAt
<1>3. p[1] = o /\ \A i \in (1..n) \ {1} : p[i] = o + Len(f[i - 1])
    BY <1>1 DEF Place
<1>4. \A i \in (1..n) \ {1} : i - 1 \in 1..n
    BY <1>1
<1>5. /\ \A i \in 1..n : f[i] \in Seq(Byte) /\ HoldsAt(file, o, f[i])
      /\ f[1] = s[1] /\ \A i \in (1..n) \ {1} : f[i] = f[i - 1] \o s[i]
    BY JoinedHolds DEF Joined
<1> HIDE DEF p, n
<1>6. ASSUME NEW i \in (1..n) \ {1}
      PROVE  p[i] = p[i - 1] + Len(s[i - 1])
  <2>1. i - 1 \in 1..n /\ p[i] = o + Len(f[i - 1])
    BY <1>3, <1>4
  <2>2. CASE i - 1 = 1
    <3>1. p[i - 1] = o /\ f[i - 1] = s[i - 1]
      BY <1>3, <1>5, <2>2
    <3> QED
      BY <2>1, <3>1
  <2>3. CASE i - 1 # 1
    <3> DEFINE j == i - 1
    <3>1. j \in (1..n) \ {1} /\ j - 1 \in 1..n
      BY <1>4, <2>1, <2>3
    <3> HIDE DEF j
    <3>2. p[j] = o + Len(f[j - 1])
      BY <1>3, <3>1
    <3>3. f[j] = f[j - 1] \o s[j] /\ f[j - 1] \in Seq(Byte) /\ s[j] \in Seq(Byte)
      BY <1>1, <1>5, <3>1
    <3>4. Len(f[j]) = Len(f[j - 1]) + Len(s[j]) /\ Len(f[j - 1]) \in Nat /\ Len(s[j]) \in Nat
      BY <3>3, ConcatByte
    <3>5. o + Len(f[j]) = p[j] + Len(s[j])
      <4>1. \A x, y \in Nat : o + (x + y) = (o + x) + y
        BY <1>2
      <4>2. o + (Len(f[j - 1]) + Len(s[j])) = (o + Len(f[j - 1])) + Len(s[j])
        BY <3>4, <4>1, Zenon
      <4> QED
        BY <3>2, <3>4, <4>2, Zenon
    <3> QED
      BY <2>1, <3>5 DEF j
  <2> QED
    BY <2>2, <2>3
<1>7. ASSUME NEW i \in 1..n
      PROVE  HoldsAt(file, p[i], s[i])
  <2>1. CASE i = 1
    BY <1>3, <1>5, <2>1
  <2>2. CASE i # 1
    <3>1. /\ f[i] = f[i - 1] \o s[i] /\ f[i - 1] \in Seq(Byte) /\ s[i] \in Seq(Byte)
          /\ HoldsAt(file, o, f[i]) /\ p[i] = o + Len(f[i - 1])
      BY <1>1, <1>3, <1>4, <1>5, <2>2
    <3>2. ASSUME NEW t \in Seq(Byte), NEW u \in Seq(Byte), HoldsAt(file, o, t \o u)
          PROVE  HoldsAt(file, o + Len(t), u)
      BY <3>2, HoldsParts
    <3> QED
      BY <3>1, <3>2
  <2> QED
    BY <2>1, <2>2
<1> QED
    BY <1>3, <1>6, <1>7 DEF p, n

\* Values of text columns are strings of bytes.
LEMMA TextValue == PlainValue("text") = Seq(Byte)
<1> DEFINE B == Seq(Byte)
<1>1. PlainValue("text") = CASE "text" = "text" -> B [] "text" = "flag" -> {0, 1} [] "text" \in NumberKind -> Int
    BY DEF PlainValue
<1>2. "text" # "flag" /\ "text" \notin NumberKind
    BY DEF NumberKind
<1> HIDE DEF B
<1>3. PlainValue("text") = B
    BY <1>1, <1>2
<1> QED
    BY <1>3 DEF B

\* Every value is written as bytes.
LEMMA PlainType ==
    ASSUME NEW kind \in Kind, NEW v \in PlainValue(kind)
    PROVE  Plain(kind, v) \in Seq(Byte)
<1>1. CASE kind = "text"
  <2>1. v \in Seq(Byte) /\ Len(v) \in Nat /\ 4 \in Nat
    <3>1. v \in Seq(Byte)
      BY <1>1, TextValue
    <3> QED
      BY <3>1
  <2> DEFINE t == Little[4][Len(v)]
  <2>2. t \in Seq(Byte)
    BY <2>1, LittleLength
  <2>3. Plain(kind, v) = t \o v
    BY <1>1 DEF Plain
  <2> HIDE DEF t
  <2> QED
    BY <2>1, <2>2, <2>3, ConcatByte
<1>2. CASE kind # "text"
  <2>1. v \in Int
    BY <1>2 DEF PlainValue, Kind, NumberKind
  <2>2. Width(kind) \in Nat /\ 16 \in Nat
    BY <1>2, Widths DEF Kind, NumberKind
  <2>3. Little[Width(kind)][v] \in Seq(Byte) /\ Little[16][v] \in Seq(Byte)
    BY <2>1, <2>2, LittleLength
  <2>4. Reverse(Little[16][v]) \in Seq(Byte)
    BY <2>3, ReverseTwice
  <2> QED
    BY <1>2, <2>3, <2>4 DEF Plain
<1> QED
    BY <1>1, <1>2

\* A value that struct.pack() took is read back, and takes as many bytes as the reader
\* goes on by.
LEMMA PlainReadBack ==
    ASSUME file \in Seq(Byte), NEW kind \in Kind, NEW v \in PlainValue(kind), Encodable(kind, v),
           NEW p, HoldsAt(file, p, Plain(kind, v))
    PROVE  Len(Plain(kind, v)) = LengthAt(kind, p) /\ ValueAt(kind, p) = v
<1>1. CASE kind = "text"
  <2>1. v \in Seq(Byte)
    BY <1>1, TextValue
  <2>2. Encodable("text", v) /\ HoldsAt(file, p, Plain("text", v))
    BY <1>1
  <2> QED
    BY <1>1, <2>1, <2>2, TextReadBack
<1>2. CASE kind # "text"
  <2>1. v \in Int /\ kind \in Kind \ {"text"}
    BY <1>2 DEF PlainValue, Kind, NumberKind
  <2> QED
    BY <2>1, NumberValueReadBack
<1> QED
    BY <1>1, <1>2

-----------------------------------------------------------------------------
(***************************************************************************)
(* Decimals: what the context keeps, and what of it a page holds.          *)
(***************************************************************************)
\* A set of numbers that has every number all smaller ones of which it has has them all.
LEMMA NumbersFromBelow ==
    ASSUME NEW S, \A n \in Nat : (\A k \in Nat : k < n => k \in S) => n \in S
    PROVE  Nat \subseteq S
<1> SUFFICES ASSUME ~(Nat \subseteq S) PROVE FALSE
    OBVIOUS
<1> DEFINE Bad == {n \in Nat : n \notin S}
<1>1. Bad \subseteq Nat /\ Bad # {} /\ \A n \in Nat : n \in Bad <=> n \notin S
    OBVIOUS
<1> HIDE DEF Bad
<1>2. PICK x \in Bad : \A y \in Bad : Identity[x] <= Identity[y]
    BY <1>1, LeastMeasure DEF Identity
<1>2a. x \in Nat /\ \A y \in Nat : Identity[y] = y
    BY <1>1 DEF Identity
<1>3. ASSUME NEW k \in Nat, k < x
      PROVE  k \in S
  <2>1. k \notin Bad
    BY <1>2, <1>2a, <1>3
  <2> QED
    BY <1>1, <2>1
<1> QED
    BY <1>1, <1>2, <1>3

\* A power of ten is its definition's.
LEMMA Pow10Def == \A n \in Nat : Pow10[n] = IF n = 0 THEN 1 ELSE 10 * Pow10[n - 1]
<1> DEFINE base == {0}
           b == [n \in base |-> 1]
           step == [n \in Nat |-> [p \in Nat |-> 10 * p]]
           Is(g) == g = [n \in Nat |-> IF n = 0 THEN 1 ELSE 10 * g[n - 1]]
<1>1. b \in [base -> Nat] /\ base \subseteq Nat /\ 0 \in base /\ step \in [Nat -> [Nat -> Nat]] /\ 1 \in Nat
    OBVIOUS
<1>2. PICK f \in [Nat -> Nat] : Satisfies(Nat, base, b, OneLess(base), step, f)
  <2> HIDE DEF base, b, step
  <2>1. IsRecursion(Nat, Nat, 1, Identity, base, b, OneLess(base), step)
    BY <1>1, IdentityDown DEF IsRecursion
  <2> QED
    BY <2>1, RecursionExists
<1>3. ASSUME NEW n \in Nat
      PROVE  f[n] = IF n = 0 THEN 1 ELSE 10 * f[n - 1]
  <2>1. CASE n = 0
    BY <1>2, <2>1 DEF Satisfies
  <2>2. CASE n # 0
    <3>1. n \in Nat \ base /\ n - 1 \in Nat /\ OneLess(base)[n] = n - 1
      BY <2>2 DEF OneLess
    <3>2. f[n] = step[n][f[n - 1]]
      BY <1>2, <3>1 DEF Satisfies
    <3> QED
      BY <2>2, <3>1, <3>2
  <2> QED
    BY <2>1, <2>2
<1>4. Is(f)
    BY <1>3
<1>5. Pow10 = CHOOSE g : Is(g)
    BY DEF Pow10
<1>6. Is(Pow10)
  <2> HIDE DEF Is
  <2> QED
    BY <1>4, <1>5
<1> QED
    BY <1>6

\* A power of ten is positive.
LEMMA Pow10Positive == \A n \in Nat : Pow10[n] \in Nat \ {0}
<1> DEFINE S == {n \in Nat : Pow10[n] \in Nat \ {0}}
<1>1. ASSUME NEW n \in Nat, \A k \in Nat : k < n => k \in S
      PROVE  n \in S
  <2>1. CASE n = 0
    BY <2>1, Pow10Def
  <2>2. CASE n # 0
    <3>1. n - 1 \in Nat /\ n - 1 < n
      BY <2>2
    <3>2. Pow10[n - 1] \in Nat \ {0}
      BY <1>1, <3>1
    <3> QED
      BY <2>2, <3>2, Pow10Def
  <2> QED
    BY <2>1, <2>2
<1> HIDE DEF S
<1>2. Nat \subseteq S
    BY <1>1, NumbersFromBelow
<1> QED
    BY <1>2 DEF S

\* What products do: facts of arithmetic that later steps use as they are.
LEMMA Products ==
    ASSUME NEW a \in Int, NEW b \in Int, NEW c \in Int
    PROVE  /\ a * b \in Int /\ (a * b) * c = a * (b * c) /\ a * b = b * a
           /\ (-a) * b = -(a * b)
           /\ 10 * (a * b) = a * (10 * b)
OBVIOUS

LEMMA ProductsGrow ==
    ASSUME NEW a \in Nat, NEW b \in Nat, NEW c \in Nat
    PROVE  a * c \in Nat /\ (a <= b => a * c <= b * c)
<1>1. a * c \in Nat
    OBVIOUS
<1>2. ASSUME a <= b PROVE a * c <= b * c
  <2>1. PICK d \in Nat : b = a + d
    <3>1. b - a \in Nat /\ b = a + (b - a)
      BY <1>2
    <3> QED
      BY <3>1
  <2>2. b * c = a * c + d * c /\ d * c \in Nat
    BY <2>1
  <2> QED
    BY <1>1, <2>2
<1> QED
    BY <1>1, <1>2

\* A positive factor can be taken away.
LEMMA ProductsCancel ==
    ASSUME NEW a \in Nat, NEW b \in Nat, NEW c \in Nat \ {0}
    PROVE  /\ a * c < b * c => a < b
           /\ a * c <= b * c => a <= b
           /\ a * c = b * c => a = b
<1>1. ASSUME b <= a, b # a PROVE b * c < a * c
  <2>1. b + 1 <= a /\ b + 1 \in Nat
    BY <1>1
  <2>2. (b + 1) * c <= a * c
    BY <2>1, ProductsGrow
  <2>3. (b + 1) * c = b * c + c
    OBVIOUS
  <2> QED
    BY <2>2, <2>3, ProductsGrow
<1>2. ASSUME a <= b, b # a PROVE a * c < b * c
  <2>1. a + 1 <= b /\ a + 1 \in Nat
    BY <1>2
  <2>2. (a + 1) * c <= b * c
    BY <2>1, ProductsGrow
  <2>3. (a + 1) * c = a * c + c
    OBVIOUS
  <2> QED
    BY <2>2, <2>3, ProductsGrow
<1>3. a * c \in Nat /\ b * c \in Nat
    BY ProductsGrow
<1>4. CASE a = b
    BY <1>3, <1>4
<1>5. CASE a < b
    BY <1>2, <1>3, <1>5
<1>6. CASE b < a
    BY <1>1, <1>3, <1>6
<1> QED
    BY <1>4, <1>5, <1>6

\* Division by a unit: quotient and rest.
LEMMA Division ==
    ASSUME NEW n \in Int, NEW u \in Nat \ {0}
    PROVE  /\ n \div u \in Int /\ n % u \in 0..(u - 1) /\ n = (n \div u) * u + (n % u)
           /\ n \in Nat => n \div u \in Nat
<1>1. n \div u \in Int /\ n % u \in 0..(u - 1)
    OBVIOUS
<1>2. n = u * (n \div u) + (n % u)
    OBVIOUS
<1>3. n = (n \div u) * u + (n % u)
    BY <1>1, <1>2, Products
<1>4. n \in Nat => n \div u \in Nat
    OBVIOUS
<1> QED
    BY <1>1, <1>3, <1>4

\* A multiple of a unit divides by it.
LEMMA DivisionOfMultiple ==
    ASSUME NEW q \in Nat, NEW u \in Nat \ {0}
    PROVE  (q * u) \div u = q /\ (q * u) % u = 0
<1> DEFINE n == q * u
           p == n \div u
           r == n % u
<1>1. n \in Nat
    BY ProductsGrow
<1>3. n = q * u
    OBVIOUS
<1> HIDE DEF n
<1>2. p \in Nat /\ r \in 0..(u - 1) /\ n = p * u + r
  <2>1. n \in Int /\ n \in Nat
    BY <1>1
  <2>2. /\ n % u \in 0..(u - 1) /\ n = (n \div u) * u + (n % u)
        /\ n \in Nat => n \div u \in Nat
    BY <2>1, Division, Zenon
  <2> QED
    BY <2>1, <2>2, Zenon
<1> HIDE DEF p, r
<1>4. p * u \in Nat /\ p * u <= q * u /\ q * u < (p + 1) * u /\ (p + 1) * u = p * u + u
  <2>1. p * u \in Nat
    BY <1>2, ProductsGrow
  <2>2. (p + 1) * u = p * u + u
    BY <1>2
  <2> QED
    BY <1>1, <1>2, <1>3, <2>1, <2>2
<1>5. p <= q /\ q < p + 1
    BY <1>2, <1>4, ProductsCancel
<1>6. p = q
    BY <1>2, <1>5
<1>7. r = 0
    BY <1>2, <1>3, <1>4, <1>6
<1> QED
    BY <1>6, <1>7 DEF n, p, r

\* Exponents of products add up.
LEMMA Pow10Sum == \A a \in Nat, b \in Nat : Pow10[a + b] = Pow10[a] * Pow10[b]
<1> SUFFICES ASSUME NEW a \in Nat
             PROVE  \A b \in Nat : Pow10[a + b] = Pow10[a] * Pow10[b]
    OBVIOUS
<1> DEFINE S == {b \in Nat : Pow10[a + b] = Pow10[a] * Pow10[b]}
<1>1. ASSUME NEW b \in Nat, \A k \in Nat : k < b => k \in S
      PROVE  b \in S
  <2>1. CASE b = 0
    BY <2>1, Pow10Def, Pow10Positive
  <2>2. CASE b # 0
    <3>1. /\ b - 1 \in Nat /\ b - 1 < b /\ a + b \in Nat /\ a + b # 0
          /\ (a + b) - 1 = a + (b - 1)
      BY <2>2
    <3>2. Pow10[a + (b - 1)] = Pow10[a] * Pow10[b - 1]
      BY <1>1, <3>1
    <3>3. Pow10[a + b] = 10 * Pow10[a + (b - 1)] /\ Pow10[b] = 10 * Pow10[b - 1]
      BY <2>2, <3>1, Pow10Def
    <3>4. Pow10[a] \in Nat /\ Pow10[b - 1] \in Nat
      BY <3>1, Pow10Positive
    <3>5. 10 * (Pow10[a] * Pow10[b - 1]) = Pow10[a] * (10 * Pow10[b - 1])
      BY <3>4, Products
    <3> QED
      BY <3>2, <3>3, <3>5
  <2> QED
    BY <2>1, <2>2
<1> HIDE DEF S
<1>2. Nat \subseteq S
    BY <1>1, NumbersFromBelow
<1> QED
    BY <1>2 DEF S

\* How many digits are dropped: none below 10^Precision, one more for ten times as much.
LEMMA ExcessDef ==
    /\ Excess \in [Nat -> Nat]
    /\ \A n \in Nat : Excess[n] = IF n < Pow10[Precision] THEN 0 ELSE 1 + Excess[n \div 10]
<1> DEFINE T == Pow10[Precision]
           base == {n \in Nat : n < T}
           b == [n \in base |-> 0]
           pred == [n \in Nat \ base |-> n \div 10]
           step == [n \in Nat |-> [k \in Nat |-> 1 + k]]
           Is(g) == g = [n \in Nat |-> IF n < Pow10[Precision] THEN 0 ELSE 1 + g[n \div 10]]
<1>1. T \in Nat \ {0}
    BY ColumnConstants, Pow10Positive
<1> HIDE DEF T
<1>2. b \in [base -> Nat] /\ base \subseteq Nat /\ step \in [Nat -> [Nat -> Nat]] /\ 0 \in Nat
    OBVIOUS
<1>3. ASSUME NEW n \in Nat \ base
      PROVE  n \div 10 \in Nat /\ n \div 10 < n
  <2>1. n \in Nat /\ n >= 1
    BY <1>1
  <2> QED
    BY <2>1
<1>4. /\ Identity \in [Nat -> Nat] /\ pred \in [Nat \ base -> Nat]
      /\ \A n \in Nat \ base : Identity[pred[n]] < Identity[n]
  <2> HIDE DEF base
  <2> QED
    BY <1>3 DEF Identity
<1>5. PICK f \in [Nat -> Nat] : Satisfies(Nat, base, b, pred, step, f)
  <2> HIDE DEF base, b, pred, step
  <2>1. IsRecursion(Nat, Nat, 0, Identity, base, b, pred, step)
    BY <1>2, <1>4 DEF IsRecursion
  <2> QED
    BY <2>1, RecursionExists
<1>6. ASSUME NEW n \in Nat
      PROVE  f[n] = IF n < T THEN 0 ELSE 1 + f[n \div 10]
  <2>1. CASE n < T
    <3>1. n \in base /\ b[n] = 0
      BY <2>1
    <3> HIDE DEF base, b, pred, step
    <3> QED
      BY <1>5, <2>1, <3>1 DEF Satisfies
  <2>2. CASE ~(n < T)
    <3>1. n \in Nat \ base
      BY <2>2
    <3>2. n \div 10 \in Nat /\ pred[n] = n \div 10
      BY <1>3, <3>1
    <3> HIDE DEF base, b, pred
    <3>3. f[n] = step[n][f[n \div 10]]
      BY <1>5, <3>1, <3>2 DEF Satisfies
    <3>4. f[n \div 10] \in Nat
      BY <3>2
    <3> QED
      BY <2>2, <3>3, <3>4
  <2> QED
    BY <2>1, <2>2
<1>7. Is(f)
    BY <1>6 DEF T
<1>8. Excess = CHOOSE g : Is(g)
    BY DEF Excess
<1>9. Is(Excess)
  <2> HIDE DEF Is
  <2> QED
    BY <1>7, <1>8
<1>10. \A n \in Nat : Excess[n] = IF n < T THEN 0 ELSE 1 + Excess[n \div 10]
    BY <1>9 DEF T
<1>11. AgreeStepwise(Nat, Identity, base, pred, f, Excess)
  <2>1. \A n \in base : f[n] = Excess[n]
    BY <1>6, <1>10
  <2>2. ASSUME NEW n \in Nat \ base, f[pred[n]] = Excess[pred[n]]
        PROVE  f[n] = Excess[n]
    <3>1. f[n \div 10] = Excess[n \div 10]
      BY <2>2
    <3>2. n \in Nat /\ ~(n < T)
      OBVIOUS
    <3> QED
      BY <1>6, <1>10, <3>1, <3>2
  <2>3. f = [n \in Nat |-> f[n]] /\ Excess = [n \in Nat |-> Excess[n]]
    BY <1>9
  <2> HIDE DEF base, pred
  <2> QED
    BY <1>4, <2>1, <2>2, <2>3 DEF AgreeStepwise
<1>12. f = Excess
  <2> HIDE DEF base, pred
  <2> QED
    BY <1>11, RecursionUnique
<1> QED
    BY <1>10, <1>12 DEF T

\* Ten units and fewer more.
LEMMA TenTimes ==
    ASSUME NEW n \in Nat
    PROVE  n \div 10 \in Nat /\ n < 10 * (n \div 10) + 10 /\ (n # 0 => n \div 10 < n)
OBVIOUS

\* What is left after as many digits were dropped has no more than the context keeps.
LEMMA ExcessSuffices ==
    \A n \in Nat : n < Pow10[Precision] * Pow10[Excess[n]]
<1> DEFINE T == Pow10[Precision]
           S == {n \in Nat : n < T * Pow10[Excess[n]]}
<1>0. T \in Nat \ {0}
    BY ColumnConstants, Pow10Positive
<1>1. ASSUME NEW n \in Nat, \A k \in Nat : k < n => k \in S
      PROVE  n \in S
  <2>1. CASE n < T
    <3>1. Excess[n] = 0 /\ Pow10[0] = 1
      BY <2>1, ExcessDef, Pow10Def
    <3>2. T * 1 = T
      BY <1>0
    <3> QED
      BY <2>1, <3>1, <3>2
  <2>2. CASE ~(n < T)
    <3> DEFINE m == n \div 10
               e == Excess[m]
    <3>1. m \in Nat /\ m < n /\ n < 10 * m + 10
      BY <1>0, <2>2, TenTimes
    <3>2. Excess[n] = 1 + e /\ e \in Nat
      BY <2>2, <3>1, ExcessDef
    <3>3. m < T * Pow10[e]
      BY <1>1, <3>1
    <3>4. Pow10[e] \in Nat /\ Pow10[1 + e] = 10 * Pow10[e]
      <4>1. 1 + e \in Nat /\ 1 + e # 0 /\ (1 + e) - 1 = e
        BY <3>2
      <4> HIDE DEF e
      <4> QED
        BY <3>2, <4>1, Pow10Def, Pow10Positive
    <3> HIDE DEF m, e, T
    <3>5. T * Pow10[e] \in Nat /\ 10 * (T * Pow10[e]) = T * (10 * Pow10[e])
      BY <1>0, <3>4, Products, ProductsGrow
    <3> DEFINE X == T * Pow10[e]
    <3>6. X \in Nat /\ m < X /\ T * Pow10[1 + e] = 10 * X
      BY <3>3, <3>4, <3>5
    <3> HIDE DEF X
    <3>7. n < T * Pow10[1 + e]
      BY <3>1, <3>6
    <3> QED
      BY <3>2, <3>7
  <2> QED
    BY <2>1, <2>2
<1> HIDE DEF S
<1>2. Nat \subseteq S
    BY <1>1, NumbersFromBelow
<1> QED
    BY <1>2 DEF S

\* Zeros at the end are dropped before other digits.
LEMMA ExcessOfZeros ==
    \A j \in Nat : \A m \in Nat : m < Pow10[Precision] => Excess[m * Pow10[j]] \in 0..j
<1> DEFINE T == Pow10[Precision]
           S == {j \in Nat : \A m \in Nat : m < T => Excess[m * Pow10[j]] \in 0..j}
<1>1. ASSUME NEW j \in Nat, \A k \in Nat : k < j => k \in S
      PROVE  j \in S
  <2> SUFFICES ASSUME NEW m \in Nat, m < T PROVE Excess[m * Pow10[j]] \in 0..j
      OBVIOUS
  <2> DEFINE n == m * Pow10[j]
  <2>1. n \in Nat
    BY Pow10Positive, ProductsGrow
  <2>2. CASE n < T
    <3> HIDE DEF n
    <3>1. Excess[n] = 0
      BY <2>1, <2>2, ExcessDef
    <3> QED
      BY <3>1 DEF n
  <2>3. CASE ~(n < T)
    <3>1. j # 0
      <4>1. j = 0 => n = m
        BY Pow10Def
      <4> QED
        BY <2>3, <4>1
    <3>2. j - 1 \in Nat /\ j - 1 < j
      BY <3>1
    <3> DEFINE i == m * Pow10[j - 1]
    <3>3. i \in Nat /\ n = i * 10
      <4>1. Pow10[j - 1] \in Nat /\ Pow10[j] = 10 * Pow10[j - 1]
        BY <3>1, <3>2, Pow10Def, Pow10Positive
      <4>2. i \in Nat /\ m * (10 * Pow10[j - 1]) = 10 * i
        BY <4>1, Products, ProductsGrow
      <4> HIDE DEF i
      <4> QED
        BY <4>1, <4>2
    <3>4. Excess[i] \in 0..(j - 1)
      BY <1>1, <3>2
    <3> HIDE DEF i
    <3>5. n \div 10 = i
      BY <3>3, DivisionOfMultiple
    <3> HIDE DEF n
    <3>6. Excess[n] = 1 + Excess[i]
      BY <2>1, <2>3, <3>5, ExcessDef
    <3>7. Excess[n] \in 0..j
      BY <3>2, <3>4, <3>6
    <3> QED
      BY <3>7 DEF n
  <2> QED
    BY <2>2, <2>3
<1> HIDE DEF S
<1>2. Nat \subseteq S
    BY <1>1, NumbersFromBelow
<1> QED
    BY <1>2 DEF S

\* The context keeps a number as it is if only zeros follow its first Precision digits.
LEMMA FewDigitsKept ==
    ASSUME NEW m \in Nat, m < Pow10[Precision], NEW j \in Nat
    PROVE  RoundedAbs(m * Pow10[j]) = m * Pow10[j]
<1> DEFINE n == m * Pow10[j]
           k == Excess[n]
           u == Pow10[k]
           q == m * Pow10[j - k]
<1>1. k \in 0..j /\ k \in Nat /\ j - k \in Nat
    BY ExcessOfZeros
<1>2. u \in Nat \ {0} /\ q \in Nat
  <2> HIDE DEF k
  <2> QED
    BY <1>1, Pow10Positive, ProductsGrow
<1>3. n = q * u
  <2> HIDE DEF k
  <2>1. Pow10[j] = Pow10[j - k] * Pow10[k]
    <3>1. (j - k) + k = j
      BY <1>1
    <3>2. Pow10[(j - k) + k] = Pow10[j - k] * Pow10[k]
      BY <1>1, Pow10Sum
    <3> QED
      BY <3>1, <3>2
  <2>2. Pow10[j - k] \in Int /\ Pow10[k] \in Int
    BY <1>1, Pow10Positive
  <2>3. (m * Pow10[j - k]) * Pow10[k] = m * (Pow10[j - k] * Pow10[k])
    BY <2>2, Products
  <2> QED
    BY <2>1, <2>3
<1> HIDE DEF q, u
<1>4. (q * u) \div u = q /\ (q * u) % u = 0
    BY <1>2, DivisionOfMultiple
<1>5. RoundedAbs(n) = HalfEven(n, u) * u
    BY DEF RoundedAbs, u
<1> HIDE DEF n
<1>6. HalfEven(n, u) = q
    BY <1>2, <1>3, <1>4 DEF HalfEven
<1>7. RoundedAbs(n) = n
    BY <1>3, <1>5, <1>6
<1> QED
    BY <1>7 DEF n

\* Whatever it rounds to has only zeros behind the first Precision digits.
LEMMA RoundedFew ==
    ASSUME NEW n \in Nat
    PROVE  \E m \in Nat, j \in Nat : m < Pow10[Precision] /\ RoundedAbs(n) = m * Pow10[j]
<1> DEFINE T == Pow10[Precision]
           k == Excess[n]
           u == Pow10[k]
           q == n \div u
           h == HalfEven(n, u)
<1>1. T \in Nat \ {0} /\ k \in Nat /\ u \in Nat \ {0}
    BY ColumnConstants, ExcessDef, Pow10Positive
<1>2. n < T * u
    BY ExcessSuffices
<1> HIDE DEF T, k, u
<1>3. q \in Nat /\ n = q * u + (n % u) /\ n % u \in 0..(u - 1)
    BY <1>1, Division
<1>4. h \in {q, q + 1}
    BY DEF HalfEven
<1>5. RoundedAbs(n) = h * u
    BY DEF RoundedAbs, k, u
<1> HIDE DEF q, h
<1>6. q < T
  <2>1. q * u \in Nat /\ T * u \in Nat
    BY <1>1, <1>3, ProductsGrow
  <2>2. q * u < T * u
    BY <1>1, <1>2, <1>3, <2>1
  <2> QED
    BY <1>1, <1>3, <2>2, ProductsCancel
<1>7. CASE h < T
    BY <1>1, <1>3, <1>4, <1>5, <1>7 DEF T, u
<1>8. CASE ~(h < T)
  <2> DEFINE m == Pow10[Precision - 1]
  <2>1. Precision \in Nat /\ Precision # 0 /\ Precision - 1 \in Nat
    BY ColumnConstants
  <2>2. T = 10 * m /\ m \in Nat \ {0}
    BY <2>1, Pow10Def, Pow10Positive DEF T
  <2>3. Pow10[k + 1] = 10 * u
    BY <1>1, Pow10Def DEF u
  <2> HIDE DEF m
  <2>4. m < T /\ h = T
    BY <1>1, <1>3, <1>4, <1>6, <1>8, <2>2
  <2>5. (10 * m) * u = m * (10 * u)
    BY <1>1, <2>2
  <2>6. RoundedAbs(n) = m * Pow10[k + 1]
    BY <1>5, <2>2, <2>3, <2>4, <2>5, Zenon
  <2>7. m \in Nat /\ k + 1 \in Nat /\ m < Pow10[Precision]
    BY <1>1, <2>2, <2>4 DEF T
  <2> QED
    BY <2>6, <2>7
<1> QED
    BY <1>7, <1>8

\* A number of at most Precision digits and zeros.
Few(n) == \E m \in Nat, j \in Nat : m < Pow10[Precision] /\ n \in {m * Pow10[j], -(m * Pow10[j])}

\* Such a number is kept, and every number becomes such a number.
LEMMA RoundedKeeps == ASSUME NEW n, Few(n) PROVE Rounded(n) = n /\ n \in Int
<1>1. PICK m \in Nat, j \in Nat : m < Pow10[Precision] /\ n \in {m * Pow10[j], -(m * Pow10[j])}
    BY DEF Few
<1> DEFINE x == m * Pow10[j]
<1>2. x \in Nat /\ RoundedAbs(x) = x /\ n \in {x, -x}
    BY <1>1, Pow10Positive, ProductsGrow, FewDigitsKept
<1> HIDE DEF x
<1> QED
    BY <1>2 DEF Rounded

LEMMA RoundedIsFew == ASSUME NEW n \in Int PROVE Few(Rounded(n)) /\ Rounded(n) \in Int
<1>1. CASE n < 0
  <2>1. -n \in Nat /\ Rounded(n) = -RoundedAbs(-n)
    BY <1>1 DEF Rounded
  <2>2. PICK m \in Nat, j \in Nat : m < Pow10[Precision] /\ RoundedAbs(-n) = m * Pow10[j]
    BY <2>1, RoundedFew
  <2>3. m * Pow10[j] \in Nat
    BY Pow10Positive, ProductsGrow
  <2> QED
    BY <2>1, <2>2, <2>3 DEF Few
<1>2. CASE ~(n < 0)
  <2>1. n \in Nat /\ Rounded(n) = RoundedAbs(n)
    BY <1>2 DEF Rounded
  <2>2. PICK m \in Nat, j \in Nat : m < Pow10[Precision] /\ RoundedAbs(n) = m * Pow10[j]
    BY <2>1, RoundedFew
  <2>3. m * Pow10[j] \in Nat
    BY Pow10Positive, ProductsGrow
  <2> QED
    BY <2>1, <2>2, <2>3 DEF Few
<1> QED
    BY <1>1, <1>2

\* What is stored of a number the scale has room for has few digits, too, and is that
\* number rounded.
LEMMA ScaledFew ==
    ASSUME NEW v \in Decimal, NEW scale \in Nat, Scalable(v, scale)
    PROVE  /\ Few(Scaled(v, scale))
           /\ Scaled(v, scale) * Pow10[v.places] = Rounded(v.digits) * Pow10[scale]
<1> DEFINE p == v.places
           R == Rounded(v.digits)
           i == Scaled(v, scale)
<1>1. p \in Nat /\ v.digits \in Int
    BY DEF Decimal
<1>2. R \in Int /\ Few(R)
    BY <1>1, RoundedIsFew
<1>3. CASE p <= scale
  <2> DEFINE t == scale - p
  <2>1. t \in Nat /\ t + p = scale /\ i = R * Pow10[t]
    BY <1>1, <1>3 DEF Scaled
  <2> HIDE DEF p, R, i, t
  <2>2. Pow10[scale] = Pow10[t] * Pow10[p] /\ Pow10[t] \in Nat /\ Pow10[p] \in Nat
    <3>1. Pow10[t + p] = Pow10[t] * Pow10[p]
      BY <1>1, <2>1, Pow10Sum
    <3> QED
      BY <1>1, <2>1, <3>1, Pow10Positive
  <2>3. (R * Pow10[t]) * Pow10[p] = R * (Pow10[t] * Pow10[p])
    BY <1>2, <2>2, Products
  <2>4. i * Pow10[p] = R * Pow10[scale]
    BY <2>1, <2>2, <2>3, Zenon
  <2>5. PICK m \in Nat, j \in Nat : m < Pow10[Precision] /\ R \in {m * Pow10[j], -(m * Pow10[j])}
    BY <1>2 DEF Few
  <2>6. j + t \in Nat /\ Pow10[j + t] = Pow10[j] * Pow10[t] /\ Pow10[j] \in Nat
    <3>1. j \in Nat /\ t \in Nat /\ j + t \in Nat
      BY <2>1, <2>5
    <3>2. Pow10[j + t] = Pow10[j] * Pow10[t]
      BY <3>1, Pow10Sum
    <3>3. Pow10[j] \in Nat
      BY <3>1, Pow10Positive
    <3> QED
      BY <3>1, <3>2, <3>3
  <2>7. /\ (m * Pow10[j]) * Pow10[t] = m * (Pow10[j] * Pow10[t])
        /\ (-(m * Pow10[j])) * Pow10[t] = -((m * Pow10[j]) * Pow10[t])
    <3>1. m * Pow10[j] \in Int /\ Pow10[j] \in Int /\ Pow10[t] \in Int
      BY <2>2, <2>5, <2>6, ProductsGrow
    <3> QED
      BY <2>5, <3>1, Products
  <2>8. i \in {m * Pow10[j + t], -(m * Pow10[j + t])}
    BY <2>1, <2>5, <2>6, <2>7
  <2>9. Few(i)
    BY <2>5, <2>6, <2>8 DEF Few
  <2> QED
    BY <2>4, <2>9 DEF i, R, p
<1>4. CASE ~(p <= scale)
  <2> DEFINE t == p - scale
             d == Pow10[t]
  <2>1. t \in Nat /\ scale + t = p /\ i = R \div d /\ R % d = 0
    BY <1>1, <1>4 DEF Scaled, Scalable
  <2>2. d \in Nat \ {0}
    BY <2>1, Pow10Positive
  <2> HIDE DEF p, R, i, t
  <2>3. Pow10[p] = Pow10[scale] * d /\ Pow10[scale] \in Nat
    <3>1. Pow10[scale + t] = Pow10[scale] * Pow10[t]
      BY <2>1, Pow10Sum
    <3> QED
      BY <2>1, <3>1, Pow10Positive
  <2> HIDE DEF d
  <2>4. i \in Int /\ R = i * d
    <3>1. i \in Int /\ R = i * d + (R % d)
      BY <1>2, <2>1, <2>2, Division
    <3>2. i * d \in Int
      BY <2>2, <3>1, Products
    <3> QED
      BY <2>1, <3>1, <3>2
  <2>5. i * Pow10[p] = R * Pow10[scale]
    <3>1. Pow10[scale] * d = d * Pow10[scale] /\ i * (d * Pow10[scale]) = (i * d) * Pow10[scale]
      BY <2>2, <2>3, <2>4, Products
    <3> QED
      BY <2>3, <2>4, <3>1, Zenon
  <2>6. PICK m \in Nat, j \in Nat : m < Pow10[Precision] /\ R \in {m * Pow10[j], -(m * Pow10[j])}
    BY <1>2 DEF Few
  <2> DEFINE a == IF i < 0 THEN -i ELSE i
  <2>7. a \in Nat /\ i \in {a, -a} /\ a * d = m * Pow10[j]
    <3>1. a \in Nat /\ i \in {a, -a}
      BY <2>4
    <3>2. m * Pow10[j] \in Nat
      BY <2>6, Pow10Positive, ProductsGrow
    <3> HIDE DEF a
    <3>3. a * d \in Nat /\ (-a) * d = -(a * d)
      BY <2>2, <3>1, Products, ProductsGrow
    <3> QED
      BY <2>4, <2>6, <3>1, <3>2, <3>3
  <2> HIDE DEF a
  <2>8. CASE t <= j
    <3> DEFINE w == m * Pow10[j - t]
    <3>1. j - t \in Nat /\ (j - t) + t = j
      BY <2>1, <2>8
    <3>2. Pow10[j] = Pow10[j - t] * d /\ Pow10[j - t] \in Nat
      <4>1. Pow10[(j - t) + t] = Pow10[j - t] * Pow10[t]
        BY <2>1, <3>1, Pow10Sum
      <4> QED
        BY <3>1, <4>1, Pow10Positive DEF d
    <3>3. w \in Nat /\ w * d = m * (Pow10[j - t] * d)
      BY <2>2, <2>6, <3>2, Products, ProductsGrow
    <3>4. a * d = w * d
      BY <2>7, <3>2, <3>3, Zenon
    <3> HIDE DEF w
    <3>5. a = w
      BY <2>2, <2>7, <3>3, <3>4, ProductsCancel
    <3>6. Few(i)
      BY <2>6, <2>7, <3>1, <3>5 DEF Few, w
    <3> QED
      BY <2>5, <3>6 DEF i, R, p
  <2>9. CASE ~(t <= j)
    <3> DEFINE x == Pow10[t - j]
               y == Pow10[j]
    <3>1. t - j \in Nat /\ (t - j) + j = t
      BY <2>1, <2>9
    <3>2. d = x * y /\ x \in Nat \ {0} /\ y \in Nat \ {0}
      <4>1. Pow10[(t - j) + j] = Pow10[t - j] * Pow10[j]
        BY <3>1, Pow10Sum
      <4> QED
        BY <3>1, <4>1, Pow10Positive DEF d
    <3> HIDE DEF x, y
    <3>3. (a * x) * y = m * y
      <4>1. (a * x) * y = a * (x * y)
        BY <2>7, <3>2, Products
      <4> QED
        BY <2>7, <3>2, <4>1 DEF y
    <3>4. a * x \in Nat
      BY <2>7, <3>2, ProductsGrow
    <3>5. a * x = m
      BY <3>2, <3>3, <3>4, ProductsCancel
    <3>6. a <= m
      <4>1. 1 * a <= x * a /\ x * a = a * x
        BY <2>7, <3>2, Products, ProductsGrow
      <4> QED
        BY <2>7, <3>5, <4>1
    <3>7. a < Pow10[Precision] /\ a * Pow10[0] = a
      <4>1. Pow10[0] = 1 /\ Pow10[Precision] \in Nat
        BY ColumnConstants, Pow10Def, Pow10Positive
      <4> QED
        BY <2>6, <2>7, <3>6, <4>1
    <3>8. Few(i)
      BY <2>7, <3>7 DEF Few
    <3> QED
      BY <2>5, <3>8 DEF i, R, p
  <2> QED
    BY <2>8, <2>9
<1> QED
    BY <1>3, <1>4

\* A decimal that was stored is restored as the number it was, rounded; and as itself if
\* the context keeps as many digits as it has.
LEMMA DecimalReadBack ==
    ASSUME NEW v \in Decimal, NEW scale \in Nat, Scalable(v, scale)
    PROVE  LET read == Restored(Scaled(v, scale), scale)
           IN /\ SameNumber(read, [v EXCEPT !.digits = Rounded(@)])
              /\ Abs(v.digits) < Pow10[Precision] => SameNumber(read, v)
<1> DEFINE i == Scaled(v, scale)
           read == Restored(i, scale)
           kept == [v EXCEPT !.digits = Rounded(@)]
<1>1. v.digits \in Int /\ v.places \in Nat /\ v = [digits |-> v.digits, places |-> v.places]
    BY DEF Decimal
<1>2. Rounded(i) = i /\ i * Pow10[v.places] = Rounded(v.digits) * Pow10[scale]
    BY ScaledFew, RoundedKeeps
<1> HIDE DEF i
<1>3. read.digits = i /\ read.places = scale
    BY <1>2 DEF Restored
<1>4. kept.digits = Rounded(v.digits) /\ kept.places = v.places
    BY <1>1
<1> HIDE DEF read, kept
<1>5. SameNumber(read, kept)
    BY <1>2, <1>3, <1>4 DEF SameNumber
<1>6. ASSUME Abs(v.digits) < Pow10[Precision]
      PROVE  SameNumber(read, v)
  <2> DEFINE n == v.digits
  <2>1. Abs(n) \in Nat /\ n \in {Abs(n), -Abs(n)} /\ Abs(n) * Pow10[0] = Abs(n)
    BY <1>1, Pow10Def DEF Abs
  <2>2. Few(n)
    BY <1>6, <2>1 DEF Few
  <2>3. Rounded(n) = n
    BY <2>2, RoundedKeeps
  <2> QED
    BY <1>2, <1>3, <2>3 DEF SameNumber
<1> QED
    BY <1>5, <1>6 DEF read, kept, i

\* What is stored of any decimal is a whole number.
LEMMA ScaledIsWhole ==
    ASSUME NEW v \in Decimal, NEW scale \in Nat
    PROVE  Scaled(v, scale) \in Int
<1>1. Rounded(v.digits) \in Int /\ v.places \in Nat
    BY RoundedIsFew DEF Decimal
<1>2. CASE v.places <= scale
  <2>1. Pow10[scale - v.places] \in Int
    <3>1. scale - v.places \in Nat
      BY <1>1, <1>2
    <3> QED
      BY <3>1, Pow10Positive
  <2> QED
    BY <1>1, <1>2, <2>1, Products DEF Scaled
<1>3. CASE ~(v.places <= scale)
  <2>1. Pow10[v.places - scale] \in Nat \ {0}
    <3>1. v.places - scale \in Nat
      BY <1>1, <1>3
    <3> QED
      BY <3>1, Pow10Positive
  <2> QED
    BY <1>1, <1>3, <2>1, Division DEF Scaled
<1> QED
    BY <1>2, <1>3

-----------------------------------------------------------------------------
(***************************************************************************)
(* Columns as their pages hold them.                                       *)
(***************************************************************************)
\* The columns as they are stored.
StoredColumn == {Stored(column) : column \in Column}

\* What WriteColumn has checked of a stored column.
Written(column) ==
    /\ column \in StoredColumn
    /\ column.optional => RunHeader(Len(column.values)) \in Byte
    /\ \A i \in DOMAIN column.values :
           Present(column.values, i) => Encodable(column.kind, column.values[i][1])

\* What is known of a column and its rows.
LEMMA GivenForm ==
    ASSUME NEW column \in Column
    PROVE  /\ column.kind \in Kind /\ column.optional \in BOOLEAN /\ column.scale \in Nat
           /\ Len(column.values) \in Nat \ {0} /\ DOMAIN column.values = 1..Len(column.values)
           /\ column.values = [i \in 1..Len(column.values) |-> column.values[i]]
           /\ \A i \in 1..Len(column.values) :
                 /\ Present(column.values, i) <=> column.values[i] # <<>>
                 /\ Present(column.values, i) =>
                       /\ column.values[i][1] \in ColumnValue(column.kind)
                       /\ column.values[i] = <<column.values[i][1]>>
                 /\ ~ Present(column.values, i) => column.optional /\ column.values[i] = <<>>
<1> DEFINE V == ColumnValue(column.kind)
           values == column.values
<1>1. /\ column.kind \in Kind /\ column.optional \in BOOLEAN /\ values \in Seq(Seq(V)) /\ values # <<>>
      /\ column.scale \in Nat
      /\ \A i \in DOMAIN values : Len(values[i]) = 1 \/ (column.optional /\ values[i] = <<>>)
    BY ColumnConstants DEF Kind
<1> HIDE DEF V, values
<1>2. /\ Len(values) \in Nat \ {0} /\ DOMAIN values = 1..Len(values)
      /\ values = [i \in 1..Len(values) |-> values[i]]
    BY <1>1
<1>3. ASSUME NEW i \in 1..Len(values)
      PROVE  /\ Present(values, i) <=> values[i] # <<>>
             /\ Present(values, i) => values[i][1] \in V /\ values[i] = <<values[i][1]>>
             /\ ~ Present(values, i) => column.optional /\ values[i] = <<>>
  <2>1. values[i] \in Seq(V) /\ (Len(values[i]) = 1 \/ (column.optional /\ values[i] = <<>>))
    BY <1>1, <1>2
  <2>2. Present(values, i) <=> values[i] # <<>>
    BY <1>2 DEF Present
  <2> DEFINE w == values[i]
  <2>3. w \in Seq(V) /\ (Len(w) = 1 => w[1] \in V /\ w = <<w[1]>> /\ w # <<>>)
    BY <2>1
  <2> QED
    BY <2>1, <2>2, <2>3
<1> QED
    BY <1>1, <1>2, <1>3 DEF V, values

\* A column as it is stored has the rows of the one that was given.
LEMMA StoredFields ==
    ASSUME NEW column \in Column
    PROVE  /\ Stored(column).kind = column.kind /\ Stored(column).optional = column.optional
           /\ Stored(column).values =
                  [i \in 1..Len(column.values) |-> StoredRow(column, column.values[i])]
           /\ Len(Stored(column).values) = Len(column.values)
<1> DEFINE n == Len(column.values)
           rows == [i \in 1..n |-> StoredRow(column, column.values[i])]
<1>1. n \in Nat /\ DOMAIN column.values = 1..n
    BY GivenForm
<1>2. Stored(column) = [kind |-> column.kind, optional |-> column.optional, values |-> rows]
    BY <1>1 DEF Stored
<1> HIDE DEF rows
<1>3. /\ Stored(column).kind = column.kind /\ Stored(column).optional = column.optional
      /\ Stored(column).values = rows
    BY <1>2
<1>4. Len(rows) = n
    BY <1>1 DEF rows
<1> QED
    BY <1>3, <1>4 DEF rows, n

\* A row is stored as a value of the page, and as nothing if it has none.
LEMMA StoredRowForm ==
    ASSUME NEW column \in Column, NEW i \in 1..Len(column.values)
    PROVE  LET row == StoredRow(column, column.values[i])
           IN /\ column.values[i] # <<>> =>
                     row[1] \in PlainValue(column.kind) /\ row = <<row[1]>> /\ row # <<>>
              /\ column.values[i] = <<>> => row = <<>> /\ column.optional
<1> DEFINE given == column.values[i]
<1>1. /\ given # <<>> => given[1] \in ColumnValue(column.kind) /\ given = <<given[1]>>
      /\ given = <<>> => column.optional
    BY GivenForm
<1> HIDE DEF given
<1>2. CASE given = <<>>
    BY <1>1, <1>2 DEF StoredRow, given
<1>3. CASE given # <<>> /\ column.kind = "decimal"
  <2>1. given[1] \in Decimal /\ column.scale \in Nat
    BY <1>1, <1>3, GivenForm DEF ColumnValue
  <2>2. Scaled(given[1], column.scale) \in Int
    BY <2>1, ScaledIsWhole
  <2>3. PlainValue(column.kind) = Int
    BY <1>3 DEF PlainValue, NumberKind
  <2>4. StoredRow(column, given) = <<Scaled(given[1], column.scale)>>
    BY <1>3 DEF StoredRow
  <2> QED
    BY <1>3, <2>2, <2>3, <2>4 DEF given
<1>4. CASE given # <<>> /\ column.kind # "decimal"
    BY <1>1, <1>4 DEF StoredRow, ColumnValue, given
<1> QED
    BY <1>2, <1>3, <1>4

\* What is known of a stored column and its rows.
LEMMA ColumnForm ==
    ASSUME NEW column \in StoredColumn
    PROVE  /\ column.kind \in Kind /\ column.optional \in BOOLEAN
           /\ Len(column.values) \in Nat \ {0} /\ DOMAIN column.values = 1..Len(column.values)
           /\ column.values = [i \in 1..Len(column.values) |-> column.values[i]]
           /\ \A i \in 1..Len(column.values) :
                 /\ Present(column.values, i) =>
                       /\ column.values[i][1] \in PlainValue(column.kind)
                       /\ column.values[i] = <<column.values[i][1]>>
                 /\ ~ Present(column.values, i) => column.optional /\ column.values[i] = <<>>
<1>1. PICK given \in Column : column = Stored(given)
    BY DEF StoredColumn
<1> DEFINE n == Len(given.values)
           rows == column.values
<1>2. n \in Nat \ {0} /\ given.kind \in Kind /\ given.optional \in BOOLEAN
    BY GivenForm
<1>3. /\ column.kind = given.kind /\ column.optional = given.optional /\ Len(rows) = n
      /\ rows = [i \in 1..n |-> StoredRow(given, given.values[i])]
    BY <1>1, StoredFields
<1> HIDE DEF rows, n
<1>4. DOMAIN rows = 1..n /\ rows = [i \in 1..n |-> rows[i]]
    BY <1>3
<1>5. ASSUME NEW i \in 1..n
      PROVE  /\ Present(rows, i) => rows[i][1] \in PlainValue(column.kind) /\ rows[i] = <<rows[i][1]>>
             /\ ~ Present(rows, i) => column.optional /\ rows[i] = <<>>
  <2>1. rows[i] = StoredRow(given, given.values[i])
    BY <1>3
  <2>2. /\ given.values[i] # <<>> =>
              rows[i][1] \in PlainValue(given.kind) /\ rows[i] = <<rows[i][1]>> /\ rows[i] # <<>>
        /\ given.values[i] = <<>> => rows[i] = <<>> /\ given.optional
    BY <2>1, StoredRowForm DEF n
  <2>3. Present(rows, i) <=> rows[i] # <<>>
    BY <1>2, <1>3 DEF Present
  <2> QED
    BY <1>3, <2>2, <2>3
<1> QED
    BY <1>2, <1>3, <1>4, <1>5 DEF rows

\* The bytes of the value of each row.
ValueBytes(column) ==
    [i \in 1..Len(column.values) |->
        IF Present(column.values, i) THEN Plain(column.kind, column.values[i][1]) ELSE <<>>]

\* They are bytes, and joined they are the values of the page.
LEMMA ValueBytesForm ==
    ASSUME NEW column \in StoredColumn
    PROVE  /\ ValueBytes(column) \in Seq(Seq(Byte)) /\ Len(ValueBytes(column)) = Len(column.values)
           /\ ValueBytes(column) # <<>> /\ PlainValues(column) = FlattenSeq(ValueBytes(column))
<1> DEFINE n == Len(column.values)
           s == ValueBytes(column)
<1>1. n \in Nat \ {0} /\ DOMAIN column.values = 1..n
    BY ColumnForm
<1>2. ASSUME NEW i \in 1..n
      PROVE  s[i] \in Seq(Byte)
  <2>1. Present(column.values, i) => Plain(column.kind, column.values[i][1]) \in Seq(Byte)
    BY ColumnForm, PlainType
  <2> QED
    BY <2>1 DEF ValueBytes
<1>3. s = [i \in 1..n |-> s[i]]
    BY DEF ValueBytes
<1>4. PlainValues(column) = FlattenSeq(s)
    BY <1>1 DEF PlainValues, ValueBytes
<1> HIDE DEF s, n
<1>5. s \in Seq(Seq(Byte)) /\ Len(s) = n /\ s # <<>>
  <2> DEFINE B == Seq(Byte)
  <2>1. \A i \in 1..n : s[i] \in B
    BY <1>2
  <2> HIDE DEF B
  <2>2. [i \in 1..n |-> s[i]] \in Seq(B) /\ Len([i \in 1..n |-> s[i]]) = n
    BY <1>1, <2>1
  <2>3. s \in Seq(B) /\ Len(s) = n
    BY <1>3, <2>2, Zenon
  <2>4. s # <<>>
    BY <1>1, <2>3
  <2> QED
    BY <2>3, <2>4 DEF B
<1> QED
    BY <1>4, <1>5 DEF s, n

\* The values of a column begin where the reader looks for them, and the rows that
\* have one are the rows the reader takes to have one.
DataStart(column, o) == IF column.optional THEN o + LevelsLength(numRows) ELSE o
Has(column, o, i) == column.optional => LevelAt(o, i)

\* The levels of a column that was written are bytes.
LEMMA LevelsType ==
    ASSUME NEW column \in StoredColumn, Written(column)
    PROVE  DefinitionLevels(column) \in Seq(Byte)
<1> DEFINE n == Len(column.values)
           t == [g \in 1..Groups(n) |-> PackedGroup(column.values, g)]
<1>1. CASE ~ column.optional
    BY <1>1 DEF DefinitionLevels
<1>2. CASE column.optional
  <2>1. n \in Nat /\ Groups(n) \in Nat /\ RunHeader(n) \in Byte
    <3>1. n \in Nat
      BY ColumnForm
    <3>2. RunHeader(n) \in Byte
      BY <1>2 DEF Written
    <3> HIDE DEF n
    <3> QED
      BY <3>1, <3>2 DEF Groups
  <2>2. \A g \in 1..Groups(n) : PackedGroup(column.values, g) \in Byte
    BY GroupReadBack
  <2>3. DefinitionLevels(column) = <<RunHeader(n)>> \o t
    BY <1>2 DEF DefinitionLevels
  <2>4. t \in Seq(Byte)
    <3> HIDE DEF n
    <3> QED
      BY <2>1, <2>2
  <2>5. <<RunHeader(n)>> \in Seq(Byte)
    <3> HIDE DEF n
    <3> QED
      BY <2>1
  <2> HIDE DEF t, n
  <2> QED
    BY <2>3, <2>4, <2>5, ConcatByte
<1> QED
    BY <1>1, <1>2

\* The reader takes the values to begin behind the levels, and reads the rows that have one.
LEMMA RowsReadBack ==
    ASSUME file \in Seq(Byte), NEW column \in StoredColumn, Written(column), numRows = Len(column.values),
           NEW o, HoldsAt(file, o, DefinitionLevels(column))
    PROVE  /\ DataStart(column, o) = o + Len(DefinitionLevels(column))
           /\ \A i \in 1..numRows : Has(column, o, i) <=> Present(column.values, i)
<1>1. numRows \in Nat /\ o \in Nat
    BY ColumnForm DEF HoldsAt
<1>2. CASE ~ column.optional
  <2>1. Len(DefinitionLevels(column)) = 0
    BY <1>2 DEF DefinitionLevels
  <2>2. \A i \in 1..numRows : Present(column.values, i)
    BY <1>2, ColumnForm
  <2> QED
    BY <1>1, <1>2, <2>1, <2>2 DEF DataStart, Has
<1>3. CASE column.optional
  <2>1. RunHeader(numRows) \in Byte
    BY <1>3 DEF Written
  <2>2. /\ Len(DefinitionLevels(column)) = LevelsLength(numRows)
        /\ \A i \in 1..numRows : LevelAt(o, i) <=> Present(column.values, i)
    BY <1>1, <1>3, <2>1, LevelsReadBack
  <2> QED
    BY <1>3, <2>2 DEF DataStart, Has
<1> QED
    BY <1>2, <1>3

\* _decodeColumnPage() returns the rows _encodeColumnPage() was given: it goes from value
\* to value by the lengths it finds, over the rows that have none.
LEMMA DecodedReadBack ==
    ASSUME file \in Seq(Byte), NEW column \in StoredColumn, Written(column), numRows = Len(column.values),
           NEW o, HoldsAt(file, o, DefinitionLevels(column) \o PlainValues(column)),
           PlainValues(column) \in Seq(Byte)
    PROVE  Decoded(column.kind, column.optional, o) = column.values
<1> DEFINE n == numRows
           values == column.values
           kind == column.kind
           start == DataStart(column, o)
           has(i) == Has(column, o, i)
           s == ValueBytes(column)
           Is(place) == place = [i \in 1..numRows |->
                            IF i = 1 THEN DataStart(column, o)
                            ELSE IF Has(column, o, i - 1)
                                 THEN place[i-1] + LengthAt(column.kind, place[i-1])
                            ELSE place[i-1]]
<1>1. Decoded(column.kind, column.optional, o) =
          [i \in 1..numRows |-> IF Has(column, o, i)
                                THEN <<ValueAt(column.kind, (CHOOSE p : Is(p))[i])>> ELSE <<>>]
    BY DEF Decoded, DataStart, Has
<1>2. n \in Nat \ {0} /\ kind \in Kind /\ o \in Nat
    BY ColumnForm DEF HoldsAt
<1>3. HoldsAt(file, o, DefinitionLevels(column))
      /\ HoldsAt(file, o + Len(DefinitionLevels(column)), PlainValues(column))
    BY LevelsType, HoldsParts
<1>4. HoldsAt(file, start, PlainValues(column)) /\ \A i \in 1..n : has(i) <=> Present(values, i)
    BY <1>3, RowsReadBack
<1>5. s \in Seq(Seq(Byte)) /\ Len(s) = n /\ s # <<>> /\ PlainValues(column) = FlattenSeq(s)
    BY ValueBytesForm
<1>6. \A i \in 1..n : s[i] = IF Present(values, i) THEN Plain(kind, values[i][1]) ELSE <<>>
    BY DEF ValueBytes
<1>7. \A i \in 1..n : /\ Present(values, i) => /\ values[i][1] \in PlainValue(kind)
                                               /\ values[i] = <<values[i][1]>>
                                               /\ Encodable(kind, values[i][1])
                      /\ ~ Present(values, i) => values[i] = <<>>
    BY ColumnForm DEF Written
<1>8. values = [i \in 1..n |-> values[i]]
    BY ColumnForm
<1> HIDE DEF n, values, kind, start, has, s
<1>9. PICK f : Joined(s, f) /\ FlattenSeq(s) = f[Len(s)]
    BY <1>5, FlattenForm
<1> DEFINE p == Place(s, f, start)
<1>10. /\ p[1] = start
       /\ \A i \in (1..n) \ {1} : p[i] = p[i - 1] + Len(s[i - 1])
       /\ \A i \in 1..n : HoldsAt(file, p[i], s[i])
  <2>1. HoldsAt(file, start, f[Len(s)])
    BY <1>4, <1>5, <1>9
  <2>2. /\ Place(s, f, start)[1] = start
        /\ \A i \in (1..Len(s)) \ {1} :
               Place(s, f, start)[i] = Place(s, f, start)[i - 1] + Len(s[i - 1])
        /\ \A i \in 1..Len(s) : HoldsAt(file, Place(s, f, start)[i], s[i])
    BY <1>5, <1>9, <2>1, PlaceHolds
  <2>3. Len(s) = n
    BY <1>5
  <2> HIDE DEF p
  <2>4. Place(s, f, start) = p
    BY DEF p
  <2> QED
    BY <2>2, <2>3, <2>4, Zenon
<1>11. p = [i \in 1..n |-> p[i]]
    BY <1>5 DEF Place
<1> HIDE DEF p
<1>12. ASSUME NEW i \in 1..n, has(i)
       PROVE  Len(s[i]) = LengthAt(kind, p[i]) /\ <<ValueAt(kind, p[i])>> = values[i]
  <2>1. Present(values, i) /\ s[i] = Plain(kind, values[i][1]) /\ HoldsAt(file, p[i], s[i])
    BY <1>4, <1>6, <1>10, <1>12
  <2>2. values[i][1] \in PlainValue(kind) /\ values[i] = <<values[i][1]>> /\ Encodable(kind, values[i][1])
    BY <1>7, <2>1
  <2> DEFINE v == values[i][1]
             q == p[i]
  <2>3. HoldsAt(file, q, Plain(kind, v)) /\ v \in PlainValue(kind) /\ Encodable(kind, v)
    BY <2>1, <2>2
  <2> HIDE DEF v, q
  <2>4. Len(Plain(kind, v)) = LengthAt(kind, q) /\ ValueAt(kind, q) = v
    BY <1>2, <2>3, PlainReadBack
  <2> QED
    BY <2>1, <2>2, <2>4 DEF v, q
<1>13. ASSUME NEW i \in 1..n, ~ has(i)
       PROVE  Len(s[i]) = 0 /\ values[i] = <<>>
    BY <1>4, <1>6, <1>7, <1>13
<1>14. ASSUME NEW i \in (1..n) \ {1}
       PROVE  i - 1 \in 1..n /\ p[i] = IF has(i - 1) THEN p[i - 1] + LengthAt(kind, p[i - 1]) ELSE p[i - 1]
  <2> DEFINE j == i - 1
  <2>1. j \in 1..n
    BY <1>2
  <2>2. p[i] = p[j] + Len(s[j])
    BY <1>10
  <2>3. HoldsAt(file, p[j], s[j])
    BY <1>10, <2>1
  <2> HIDE DEF j
  <2>4. p[j] \in Nat
    BY <2>3 DEF HoldsAt
  <2>5. CASE has(j)
    <3>1. Len(s[j]) = LengthAt(kind, p[j])
      BY <1>12, <2>1, <2>5
    <3> QED
      BY <2>1, <2>2, <2>5, <3>1 DEF j
  <2>6. CASE ~ has(j)
    <3>1. Len(s[j]) = 0
      BY <1>13, <2>1, <2>6
    <3>2. p[i] = p[j]
      BY <2>2, <2>4, <3>1
    <3> QED
      BY <2>1, <2>6, <3>2 DEF j
  <2> QED
    BY <2>5, <2>6
<1>15. ASSUME NEW i \in 1..n
       PROVE  p[i] = IF i = 1 THEN start
                     ELSE IF has(i - 1) THEN p[i - 1] + LengthAt(kind, p[i - 1]) ELSE p[i - 1]
    BY <1>10, <1>14
<1>16. Is(p)
    BY <1>11, <1>15, Zenon DEF n, start, kind, has
<1>17. ASSUME NEW q, Is(q)
       PROVE  p = q
  <2> DEFINE D == 1..n
             m == [i \in D |-> i]
             pred == Before(n)
  <2>1. p = [i \in D |-> p[i]] /\ q = [i \in D |-> q[i]]
    BY <1>11, <1>17 DEF n
  <2>2. 1 \in D /\ q[1] = start
    BY <1>2, <1>17 DEF n, start
  <2>3. \A i \in D \ {1} : pred[i] = i - 1 /\ m[pred[i]] < m[i]
    BY <1>2, BeforeLess
  <2>3a. m \in [D -> Nat] /\ pred \in [D \ {1} -> D]
    BY <1>2, BeforeLess
  <2>4. ASSUME NEW i \in D \ {1}, p[pred[i]] = q[pred[i]]
        PROVE  p[i] = q[i]
    <3>1. p[i - 1] = q[i - 1]
      BY <2>3, <2>4
    <3>2. q[i] = IF has(i - 1) THEN q[i - 1] + LengthAt(kind, q[i - 1]) ELSE q[i - 1]
      BY <1>17 DEF n, kind, has
    <3> QED
      BY <1>14, <3>1, <3>2
  <2>5. AgreeStepwise(D, m, {1}, pred, p, q)
    <3> HIDE DEF m, pred, D
    <3> QED
      BY <1>10, <2>1, <2>2, <2>3, <2>3a, <2>4 DEF AgreeStepwise
  <2> HIDE DEF m, pred, D
  <2> QED
    BY <2>5, RecursionUnique
<1>18. (CHOOSE q : Is(q)) = p
  <2> HIDE DEF Is
  <2>1. Is(CHOOSE q : Is(q))
    BY <1>16
  <2> QED
    BY <1>17, <2>1
<1>19. Decoded(column.kind, column.optional, o) = [i \in 1..n |-> IF has(i) THEN <<ValueAt(kind, p[i])>> ELSE <<>>]
  <2> HIDE DEF Is
  <2> QED
    BY <1>1, <1>18 DEF n, has, kind
<1>20. ASSUME NEW i \in 1..n
       PROVE  (IF has(i) THEN <<ValueAt(kind, p[i])>> ELSE <<>>) = values[i]
    BY <1>12, <1>13
<1>21. Decoded(column.kind, column.optional, o) = [i \in 1..n |-> values[i]]
    BY <1>19, <1>20
<1> QED
    BY <1>8, <1>21 DEF values

-----------------------------------------------------------------------------
(***************************************************************************)
(* The pages of a file.                                                    *)
(***************************************************************************)
\* The values of a page are bytes.
LEMMA PlainValuesType ==
    ASSUME NEW column \in StoredColumn
    PROVE  PlainValues(column) \in Seq(Byte)
<1> DEFINE s == ValueBytes(column)
<1>1. s \in Seq(Seq(Byte)) /\ s # <<>> /\ PlainValues(column) = FlattenSeq(s)
    BY ValueBytesForm
<1> HIDE DEF s
<1>2. PICK f : Joined(s, f) /\ FlattenSeq(s) = f[Len(s)]
    BY <1>1, FlattenForm
<1>3. Len(s) \in 1..Len(s)
    BY <1>1
<1>4. f[Len(s)] \in Seq(Byte)
    BY <1>2, <1>3 DEF Joined
<1> QED
    BY <1>1, <1>2, <1>4

\* A page header is bytes.
LEMMA HeaderType ==
    ASSUME NEW size \in Nat, NEW count \in Nat
    PROVE  PageHeader(size, count) \in Seq(Byte)
<1> DEFINE f1 == Int32Field(1, size)
           f2 == Int32Field(2, size)
           f3 == Int32Field(3, size)
           st == <<16 * 5 + StructType>>
           g1 == Int32Field(1, count)
           g2 == Int32Field(2, 0)
           g3 == Int32Field(3, 3)
           g4 == Int32Field(4, 3)
           z  == <<0, 0>>
<1>1. PageHeader(size, count) = (((((((f1 \o f2) \o f3) \o st) \o g1) \o g2) \o g3) \o g4) \o z
    BY DEF PageHeader
<1>2. /\ f1 \in Seq(Byte) /\ f2 \in Seq(Byte) /\ f3 \in Seq(Byte) /\ g1 \in Seq(Byte)
      /\ g2 \in Seq(Byte) /\ g3 \in Seq(Byte) /\ g4 \in Seq(Byte)
  <2>1. \A id \in 1..14, n \in Nat : Int32Field(id, n) \in Seq(Byte)
    BY Int32FieldForm
  <2>2. 1 \in 1..14 /\ 2 \in 1..14 /\ 3 \in 1..14 /\ 4 \in 1..14 /\ 0 \in Nat /\ 3 \in Nat
    OBVIOUS
  <2> QED
    BY <2>1, <2>2
<1>3. st \in Seq(Byte) /\ z \in Seq(Byte)
  <2>1. 16 * 5 + StructType \in Byte /\ 0 \in Byte
    BY DEF Byte, StructType
  <2> QED
    BY <2>1
<1> HIDE DEF f1, f2, f3, st, g1, g2, g3, g4, z
<1>4. (f1 \o f2) \o f3 \in Seq(Byte)
    BY <1>2, ConcatByte
<1>5. (((f1 \o f2) \o f3) \o st) \o g1 \in Seq(Byte)
    BY <1>2, <1>3, <1>4, ConcatByte
<1>6. ((((((f1 \o f2) \o f3) \o st) \o g1) \o g2) \o g3) \in Seq(Byte)
    BY <1>2, <1>5, ConcatByte
<1> QED
    BY <1>1, <1>2, <1>3, <1>6, ConcatByte

\* A page: the header, the levels and the values.
Data(column) == DefinitionLevels(column) \o PlainValues(column)
Page(column) == PageHeader(Len(Data(column)), Len(column.values)) \o Data(column)

\* A page is bytes.
LEMMA PageType ==
    ASSUME NEW column \in StoredColumn, Written(column)
    PROVE  /\ Data(column) \in Seq(Byte) /\ Len(Data(column)) \in Nat
           /\ PageHeader(Len(Data(column)), Len(column.values)) \in Seq(Byte)
           /\ Page(column) \in Seq(Byte)
<1>1. Data(column) \in Seq(Byte) /\ Len(Data(column)) \in Nat
    BY LevelsType, PlainValuesType, ConcatByte DEF Data
<1>2. PageHeader(Len(Data(column)), Len(column.values)) \in Seq(Byte)
    BY <1>1, ColumnForm, HeaderType
<1> QED
    BY <1>1, <1>2, ConcatByte DEF Page

\* The reader finds a page at o as the writer left it, and goes on after it.
LEMMA PageReadBack ==
    ASSUME file \in Seq(Byte), NEW column \in StoredColumn, Written(column), numRows = Len(column.values),
           NEW o, HoldsAt(file, o, Page(column))
    PROVE  /\ Decoded(column.kind, column.optional, ReadHeader[o][0].next) = column.values
           /\ ReadHeader[o][0].next + ReadHeader[o][0].size = o + Len(Page(column))
<1> DEFINE data == Data(column)
           h == PageHeader(Len(Data(column)), Len(column.values))
           next == ReadHeader[o][0].next
<1>1. data \in Seq(Byte) /\ h \in Seq(Byte) /\ Len(data) \in Nat /\ Page(column) = h \o data
    BY PageType DEF Page
<1>2. ReadHeader[o][0] = [next |-> o + Len(h), size |-> Len(data)]
  <2>1. Len(column.values) \in Nat
    BY ColumnForm
  <2> HIDE DEF h
  <2>2. HoldsAt(file, o, h)
    BY <1>1, HoldsLast
  <2> DEFINE size == Len(data)
             count == Len(column.values)
  <2>3. size \in Nat /\ count \in Nat /\ HoldsAt(file, o, PageHeader(size, count)) /\ h = PageHeader(size, count)
    BY <1>1, <2>1, <2>2 DEF h
  <2> HIDE DEF size, count
  <2>4. ReadHeader[o][0] = [next |-> o + Len(PageHeader(size, count)), size |-> size]
    BY <2>3, HeaderReadBack
  <2> QED
    BY <2>3, <2>4 DEF size
<1> HIDE DEF data, h
<1>3. HoldsAt(file, o + Len(h), data) /\ o + Len(h \o data) = (o + Len(h)) + Len(data)
    BY <1>1, HoldsLast
<1>4. next = o + Len(h) /\ ReadHeader[o][0].size = Len(data)
    BY <1>2
<1> HIDE DEF next
<1>5. HoldsAt(file, next, DefinitionLevels(column) \o PlainValues(column))
    BY <1>3, <1>4 DEF data, Data
<1>6. Decoded(column.kind, column.optional, next) = column.values
    BY <1>5, DecodedReadBack, PlainValuesType
<1> QED
    BY <1>1, <1>3, <1>4, <1>6 DEF next

\* The pages are in the file one after the other, the k-th column's from starts[k] on,
\* and the reader is at the beginning of the next one.
PagesFrom(starts) ==
    /\ starts \in [1..(Len(columns) + 1) -> Nat]
    /\ starts[1] = 1 /\ starts[Len(columns) + 1] = Len(file) + 1
    /\ \A k \in 1..Len(columns) : /\ starts[k + 1] = starts[k] + Len(Page(Stored(columns[k])))
                                  /\ HoldsAt(file, starts[k], Page(Stored(columns[k])))
    /\ cursor = starts[Len(decoded) + 1]

\* What WriteColumn has checked of a column that was given.
Accepted(column) ==
    /\ Written(Stored(column))
    /\ column.kind = "decimal" => \A i \in 1..Len(column.values) :
           column.values[i] # <<>> => Scalable(column.values[i][1], column.scale)

\* The rows that are read of a column.
RestoredRows(column) ==
    [i \in 1..Len(column.values) |-> RestoredRow(column, Stored(column).values[i])]

\* The inductive invariant: what was written can be read, and what was read is right.
PagesInv ==
    /\ file \in Seq(Byte) /\ columns \in Seq(Column)
    /\ decoded \in Seq({RestoredRows(column) : column \in Column}) /\ Len(decoded) <= Len(columns)
    /\ \A k \in 1..Len(decoded) : decoded[k] = RestoredRows(columns[k])
    /\ \A k \in 1..Len(columns) : Accepted(columns[k]) /\ numRows = Len(columns[k].values)
    /\ \E starts : PagesFrom(starts)

\* The invariant holds of the empty file.
LEMMA PagesInitial == PagesInit => PagesInv
<1> SUFFICES ASSUME PagesInit
             PROVE  PagesInv
    OBVIOUS
<1>1. /\ file = <<>> /\ columns = <<>> /\ decoded = <<>> /\ cursor = 1
      /\ Len(file) = 0 /\ Len(columns) = 0 /\ Len(decoded) = 0
    BY DEF PagesInit
<1>2. PagesFrom([k \in 1..1 |-> 1])
    BY <1>1 DEF PagesFrom
<1>3. file \in Seq(Byte) /\ columns \in Seq(Column) /\ decoded \in Seq({RestoredRows(column) : column \in Column})
    BY <1>1
<1> QED
    BY <1>1, <1>2, <1>3 DEF PagesInv

\* What WriteColumn checks.
LEMMA WriteColumnAccepts ==
    ASSUME NEW column \in Column, WriteColumn(column)
    PROVE  /\ Accepted(column) /\ Stored(column) \in StoredColumn
           /\ Len(Stored(column).values) = Len(column.values)
           /\ numRows' = Len(column.values) /\ numRows \in {0, numRows'}
<1> DEFINE stored == Stored(column)
           n == Len(column.values)
<1>1. stored \in StoredColumn
    BY DEF StoredColumn
<1>2. /\ stored.kind = column.kind /\ stored.optional = column.optional
      /\ stored.values = [i \in 1..n |-> StoredRow(column, column.values[i])]
      /\ Len(stored.values) = n /\ n \in Nat /\ DOMAIN column.values = 1..n
    BY StoredFields, GivenForm
<1>3. /\ numRows' = n /\ numRows \in {0, numRows'}
      /\ column.optional => RunHeader(numRows') \in Byte
      /\ \A i \in DOMAIN column.values : Present(column.values, i) =>
            /\ column.kind = "decimal" => Scalable(column.values[i][1], column.scale)
            /\ Encodable(column.kind, stored.values[i][1])
    BY DEF WriteColumn
<1> HIDE DEF stored, n
<1>4. ASSUME NEW i \in 1..n
      PROVE  /\ Present(stored.values, i) => Present(column.values, i)
             /\ column.values[i] # <<>> => Present(column.values, i)
  <2>1. Present(column.values, i) <=> column.values[i] # <<>>
    BY GivenForm DEF n
  <2>2. column.values[i] = <<>> => StoredRow(column, column.values[i]) = <<>>
    BY StoredRowForm DEF n
  <2>3. Present(stored.values, i) => StoredRow(column, column.values[i]) # <<>>
    BY <1>2 DEF Present
  <2> QED
    BY <2>1, <2>2, <2>3
<1>5. ASSUME NEW i \in 1..n, Present(stored.values, i)
      PROVE  Encodable(stored.kind, stored.values[i][1])
    BY <1>2, <1>3, <1>4, <1>5
<1>6. DOMAIN stored.values = 1..n
    BY <1>2
<1>7. Written(stored)
    BY <1>1, <1>2, <1>3, <1>5, <1>6 DEF Written
<1>8. column.kind = "decimal" => \A i \in 1..n :
            column.values[i] # <<>> => Scalable(column.values[i][1], column.scale)
    BY <1>2, <1>3, <1>4
<1> QED
    BY <1>1, <1>2, <1>3, <1>7, <1>8 DEF Accepted, stored, n

\* A column that is written adds a page behind the others, which stay as they are.
LEMMA WriteColumnStep ==
    ASSUME PagesInv, NEW column \in Column, WriteColumn(column)
    PROVE  PagesInv'
<1> DEFINE n == Len(columns)
           page == Page(Stored(column))
<1>0. /\ Accepted(column) /\ Written(Stored(column)) /\ Stored(column) \in StoredColumn
      /\ Len(Stored(column).values) = Len(column.values)
      /\ numRows' = Len(column.values) /\ numRows \in {0, numRows'}
    BY WriteColumnAccepts DEF Accepted
<1>1. /\ file \in Seq(Byte) /\ columns \in Seq(Column) /\ n \in Nat
      /\ decoded \in Seq({RestoredRows(c) : c \in Column}) /\ Len(decoded) \in Nat /\ Len(decoded) <= n
    BY DEF PagesInv
<1>2. page \in Seq(Byte) /\ Len(page) \in Nat /\ Len(file) \in Nat
    BY <1>0, <1>1, PageType
<1>3. file' = file \o page
  <2> DEFINE h == PageHeader(Len(Data(Stored(column))), Len(Stored(column).values))
             data == Data(Stored(column))
  <2>1. file' = file \o h \o data /\ page = h \o data
    BY <1>0 DEF WriteColumn, Data, Page
  <2>2. h \in Seq(Byte) /\ data \in Seq(Byte)
    BY <1>0, PageType
  <2> HIDE DEF h, data, page
  <2>3. (file \o h) \o data = file \o (h \o data)
    BY <1>1, <2>2, ConcatAssociative
  <2> QED
    BY <2>1, <2>3
<1>4. /\ columns' = Append(columns, column) /\ cursor' = cursor /\ decoded' = decoded
      /\ columns' \in Seq(Column) /\ Len(columns') = n + 1 /\ columns'[n + 1] = column
      /\ \A k \in 1..n : columns'[k] = columns[k]
    BY <1>1 DEF WriteColumn
<1>5. PICK starts : PagesFrom(starts)
    BY DEF PagesInv
<1>5a. PICK more :
           more = [k \in 1..(n + 2) |-> IF k = n + 2 THEN Len(file) + 1 + Len(page) ELSE starts[k]]
    OBVIOUS
<1>6. /\ starts \in [1..(n + 1) -> Nat] /\ starts[1] = 1 /\ starts[n + 1] = Len(file) + 1
      /\ \A k \in 1..n : /\ starts[k + 1] = starts[k] + Len(Page(Stored(columns[k])))
                         /\ HoldsAt(file, starts[k], Page(Stored(columns[k])))
      /\ cursor = starts[Len(decoded) + 1]
    BY <1>5 DEF PagesFrom
<1>7. file' \in Seq(Byte) /\ Len(file') = Len(file) + Len(page)
  <2> HIDE DEF page
  <2> QED
    BY <1>1, <1>2, <1>3, ConcatByte
<1>8. \A k \in 1..(n + 1) : Accepted(columns'[k]) /\ numRows' = Len(columns'[k].values)
  <2>1. ASSUME NEW k \in 1..n
        PROVE  Accepted(columns[k]) /\ numRows' = Len(columns[k].values)
    <3>1. Accepted(columns[k]) /\ numRows = Len(columns[k].values) /\ columns[k] \in Column
      BY <1>1 DEF PagesInv
    <3>2. numRows # 0
      BY <3>1, GivenForm
    <3> QED
      BY <1>0, <3>1, <3>2
  <2>2. \A k \in 1..(n + 1) : k \in 1..n \/ k = n + 1
    BY <1>1
  <2> HIDE DEF n
  <2> QED
    BY <1>0, <1>4, <2>1, <2>2
<1>9. PagesFrom(more)'
  <2>1. n + 2 = (n + 1) + 1 /\ Len(columns') + 1 = n + 2
    BY <1>1, <1>4
  <2>2. \A k \in 1..(n + 1) : more[k] = starts[k] /\ k \in 1..(n + 2)
    BY <1>1, <1>5a
  <2>3. more[n + 2] = Len(file) + 1 + Len(page)
    BY <1>1, <1>5a
  <2>4. more \in [1..(n + 2) -> Nat]
    BY <1>1, <1>2, <1>5a, <1>6
  <2>5. more[1] = 1 /\ 1 \in 1..(n + 1)
    BY <1>1, <1>6, <2>2
  <2>6. more[Len(columns') + 1] = Len(file') + 1
    <3> HIDE DEF page
    <3> QED
      BY <1>2, <1>7, <2>1, <2>3
  <2>7. ASSUME NEW k \in 1..(n + 1)
        PROVE  /\ more[k + 1] = more[k] + Len(Page(Stored(columns'[k])))
               /\ HoldsAt(file', more[k], Page(Stored(columns'[k])))
    <3>1. CASE k \in 1..n
      <4>1. k + 1 \in 1..(n + 1)
        BY <1>1, <3>1
      <4>2. more[k + 1] = more[k] + Len(Page(Stored(columns'[k])))
        BY <1>4, <1>6, <2>2, <3>1, <4>1
      <4>3. Written(Stored(columns[k])) /\ Stored(columns[k]) \in StoredColumn
        BY <1>1, <3>1 DEF PagesInv, Accepted, Written
      <4>4. Page(Stored(columns[k])) \in Seq(Byte)
        BY <4>3, PageType
      <4> DEFINE old == Page(Stored(columns[k]))
      <4>5. HoldsAt(file, more[k], old) /\ old \in Seq(Byte) /\ old = Page(Stored(columns'[k]))
        BY <1>4, <1>6, <2>2, <3>1, <4>4
      <4> HIDE DEF old, page
      <4>6. HoldsAt(file \o page, more[k], old)
        BY <1>1, <1>2, <4>5, HoldsExtended
      <4> QED
        BY <1>3, <4>2, <4>5, <4>6
    <3>2. CASE k = n + 1
      <4>1. more[k] = Len(file) + 1 /\ more[k + 1] = Len(file) + 1 + Len(page)
        BY <1>6, <2>1, <2>2, <2>3, <3>2
      <4>2. Page(Stored(columns'[k])) = page
        BY <1>4, <3>2
      <4> HIDE DEF page
      <4>3. HoldsAt(file \o page, Len(file) + 1, page)
        BY <1>1, <1>2, HoldsAtEnd
      <4> QED
        BY <1>3, <4>1, <4>2, <4>3
    <3> QED
      BY <1>1, <3>1, <3>2
  <2>8. cursor' = more[Len(decoded') + 1]
    <3>1. Len(decoded) + 1 \in 1..(n + 1)
      BY <1>1
    <3> QED
      BY <1>4, <1>6, <2>2, <3>1
  <2> HIDE DEF n, page
  <2>9. Len(columns') = n + 1
    BY <1>4
  <2> QED
    BY <2>1, <2>4, <2>5, <2>6, <2>7, <2>8, <2>9 DEF PagesFrom
<1>10. Len(decoded') <= Len(columns') /\ \A k \in 1..Len(decoded') : decoded'[k] = RestoredRows(columns'[k])
  <2>1. \A k \in 1..Len(decoded) : k \in 1..n /\ decoded[k] = RestoredRows(columns[k])
    BY <1>1 DEF PagesInv
  <2> QED
    BY <1>1, <1>4, <2>1
<1> HIDE DEF n, page
<1>11. decoded' \in Seq({RestoredRows(c) : c \in Column})
    BY <1>1, <1>4
<1>12. \E s : PagesFrom(s)'
    BY <1>9
<1> QED
    BY <1>4, <1>7, <1>8, <1>10, <1>11, <1>12 DEF PagesInv

\* The next column is read from its page, and the reader is behind it.
LEMMA ReadColumnStep ==
    ASSUME PagesInv, ReadColumn
    PROVE  PagesInv'
<1> DEFINE n == Len(columns)
           d == Len(decoded)
           column == columns[d + 1]
           T == {RestoredRows(c) : c \in Column}
<1>1. /\ file \in Seq(Byte) /\ columns \in Seq(Column) /\ n \in Nat
      /\ decoded \in Seq(T) /\ d \in Nat /\ d < n
    BY DEF PagesInv, ReadColumn
<1>2. PICK starts : PagesFrom(starts)
    BY DEF PagesInv
<1>3. d + 1 \in 1..n /\ column \in Column
    BY <1>1
<1> DEFINE stored == Stored(column)
<1>4. /\ Written(stored) /\ stored \in StoredColumn /\ numRows = Len(column.values)
      /\ stored.kind = column.kind /\ stored.optional = column.optional
      /\ Len(stored.values) = Len(column.values)
    BY <1>3, StoredFields DEF PagesInv, Accepted, Written
<1>5. /\ cursor = starts[d + 1] /\ HoldsAt(file, starts[d + 1], Page(stored))
      /\ starts[(d + 1) + 1] = starts[d + 1] + Len(Page(stored))
    BY <1>2, <1>3 DEF PagesFrom
<1> DEFINE rows == Decoded(column.kind, column.optional, ReadHeader[cursor][0].next)
<1>6. /\ decoded' = Append(decoded, [i \in 1..numRows |-> RestoredRow(column, rows[i])])
      /\ cursor' = ReadHeader[cursor][0].next + ReadHeader[cursor][0].size
      /\ numRows' = numRows /\ columns' = columns /\ file' = file
    BY DEF ReadColumn
<1>7. /\ rows = stored.values
      /\ ReadHeader[cursor][0].next + ReadHeader[cursor][0].size = cursor + Len(Page(stored))
  <2> HIDE DEF column, stored
  <2> QED
    BY <1>1, <1>4, <1>5, PageReadBack
<1> HIDE DEF rows
<1>8. decoded' = Append(decoded, RestoredRows(column)) /\ cursor' = starts[(d + 1) + 1]
    BY <1>4, <1>5, <1>6, <1>7 DEF RestoredRows
<1>9. RestoredRows(column) \in T
    BY <1>3
<1> HIDE DEF T
<1>10. /\ decoded' \in Seq(T) /\ Len(decoded') = d + 1 /\ decoded'[d + 1] = RestoredRows(column)
       /\ \A k \in 1..d : decoded'[k] = decoded[k]
    BY <1>1, <1>8, <1>9
<1>11. \A k \in 1..(d + 1) : decoded'[k] = RestoredRows(columns'[k])
  <2>1. \A k \in 1..(d + 1) : k \in 1..d \/ k = d + 1
    BY <1>1
  <2>2. \A k \in 1..d : decoded[k] = RestoredRows(columns[k])
    BY DEF PagesInv
  <2> QED
    BY <1>6, <1>10, <2>1, <2>2
<1>12. PagesFrom(starts)'
    BY <1>2, <1>6, <1>8, <1>10 DEF PagesFrom, Page, Data, HoldsAt
<1>13. Len(decoded') <= Len(columns')
    BY <1>1, <1>6, <1>10
<1>14. \A k \in 1..Len(columns') : Accepted(columns'[k]) /\ numRows' = Len(columns'[k].values)
    BY <1>6 DEF PagesInv
<1> QED
    BY <1>1, <1>6, <1>10, <1>11, <1>12, <1>13, <1>14 DEF PagesInv, T

\* The invariant holds in every state.
LEMMA PagesInvariant == PagesSpec => []PagesInv
<1>1. ASSUME PagesInv, [PagesNext]_pageVars
      PROVE  PagesInv'
  <2>1. CASE \E column \in Column : WriteColumn(column)
    BY <1>1, <2>1, WriteColumnStep
  <2>2. CASE ReadColumn
    BY <1>1, <2>2, ReadColumnStep
  <2>3. CASE UNCHANGED pageVars
    <3>1. PICK starts : PagesFrom(starts)
      BY <1>1 DEF PagesInv
    <3>2. PagesFrom(starts)'
      BY <2>3, <3>1 DEF pageVars, PagesFrom, HoldsAt
    <3> QED
      BY <1>1, <2>3, <3>2 DEF PagesInv, pageVars
  <2> QED
    BY <1>1, <2>1, <2>2, <2>3 DEF PagesNext
<1> QED
    BY <1>1, PagesInitial, PTL DEF PagesSpec

\* A row that is read back is the row that was given; a decimal in it is the number it
\* was, rounded.
LEMMA RowReadBack ==
    ASSUME NEW column \in Column, Accepted(column), NEW i \in 1..Len(column.values)
    PROVE  LET row == column.values[i]
               read == RestoredRow(column, StoredRow(column, row))
           IN /\ Len(read) = Len(row)
              /\ row # <<>> => ReadBack(column, row[1], read[1])
<1> DEFINE row == column.values[i]
           stored == StoredRow(column, row)
           read == RestoredRow(column, stored)
<1>1. /\ row # <<>> => row[1] \in ColumnValue(column.kind) /\ row = <<row[1]>>
      /\ column.scale \in Nat
    BY GivenForm
<1>2. CASE row = <<>>
    BY <1>2 DEF StoredRow, RestoredRow
<1>3. CASE row # <<>> /\ column.kind # "decimal"
    BY <1>3 DEF StoredRow, RestoredRow, ReadBack
<1>4. CASE row # <<>> /\ column.kind = "decimal"
  <2> DEFINE v == row[1]
             i2 == Scaled(v, column.scale)
  <2>1. v \in Decimal /\ Scalable(v, column.scale)
    BY <1>1, <1>4 DEF ColumnValue, Accepted
  <2>2. stored = <<i2>>
    BY <1>4 DEF StoredRow
  <2>3. read = <<Restored(i2, column.scale)>>
    <3> HIDE DEF i2, stored
    <3> QED
      BY <1>4, <2>2 DEF RestoredRow
  <2>4. /\ SameNumber(Restored(i2, column.scale), [v EXCEPT !.digits = Rounded(@)])
        /\ Abs(v.digits) < Pow10[Precision] => SameNumber(Restored(i2, column.scale), v)
    BY <1>1, <2>1, DecimalReadBack
  <2>5. Len(row) = 1
    <3> HIDE DEF row
    <3> QED
      BY <1>1, <1>4
  <2> HIDE DEF v, i2, read
  <2>6. read[1] = Restored(i2, column.scale) /\ Len(read) = 1
    BY <2>3
  <2>7. ReadBack(column, v, read[1])
    BY <1>4, <2>4, <2>6 DEF ReadBack
  <2> QED
    BY <2>5, <2>6, <2>7 DEF v, read
<1> QED
    BY <1>2, <1>3, <1>4

\* readParquetSummary() returns the rows writeParquetBytes() was given, for any columns
\* of any number of rows, whichever rows have values, and ends where the file does: a
\* decimal as the number it was, rounded to the digits of the context.
THEOREM PagesReadBack == PagesSpec => []ColumnsReadBack
<1>1. ASSUME PagesInv
      PROVE  ColumnsReadBack
  <2>1. /\ decoded \in Seq({RestoredRows(column) : column \in Column}) /\ columns \in Seq(Column)
        /\ Len(decoded) <= Len(columns) /\ Len(decoded) \in Nat /\ Len(columns) \in Nat
        /\ \A k \in 1..Len(decoded) : decoded[k] = RestoredRows(columns[k])
        /\ \A k \in 1..Len(columns) : Accepted(columns[k])
    BY <1>1 DEF PagesInv
  <2>2. ASSUME NEW k \in DOMAIN decoded
        PROVE  /\ DOMAIN decoded[k] = DOMAIN columns[k].values
               /\ \A i \in DOMAIN decoded[k] :
                     LET row == columns[k].values[i]
                     IN /\ Len(decoded[k][i]) = Len(row)
                        /\ row # <<>> => ReadBack(columns[k], row[1], decoded[k][i][1])
    <3> DEFINE column == columns[k]
               read == decoded[k]
    <3>1. column \in Column /\ Accepted(column) /\ read = RestoredRows(column)
      BY <2>1
    <3> HIDE DEF column, read
    <3>2. /\ DOMAIN column.values = 1..Len(column.values)
          /\ Stored(column).values =
                 [i \in 1..Len(column.values) |-> StoredRow(column, column.values[i])]
      BY <3>1, GivenForm, StoredFields
    <3>3. read = [i \in 1..Len(column.values) |->
                     RestoredRow(column, StoredRow(column, column.values[i]))]
      BY <3>1, <3>2 DEF RestoredRows
    <3>4. \A i \in 1..Len(column.values) :
             LET row == column.values[i]
             IN /\ Len(read[i]) = Len(row)
                /\ row # <<>> => ReadBack(column, row[1], read[i][1])
      BY <3>1, <3>3, RowReadBack
    <3>5. DOMAIN read = 1..Len(column.values)
      BY <3>3
    <3> QED
      BY <3>2, <3>4, <3>5 DEF column, read
  <2>3. PICK starts : PagesFrom(starts)
    BY <1>1 DEF PagesInv
  <2>4. Len(decoded) = Len(columns) => cursor = Len(file) + 1
    BY <2>3 DEF PagesFrom
  <2> QED
    BY <2>2, <2>4 DEF ColumnsReadBack
<1> QED
    BY <1>1, PagesInvariant, PTL
===============================================================================
