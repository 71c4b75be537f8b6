----------------------------- MODULE ColumnPages -----------------------------
(***************************************************************************)
(* The data pages of a Parquet file: how writeParquetBytes() encodes the   *)
(* columns of a row group one after the other, and how                     *)
(* readParquetSummary() finds and decodes them again.  Bytes are 0..255.   *)
(* Decimals are written as whole numbers of the column's smallest unit and *)
(* pass Python's decimal context, which keeps Precision digits.            *)
(* The footer, magic numbers and the fixed list of columns are left out.   *)
(***************************************************************************)
EXTENDS Integers, Sequences, SequencesExt

CONSTANTS
    Column,    \* the columns a file may have: a kind, and the value of each row
    Precision, \* the digits that the decimal context keeps: 28 by default
    MaxColumns \* bound of the model: the columns of a file

Byte == 0..255
NumberKind == {"int32", "int64", "decimal"}

\* A decimal number is digits / 10^places.  One with a positive exponent is written out.
Decimal == [digits : Int, places : Nat]

\* What the pages hold of a kind, decimals in units of 1 / 10^scale, and what the rows do.
PlainValue(kind) ==
    CASE kind = "text" -> Seq(Byte) [] kind = "flag" -> {0, 1} [] kind \in NumberKind -> Int

ColumnValue(kind) == IF kind = "decimal" THEN Decimal ELSE PlainValue(kind)

\* A row has one value or none, which only an optional column allows; an empty file
\* is refused.
ASSUME ColumnConstants == Precision \in Nat \ {0} /\ \A column \in Column :
    /\ column.kind \in NumberKind \cup {"text", "flag"}
    /\ column.optional \in BOOLEAN /\ column.scale \in Nat
    /\ column.values \in Seq(Seq(ColumnValue(column.kind))) /\ column.values # <<>>
    /\ \A i \in DOMAIN column.values :
        Len(column.values[i]) = 1 \/ (column.optional /\ column.values[i] = <<>>)

VARIABLES
    numRows, \* 0 before the first column
    columns, \* the columns that were given to the writer
    file,    \* the bytes of their pages
    cursor,  \* how far they were read
    decoded  \* the values of the columns that were read back

pageVars == <<numRows, columns, file, cursor, decoded>>

-----------------------------------------------------------------------------
\* The thrift compact encoding of numbers: zigzag, seven bits a byte, low bits first.
Varint[n \in Nat] == IF n < 128 THEN <<n>> ELSE <<128 + (n % 128)>> \o Varint[n \div 128]

WriteZigzag(n) == Varint[IF n < 0 THEN -2 * n - 1 ELSE 2 * n]

\* The varint at o and where it ends, with the first byte without the continuation
\* bit.  No reader gets past the end of a file: Python raises an IndexError there.
ReadVarint[o \in Nat] ==
    IF o \notin DOMAIN file THEN [value |-> 0, next |-> o]
    ELSE IF file[o] < 128 THEN [value |-> file[o], next |-> o + 1]
    ELSE LET rest == ReadVarint[o + 1]
         IN [rest EXCEPT !.value = file[o] - 128 + 128 * @]

ReadZigzag(o) ==
    LET n == ReadVarint[o].value IN IF n % 2 = 0 THEN n \div 2 ELSE -((n + 1) \div 2)

\* A struct is a run of fields, each a byte with id and type before its value, and a
\* stop byte.  Pages have fields of two types.
Int32Type == 5
StructType == 12
Int32Field(id, n) == <<16 * id + Int32Type>> \o WriteZigzag(n)

\* The first field, the page's type, is given its size instead.
PageHeader(size, count) ==
    Int32Field(1, size) \o Int32Field(2, size) \o Int32Field(3, size)
    \o <<16 * 5 + StructType>>
    \o Int32Field(1, count) \o Int32Field(2, 0) \o Int32Field(3, 3) \o Int32Field(4, 3)
    \o <<0, 0>>

TypeAt(o) == file[o] % 16
IdAt(o) == file[o] \div 16

\* Reads fields from o to the stop of the header, with so many structs open inside it:
\* where the header ends, and the data size it says, its own field 3.
ReadHeader[o \in Nat] == [open \in Nat |->
    IF o \notin DOMAIN file THEN [next |-> o, size |-> 0]
    ELSE IF file[o] = 0
         THEN IF open = 0 THEN [next |-> o + 1, size |-> 0] ELSE ReadHeader[o + 1][open - 1]
    ELSE IF TypeAt(o) = StructType THEN ReadHeader[o + 1][open + 1]
    ELSE LET rest == ReadHeader[ReadVarint[o + 1].next][open]
         IN IF open = 0 /\ IdAt(o) = 3 THEN [rest EXCEPT !.size = ReadZigzag(o + 1)] ELSE rest]

-----------------------------------------------------------------------------
\* Definition levels: a bit a row says whether it has a value, after one byte with
\* the number of groups of eight.
Groups(n) == (n + 7) \div 8
RunHeader(n) == 2 * Groups(n) + 1

Bit == <<1, 2, 4, 8, 16, 32, 64, 128>>

Present(values, i) == i <= Len(values) /\ values[i] # <<>>

PackedGroup(values, g) ==
    LET bit(k) == IF Present(values, 8 * (g - 1) + k) THEN Bit[k] ELSE 0
    IN bit(1) + bit(2) + bit(3) + bit(4) + bit(5) + bit(6) + bit(7) + bit(8)

DefinitionLevels(column) ==
    IF column.optional
    THEN LET groups == Groups(Len(column.values))
         IN <<RunHeader(Len(column.values))>>
            \o [g \in 1..groups |-> PackedGroup(column.values, g)]
    ELSE <<>>

LevelAt(o, i) == (file[o + 1 + (i - 1) \div 8] \div Bit[((i - 1) % 8) + 1]) % 2 = 1

\* The bytes of the levels, as the reader counts them.
LevelsLength(n) == (n + 7) \div 8 + 1

-----------------------------------------------------------------------------
\* The decimal context: a number of more digits than Precision loses the last ones,
\* rounded to the nearest, half to even.
Pow10[n \in Nat] == IF n = 0 THEN 1 ELSE 10 * Pow10[n - 1]

Abs(n) == IF n < 0 THEN -n ELSE n

Excess[n \in Nat] == IF n < Pow10[Precision] THEN 0 ELSE 1 + Excess[n \div 10]

HalfEven(n, unit) ==
    LET q == n \div unit rest == 2 * (n % unit)
    IN IF rest > unit \/ (rest = unit /\ q % 2 = 1) THEN q + 1 ELSE q

RoundedAbs(n) == HalfEven(n, Pow10[Excess[n]]) * Pow10[Excess[n]]

Rounded(n) == IF n < 0 THEN -RoundedAbs(-n) ELSE RoundedAbs(n)

\* _encodeDecimal128(): scaleb() rounds, and only then is a value refused that is no
\* whole number of units.
Scalable(v, scale) ==
    v.places > scale => Rounded(v.digits) % Pow10[v.places - scale] = 0

Scaled(v, scale) ==
    IF v.places <= scale THEN Rounded(v.digits) * Pow10[scale - v.places]
    ELSE Rounded(v.digits) \div Pow10[v.places - scale]

\* _decodeDecimal128(): scaleb() rounds again.
Restored(n, scale) == [digits |-> Rounded(n), places |-> scale]

StoredRow(column, row) ==
    IF column.kind = "decimal" /\ row # <<>> THEN <<Scaled(row[1], column.scale)>> ELSE row

RestoredRow(column, row) ==
    IF column.kind = "decimal" /\ row # <<>> THEN <<Restored(row[1], column.scale)>> ELSE row

\* The column as its page holds it.
Stored(column) ==
    [kind |-> column.kind, optional |-> column.optional,
     values |-> [i \in DOMAIN column.values |-> StoredRow(column, column.values[i])]]

-----------------------------------------------------------------------------
\* PLAIN values: two's complement numbers of a width, little or big endian, and
\* strings of bytes behind their length.
Little[width \in Nat] ==
    [n \in Int |-> IF width = 0 THEN <<>> ELSE <<n % 256>> \o Little[width - 1][n \div 256]]

\* The high byte has the sign.
Fits[width \in Nat] ==
    [n \in Int |-> IF width <= 1 THEN n \in -128..127 ELSE Fits[width - 1][n \div 256]]

Signed[bytes \in Seq(Byte)] ==
    IF Len(bytes) <= 1 THEN IF bytes = <<>> THEN 0
                            ELSE IF bytes[1] < 128 THEN bytes[1] ELSE bytes[1] - 256
    ELSE bytes[1] + 256 * Signed[Tail(bytes)]

Width(kind) ==
    CASE kind = "int64" -> 8 [] kind = "int32" -> 4 [] kind = "decimal" -> 16 [] kind = "flag" -> 1

\* struct.pack() and _encodeDecimal128() raise for what has no room.
Encodable(kind, v) == IF kind = "text" THEN Fits[4][Len(v)] ELSE Fits[Width(kind)][v]

Plain(kind, v) ==
    CASE kind = "text" -> Little[4][Len(v)] \o v
      [] kind = "decimal" -> Reverse(Little[16][v])
      [] OTHER -> Little[Width(kind)][v]

Bytes(o, length) == SubSeq(file, o, o + length - 1)

LengthAt(kind, o) == IF kind = "text" THEN 4 + Signed[Bytes(o, 4)] ELSE Width(kind)

ValueAt(kind, o) ==
    CASE kind = "text" -> Bytes(o + 4, Signed[Bytes(o, 4)])
      [] kind = "decimal" -> Signed[Reverse(Bytes(o, 16))]
      [] OTHER -> Signed[Bytes(o, Width(kind))]

PaddedValues(column) ==
    FlattenSeq([i \in DOMAIN column.values |->
        CASE Present(column.values, i) -> Plain(column.kind, column.values[i][1])
          [] column.kind = "text" -> Plain("text", <<>>)
          [] OTHER -> Plain(column.kind, 0)])

\* The values of a column: none takes room where the row has none.
PlainValues(column) ==
    FlattenSeq([i \in DOMAIN column.values |->
        IF Present(column.values, i) THEN Plain(column.kind, column.values[i][1]) ELSE <<>>])

-----------------------------------------------------------------------------
PagesInit ==
    /\ numRows = 0
    /\ columns = <<>> /\ file = <<>> /\ cursor = 1 /\ decoded = <<>>

\* _encodeColumnPage() and _pageHeaderBytes().  The run header is one byte: bytes()
\* raises for more groups than it holds.
WriteColumn(column) ==
    /\ cursor = 1 /\ Len(columns) < MaxColumns
    /\ numRows' = Len(column.values) /\ numRows \in {0, numRows'}
    /\ column.optional => RunHeader(numRows') \in Byte
    /\ \A i \in DOMAIN column.values : Present(column.values, i) =>
           /\ column.kind = "decimal" => Scalable(column.values[i][1], column.scale)
           /\ Encodable(column.kind, Stored(column).values[i][1])
    /\ LET data == DefinitionLevels(Stored(column)) \o PlainValues(Stored(column))
       IN file' = file \o PageHeader(Len(data), numRows') \o data
    /\ columns' = Append(columns, column)
    /\ UNCHANGED <<cursor, decoded>>

\* What the page at o holds of each row, from first to last.
Decoded(kind, optional, o) ==
    LET has(i) == optional => LevelAt(o, i)
        start == IF optional THEN o + LevelsLength(numRows) ELSE o
        place[i \in 1..numRows] ==
            IF i = 1 THEN start
            ELSE IF has(i - 1) THEN place[i - 1] + LengthAt(kind, place[i - 1])
            ELSE place[i - 1]
    IN [i \in 1..numRows |-> IF has(i) THEN <<ValueAt(kind, place[i])>> ELSE <<>>]

\* The reader goes from page to page by the sizes in their headers; the columns'
\* names, kinds and order are fixed.
ReadColumn ==
    /\ columns # <<>> /\ Len(decoded) < Len(columns)
    /\ LET column == columns[Len(decoded) + 1]
           header == ReadHeader[cursor][0]
           rows == Decoded(column.kind, column.optional, header.next)
       IN /\ decoded' = Append(decoded, [i \in 1..numRows |-> RestoredRow(column, rows[i])])
          /\ cursor' = header.next + header.size
    /\ UNCHANGED <<numRows, columns, file>>

PagesNext == (\E column \in Column : WriteColumn(column)) \/ ReadColumn

PagesSpec == PagesInit /\ [][PagesNext]_pageVars

-----------------------------------------------------------------------------
\* Two decimals are one number.
SameNumber(u, v) == u.digits * Pow10[v.places] = v.digits * Pow10[u.places]

\* What is read back of a value: a decimal as the number it was, rounded to Precision
\* digits, so that one of no more digits is the same; anything else as it was.
ReadBack(column, value, read) ==
    IF column.kind # "decimal" THEN read = value
    ELSE /\ SameNumber(read, [value EXCEPT !.digits = Rounded(@)])
         /\ Abs(value.digits) < Pow10[Precision] => SameNumber(read, value)

\* The rows that are read back are those that were written, column by column: whichever
\* rows have values, whichever sizes the pages have, and whatever was scaled and rounded
\* on the way; and the pages end where the file does.
ColumnsReadBack ==
    /\ \A k \in DOMAIN decoded :
        /\ DOMAIN decoded[k] = DOMAIN columns[k].values
        /\ \A i \in DOMAIN decoded[k] :
            LET row == columns[k].values[i]
            IN /\ Len(decoded[k][i]) = Len(row)
               /\ row # <<>> => ReadBack(columns[k], row[1], decoded[k][i][1])
    /\ Len(decoded) = Len(columns) => cursor = Len(file) + 1
=============================================================================
