------------------------------ MODULE MCPages ------------------------------
(***************************************************************************)
(* The pages of market data files for TLC, with decimals of three digits.  *)
(***************************************************************************)
EXTENDS ColumnPages

\* Columns of 1, 8 and 9 rows: fewer than a group of definition levels, one and more,
\* with pages below and above the 64 bytes whose size takes a second byte.
PageRows == {1, 8, 9}
RowsWithValue(n) ==
    {1..n, {}, {n}, {i \in 1..n : i % 2 = 0}, 2..n}

\* Decimals of the column's two places, of fewer and more, and of more digits than the
\* context keeps: rounded down, up, from a tie, and over a power of ten.
SampleDecimals ==
    LET Of(digits, places) == [digits |-> digits, places |-> places]
    IN <<Of(0, 0), Of(-128, 1), Of(300, 3), Of(-12345, 2), Of(1235, 1), Of(99960, 4), Of(7, 2),
         Of(10049, 5)>>

SampleValues(kind) ==
    CASE kind = "text" -> <<<<>>, <<65>>, <<128, 0, 255>>>>
      [] kind = "flag" -> <<0, 1>>
      [] kind = "decimal" -> SampleDecimals
      [] OTHER -> <<0, -1, 300, -128>>

SampleColumn(kind, optional, n, present) ==
    LET sample == SampleValues(kind)
    IN [kind |-> kind, optional |-> optional, scale |-> IF kind = "decimal" THEN 2 ELSE 0,
        values |-> [i \in 1..n |->
            IF i \in present THEN <<sample[1 + (i % Len(sample))]>> ELSE <<>>]]

\* A value that the column's places do not hold is refused, and one that the context has
\* rounded to whole units is not.
SmallDecimals ==
    {[kind |-> "decimal", optional |-> FALSE, scale |-> 2, values |-> <<<<v>>>>] :
        v \in {[digits |-> 5, places |-> 3], [digits |-> 12001, places |-> 3]}}

SampleColumns == SmallDecimals \cup UNION {
    UNION {{SampleColumn(kind, TRUE, n, present) : present \in RowsWithValue(n)}
              : kind \in {"text", "int64", "decimal"}}
    \cup {SampleColumn(kind, FALSE, n, 1..n) : kind \in {"text", "int32", "flag"}}
    : n \in PageRows}
=============================================================================
