------------------------------ MODULE MCReports ------------------------------
(***************************************************************************)
(* ReportProcessor for TLC: one broker stream with a resent execution, a   *)
(* cancellation that crosses a fill, an overfill, a rejection and a report *)
(* of another account's stream (Mixed); three partial fills (Partials);    *)
(* reports without effect on the machine, two of them consecutive (Silent).*)
(***************************************************************************)
EXTENDS ReportProcessor, TLC

CONSTANTS a1, a2, o1, e1, e2, e3, i1, i2, i3, i4, i5, i6, i7

TheAccount == [o \in Order |-> a1]
Two == [o \in Order |-> 2]
Three == [o \in Order |-> 3]

Filling(id, seq, execution, last, cum) ==
    [id |-> id, order |-> o1, account |-> a1, seq |-> seq, type |-> "PARTIAL_FILL",
     execution |-> execution, last |-> last, cum |-> cum, remaining |-> 0]

Telling(id, account, seq, type, cum, remaining) ==
    [id |-> id, order |-> o1, account |-> account, seq |-> seq, type |-> type,
     execution |-> NoExecution, last |-> 0, cum |-> cum, remaining |-> remaining]

Mixed == {
    Filling(i1, 1, e1, 1, 1),
    Filling(i2, 3, e1, 1, 1),
    Filling(i3, 2, e2, 1, 2),
    Telling(i4, a1, 4, "CANCELLED", 1, 1),
    Telling(i5, a1, 2, "NEW", 3, 0),
    Telling(i6, a1, 3, "REJECTED", 0, 1),
    Telling(i7, a2, 1, "NEW", 1, 1)}

Partials == {
    Filling(i1, 1, e1, 1, 1), Filling(i2, 2, e2, 1, 2), Filling(i3, 3, e3, 1, 3)}

Silent == {
    Telling(i1, a1, 2, "NEW", 0, 3), Telling(i2, a1, 3, "NEW", 0, 3),
    Telling(i3, a1, 5, "NEW", 0, 3)}
=============================================================================
