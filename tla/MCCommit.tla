------------------------------ MODULE MCCommit ------------------------------
(***************************************************************************)
(* AtomicCommit for TLC: an order of two and an order of one; an order of  *)
(* two may be approved in full or reduced.  Its second execution comes     *)
(* twice, under two report ids, and one id comes with two executions.      *)
(***************************************************************************)
EXTENDS AtomicCommit, TLC

CONSTANTS a1, o1, o2, e1, e2, i1, i2, i3, i4

TheAccount == [o \in Order |-> a1]
TwoAndOne == o1 :> 2 @@ o2 :> 1

Fills == {
    [id |-> i1, order |-> o1, execution |-> e1, last |-> 1, amount |-> 1],
    [id |-> i2, order |-> o1, execution |-> e2, last |-> 1, amount |-> 2],
    [id |-> i3, order |-> o1, execution |-> e2, last |-> 1, amount |-> 2],
    [id |-> i1, order |-> o1, execution |-> e2, last |-> 1, amount |-> 2],
    [id |-> i4, order |-> o2, execution |-> e1, last |-> 1, amount |-> 1]}
=============================================================================
