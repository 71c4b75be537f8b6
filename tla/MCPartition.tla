----------------------------- MODULE MCPartition -----------------------------
(***************************************************************************)
(* PartitionWriter for TLC: writers p1 and p2 whose holder names are their *)
(* own (OwnNames) or one shared host name (SharedName).                    *)
(***************************************************************************)
EXTENDS PartitionWriter, TLC

CONSTANTS p1, p2, hostA, hostB, k1, k2, h1, h2

OwnNames == p1 :> hostA @@ p2 :> hostB
SharedName == [p \in Process |-> hostA]

\* k1 arrives with two contents, k2 with one.
OneConflict == {<<k1, h1>>, <<k1, h2>>, <<k2, h1>>}
NoConflict == {<<k1, h1>>, <<k2, h1>>}

\* Two writers are interchangeable together with their own names.
SwapWriters == {p1 :> p2 @@ p2 :> p1 @@ hostA :> hostB @@ hostB :> hostA}
=============================================================================
