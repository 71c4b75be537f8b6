------------------------------- MODULE MCStream -------------------------------
(***************************************************************************)
(* The state stream for TLC: two clients of one credential, the second of  *)
(* which follows every account.                                            *)
(***************************************************************************)
EXTENDS StateStream

CONSTANTS c1, c2, b1, b2

OnePrincipal == [c \in Client |-> CHOOSE p \in Principal : TRUE]
OneAccountAndAll == [c \in Client |-> IF c = c1 THEN {b1} ELSE {}]
=============================================================================
