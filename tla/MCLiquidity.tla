---------------------------- MODULE MCLiquidity ----------------------------
(***************************************************************************)
(* The allocation of a bar's volume for TLC.                               *)
(***************************************************************************)
EXTENDS Liquidity

\* Market and limit orders of both sides, met and not met: caps that round to nothing,
\* that leave a part of the order and that exceed it; two accounts, of which the one
\* with the lower rank has the greater ordering key.
MixedOrders ==
    LET Of(market, buy, price, remaining, rate, account, key, id) ==
            [market |-> market, buy |-> buy, price |-> price, remaining |-> remaining,
             rate |-> rate, group |-> 0, account |-> account, key |-> key, id |-> id]
    IN [x \in Candidate |->
           CASE x = 1 -> Of(FALSE, TRUE, 5, 4, 1, 0, 1, 1)
             [] x = 2 -> Of(FALSE, TRUE, 3, 4, 2, 0, 1, 2)
             [] x = 3 -> Of(FALSE, FALSE, 3, 2, 3, 1, 0, 3)
             [] x = 4 -> Of(FALSE, TRUE, 2, 4, 2, 0, 0, 4)
             [] x = 5 -> Of(TRUE, FALSE, 0, 3, 1, 1, 0, 5)
             [] OTHER -> Of(TRUE, TRUE, 0, 1, 1, 0, 0, 6)]
=============================================================================
