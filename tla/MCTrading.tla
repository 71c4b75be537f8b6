------------------------------ MODULE MCTrading ------------------------------
(***************************************************************************)
(* Event delivery and trading for TLC: the event bus, the account-group    *)
(* workers, the way of a message to its readers, alerts, the allocation of *)
(* volume, broker orders, the settlement of securities and the pages of    *)
(* market data files.  They share no state: a behaviour is one of one      *)
(* part, the others standing still.                                        *)
(***************************************************************************)
EXTENDS BrokerOrders, EventBus, GroupWorkers, MessageDelivery, Alerts, MCLiquidity,
        Settlement, MCPages

CONSTANTS g1, g2, b1, b2, b3, m1, m2, m3, n1, n2, n3, n4

VARIABLE part \* the part that runs

tradingVars ==
    <<part, brokerVars, busVars, groupVars, deliveryVars, alertVars, liquidityVars,
      settlementVars, pageVars>>

\* Two accounts in the first group, one in the second.
TwoAndOne == [g \in Group |-> IF g = g1 THEN <<b1, b2>> ELSE <<b3>>]

\* A consumer of each policy for one type of event, ranked against their names, and
\* one for another type.
OnePerPolicy ==
    LET Of(type, rank, policy, retries) ==
            [type |-> type, rank |-> rank, policy |-> policy, retries |-> retries]
    IN [c \in Consumer |->
           CASE c = n1 -> Of("bar", 2, "IsolateConsumer", 0)
             [] c = n2 -> Of("bar", 1, "StopRun", 0)
             [] c = n3 -> Of("bar", 1, "RetryFixed", 1)
             [] OTHER -> Of("report", 0, "IsolateConsumer", 0)]

\* Transactions of one and of two messages, two of them with a message in common.
OneAndTwo == {<<m1>>, <<m2, m3>>, <<m3>>}

\* A split and a reverse split.
HalfAndDouble == {<<1, 2>>, <<2, 1>>}

Init ==
    /\ part \in {"broker", "bus", "groups", "delivery", "alerts", "liquidity",
                "settlement", "pages"}
    /\ BrokerInit /\ BusInit /\ GroupInit /\ DeliveryInit /\ AlertInit /\ LiquidityInit
    /\ SettlementInit /\ PagesInit

Next ==
    /\ \/ /\ part = "broker" /\ BrokerNext
          /\ UNCHANGED <<busVars, groupVars, deliveryVars, alertVars, liquidityVars,
                         settlementVars, pageVars>>
       \/ /\ part = "bus" /\ BusNext
          /\ UNCHANGED <<brokerVars, groupVars, deliveryVars, alertVars, liquidityVars,
                         settlementVars, pageVars>>
       \/ /\ part = "groups" /\ GroupNext
          /\ UNCHANGED <<brokerVars, busVars, deliveryVars, alertVars, liquidityVars,
                         settlementVars, pageVars>>
       \/ /\ part = "delivery" /\ DeliveryNext
          /\ UNCHANGED <<brokerVars, busVars, groupVars, alertVars, liquidityVars,
                         settlementVars, pageVars>>
       \/ /\ part = "alerts" /\ AlertNext
          /\ UNCHANGED <<brokerVars, busVars, groupVars, deliveryVars, liquidityVars,
                         settlementVars, pageVars>>
       \/ /\ part = "liquidity" /\ LiquidityNext
          /\ UNCHANGED <<brokerVars, busVars, groupVars, deliveryVars, alertVars,
                         settlementVars, pageVars>>
       \/ /\ part = "settlement" /\ SettlementNext
          /\ UNCHANGED <<brokerVars, busVars, groupVars, deliveryVars, alertVars, liquidityVars,
                         pageVars>>
       \/ /\ part = "pages" /\ PagesNext
          /\ UNCHANGED <<brokerVars, busVars, groupVars, deliveryVars, alertVars, liquidityVars,
                         settlementVars>>
    /\ UNCHANGED part

Spec == Init /\ [][Next]_tradingVars
=============================================================================
