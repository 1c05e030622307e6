--------------------------- MODULE MCPaymentBroker ---------------------------
(***************************************************************************)
(* The payment broker on small sets of accounts, predicates and amounts.   *)
(* A behaviour has one channel with conditions and several vouchers, or    *)
(* two channels whose vouchers have no condition: Scenario, a bound.       *)
(***************************************************************************)
EXTENDS PaymentBroker

CONSTANT MaxVouchersOfTwo   \* bound: vouchers signed once there are two channels

Scenario ==
    \/ \A p \in Payers : nonce[p] <= 1
    \/ /\ holding = {}
       /\ Cardinality(signed) <= MaxVouchersOfTwo
       /\ \A v \in signed : v.condition = NoCondition

MCSpec == Init /\ [][Next /\ Scenario']_vars /\ Fairness
=============================================================================
