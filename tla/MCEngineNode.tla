---------------------------- MODULE MCEngineNode ----------------------------
(***************************************************************************)
(* Instances of EngineNode for TLC: two validators, the number that have   *)
(* an address in getValidatorAddress, and up to three transactions of one  *)
(* account.                                                                *)
(***************************************************************************)
EXTENDS EngineNode

CONSTANTS v1, v2

TwoValidators == <<v1, v2>>

transfer(to, value, nonce, price) ==
  [from |-> "a", to |-> to, value |-> value, nonce |-> nonce, gasPrice |-> price]
toOther == transfer("b", 1, 0, 1)
toItself == transfer("a", 1, 1, 2)
tooMuch == transfer("b", 9, 1, 2)

ThreeTxs == {toOther, toItself, tooMuch}

\* v2 gets every transaction once in each life.
ClientsOfV2 == [n \in Node |-> [t \in Tx |-> IF n = v2 THEN 1 ELSE 0]]

Funded == [a \in {"a"} |-> [balance |-> 5, nonce |-> 0]]

NoRestart == [n \in Node |-> 0]
OneRestart == [n \in Node |-> IF n = v2 THEN 1 ELSE 0]

\* v1 takes one transaction into a block, v2 two.
Limits == [n \in Node |-> IF n = v1 THEN 1 ELSE 2]
=============================================================================
