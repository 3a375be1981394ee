----------------------------- MODULE MCEVMNode -----------------------------
(***************************************************************************)
(* An instance of EVMNode for TLC: two accounts and three requests of one  *)
(* of them, of which two share a hash.                                     *)
(***************************************************************************)
EXTENDS EVMNode

CONSTANTS a, b

request(id, from, to, value, gas, data) ==
  [id |-> id, from |-> from, to |-> to, value |-> value, gasLimit |-> gas, gasPrice |-> 1,
   data |-> data]

\* Two transfers with one hash and a contract creation.
Requests == {request(1, a, b, 3, 1, "none"), request(2, a, b, 2, 1, "none"),
             request(3, a, NewContract, 1, 1, "code")}

Balances == [x \in Account |-> IF x = a THEN 5 ELSE 1]
=============================================================================
