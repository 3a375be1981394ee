------------------------------- MODULE Totals -------------------------------
(***************************************************************************)
(* The total of the values of a function, with which EVMNode and           *)
(* EngineNode state that transactions move money and make none.            *)
(***************************************************************************)
EXTENDS Integers, FiniteSetsExt

total(f) == MapThenSumSet(LAMBDA x : f[x], DOMAIN f)
=============================================================================
