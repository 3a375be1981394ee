----------------------------- MODULE MCDAGSync -----------------------------
(***************************************************************************)
(* An instance of DAGSync for TLC: two validators, one of which dials the  *)
(* other.                                                                  *)
(***************************************************************************)
EXTENDS DAGSync

CONSTANTS v1, v2, t1

\* v1 sends to v2 only: v2 references, next to its own blocks, those it
\* received, and its DAG fills twice as fast as that of v1.
OneWay == [n \in Node |-> IF n = v1 THEN {v2} ELSE {}]
============================================================================
