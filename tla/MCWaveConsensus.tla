-------------------------- MODULE MCWaveConsensus --------------------------
(***************************************************************************)
(* Instances of WaveConsensus for TLC: two or three validators that agree  *)
(* on the list of validators, and DAGs of two or three blocks.             *)
(***************************************************************************)
EXTENDS WaveConsensus

CONSTANTS v1, v2, v3, b1, b2, b3, mock

SameList(list) == [n \in Node |-> list]
TwoValidators == SameList(<<v1, v2>>)
ThreeValidators == SameList(<<v1, v2, v3>>)
SingleValidators == SameList(<<v1>>)

FullMesh == [n \in Node |-> Node \ {n}]

\* One block per round; a made-up block has the round of b1.
BlockRound == [b \in AnyBlock |-> CASE b = b2 -> 2 [] b = b3 -> 3 [] OTHER -> 1]
BlockHeight == [b \in Block |-> BlockRound[b]]

\* Blocks of one round by different validators, whose heights may be equal.
SameRound == [b \in AnyBlock |-> 1]
SameHeight == [b \in Block |-> 1]

EmptyDags == [n \in Node |-> {}]
\* Only v2, which leads wave 1, can still receive a block.
OneLateBlock == [n \in Node |-> IF n = v2 THEN {b1} ELSE Block]
FirstBlockEverywhere == [n \in Node |-> {b1}]
============================================================================
