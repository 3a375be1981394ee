---------------------------- MODULE Coordinator ----------------------------
(***************************************************************************)
(* The node of cmd/blazedag: the coordinator                               *)
(* (internal/core/blazedag_coordinator.go) with its pool of generated      *)
(* transactions, the DAG transport (internal/dag/dag_transport.go), the    *)
(* DAG it fills (internal/dag/dag.go) and the wave consensus over it       *)
(* (internal/core/wave_consensus.go).                                      *)
(*                                                                         *)
(* Goroutines: one generates transactions, one creates blocks, one runs    *)
(* the transport (rounds and received blocks), and the consensus has a     *)
(* timer and short-lived goroutines for its proposal.  Each step below is  *)
(* what a goroutine does under one lock.                                   *)
(*                                                                         *)
(* A block is named by its place in `block`.  Its hash covers the wave of  *)
(* the header, which createProposal sets on the block that is already in   *)
(* the DAG.  The transactions of a block, and the index of references the  *)
(* DAG keeps and nothing reads, are left out.                              *)
(***************************************************************************)
EXTENDS Integers, Sequences, FiniteSets

CONSTANTS
  validators,     \* the validators, in order (validator1, validator2)
  validatorID,    \* this node
  PoolSize,       \* maxSize of the pool (10000)
  ChanCapacity,   \* capacity of blockBroadcast (100)
  keepCount,      \* blocks the DAG keeps (5)
  keepRounds,     \* rounds before that of a block kept for references (3)
  perRound,       \* blocks of a round kept for references (5)
  UintSize,       \* rounds are computed modulo this (2^64)
  MaxRound,       \* bound: rounds
  MaxBlocks       \* bound: blocks broadcast

ASSUME ConstantTypes ==
  /\ validators \in Seq(STRING) /\ validators # <<>>
  /\ {PoolSize, ChanCapacity, keepCount, keepRounds, perRound, UintSize, MaxRound, MaxBlocks}
       \subseteq Nat
  /\ MaxRound < UintSize

VARIABLES
  pool,            \* transactions in the pool
  currentRound,    \* dt.currentRound
  creator,         \* createDAGBlocks: pc, and what CreateDAGBlock has read
  block,           \* the blocks: round, height, references, wave
  blockBroadcast,  \* dt.blockBroadcast
  blocks,          \* keys of d.blocks: hashes of blocks
  height,          \* d.height
  tracking,        \* block that is in the DAG and not in recentBlocks yet, or 0
  recentBlocks,    \* dt.recentBlocks: round -> blocks, in order of arrival
  mu,              \* wc.mu: "free", or "held" by a goroutine that waits for it
  timer,           \* wc.waveTimer
  complaints,      \* complaints of the wave
  proposer,        \* how far the proposal of the wave is
  proposal         \* the proposal: block and hash

creation == <<pool, creator>>
transport == <<currentRound, blockBroadcast, blocks, height, tracking, recentBlocks>>
waves == <<mu, timer, complaints, proposer, proposal>>
vars == <<creation, block, transport, waves>>

\* Block.ComputeHash.
hashOf(b) == <<b, block[b].wave>>
Round == 0..MaxRound

\* currentWave: startNewWave begins with wave 1; advanceWave is called by
\* handleWaveTimeout, which holds the lock it needs, and by commitProposal,
\* which NothingCommitted shows to be out of reach.
currentWave == 1
f == (Len(validators) - 1) \div 3
isLeader == validators[(currentWave % Len(validators)) + 1] = validatorID

Init ==
  /\ pool = 0
  /\ creator = [pc |-> "idle", round |-> 0, references |-> {}]
  /\ block = <<>>
  /\ currentRound = 0
  /\ blockBroadcast = <<>>
  /\ blocks = {}
  /\ height = 0
  /\ tracking = 0
  /\ recentBlocks = [r \in Round |-> <<>>]
  /\ mu = "free"
  /\ timer = "unset"
  /\ complaints = 0
  /\ proposer = "none"
  /\ proposal = [block |-> 0, hash |-> <<0, 0>>]

-----------------------------------------------------------------------------
(* The coordinator *)

\* SimplePool.Add refuses a transaction it has no room for.
poolHasRoom == pool < PoolSize

\* SimplePool.GetPending gives transactions and removes none of them.
poolHasPending == pool > 0

\* A transaction the pool has no room for is dropped.
generateTransactions ==
  /\ poolHasRoom
  /\ pool' = pool + 1
  /\ UNCHANGED <<creator, block, transport, waves>>

\* createDAGBlocks finds transactions, which stay in the pool, and
\* CreateDAGBlock reads the round.
createDAGBlocks ==
  /\ creator.pc = "idle"
  /\ poolHasPending
  /\ Len(block) < MaxBlocks
  /\ creator' = [pc |-> "round", round |-> currentRound, references |-> {}]
  /\ UNCHANGED <<pool, block, transport, waves>>

minOf(m, n) == IF m < n THEN m ELSE n
firstOf(s, n) == {s[i] : i \in 1..minOf(Len(s), n)}

getDAGReferences ==
  /\ creator.pc = "round"
  /\ creator' = [pc |-> "references", round |-> creator.round, references |->
       IF creator.round = 0 THEN {}
       ELSE {hashOf(b) : b \in firstOf(recentBlocks[creator.round - 1], perRound)}]
  /\ UNCHANGED <<pool, block, transport, waves>>

\* CreateDAGBlock reads the height, BroadcastBlock sends the block or, when the
\* channel is full, drops it.
BroadcastBlock ==
  /\ creator.pc = "references"
  /\ creator' = [pc |-> "idle", round |-> 0, references |-> {}]
  /\ \/ /\ Len(blockBroadcast) < ChanCapacity
        /\ block' = Append(block, [round |-> creator.round, height |-> height + 1,
                                   references |-> creator.references, wave |-> 0])
        /\ blockBroadcast' = Append(blockBroadcast, Len(block) + 1)
     \/ /\ Len(blockBroadcast) = ChanCapacity
        /\ UNCHANGED <<block, blockBroadcast>>
  /\ UNCHANGED <<pool, currentRound, blocks, height, tracking, recentBlocks, waves>>

-----------------------------------------------------------------------------
(* The transport *)

advanceDAGRound ==
  /\ tracking = 0
  /\ currentRound < MaxRound
  /\ currentRound' = currentRound + 1
  /\ UNCHANGED <<creation, block, blockBroadcast, blocks, height, tracking, recentBlocks, waves>>

heightOf(key) == block[key[1]].height

\* Sets of n blocks with the lowest heights; blocks of one height are in any
\* order.
lowest(keys, n) ==
  {low \in SUBSET keys : /\ Cardinality(low) = n
                         /\ \A k \in low, l \in keys \ low : heightOf(k) <= heightOf(l)}

\* Mutant of cleanupOldBlocks: one block leaves when one comes.
cleanupOneBlock(keys) ==
  IF Cardinality(keys) <= keepCount THEN {keys}
  ELSE {keys \ {hashOf(k[1]) : k \in low} : low \in lowest(keys, 1)}

\* A block leaves the DAG under the hash it has now.
cleanupOldBlocks(keys) ==
  IF Cardinality(keys) <= keepCount THEN {keys}
  ELSE {keys \ {hashOf(k[1]) : k \in low} : low \in lowest(keys, Cardinality(keys) - keepCount)}

\* Mutant of processDAGBlock: the transport asks the consensus for the wave.
processDAGBlockInWave ==
  LET b == Head(blockBroadcast)
  IN  /\ mu = "free"
      /\ tracking = 0
      /\ blockBroadcast # <<>>
      /\ blockBroadcast' = Tail(blockBroadcast)
      /\ blocks' \in cleanupOldBlocks(blocks \cup {hashOf(b)})
      /\ height' = height + 1
      /\ tracking' = b
      /\ UNCHANGED <<creation, block, currentRound, recentBlocks, waves>>

\* Mutant of processDAGBlock: the height is the number of blocks held.
processDAGBlockHeld ==
  LET b == Head(blockBroadcast)
  IN  /\ tracking = 0
      /\ blockBroadcast # <<>>
      /\ blockBroadcast' = Tail(blockBroadcast)
      /\ blocks' \in cleanupOldBlocks(blocks \cup {hashOf(b)})
      /\ height' = Cardinality(blocks')
      /\ tracking' = b
      /\ UNCHANGED <<creation, block, currentRound, recentBlocks, waves>>

\* processDAGBlock up to the end of AddBlock.
processDAGBlock ==
  LET b == Head(blockBroadcast)
  IN  /\ tracking = 0
      /\ blockBroadcast # <<>>
      /\ blockBroadcast' = Tail(blockBroadcast)
      /\ blocks' \in cleanupOldBlocks(blocks \cup {hashOf(b)})
      /\ height' = height + 1
      /\ tracking' = b
      /\ UNCHANGED <<creation, block, currentRound, recentBlocks, waves>>

lastOf(s, n) == SubSeq(s, Len(s) - minOf(Len(s), n) + 1, Len(s))

\* The rest of processDAGBlock.  In the first rounds round - 3 wraps around: a
\* block of the rounds 0 to 2 is removed together with all before it.
trackBlock ==
  LET round == block[tracking].round
      kept(r) == r >= (round - keepRounds) % UintSize
  IN  /\ tracking # 0
      /\ recentBlocks' = [r \in Round |->
           CASE ~kept(r) -> <<>>
             [] kept(r) /\ r = round -> lastOf(Append(recentBlocks[r], tracking), perRound)
             [] OTHER -> recentBlocks[r]]
      /\ tracking' = 0
      /\ UNCHANGED <<creation, block, currentRound, blockBroadcast, blocks, height, waves>>

-----------------------------------------------------------------------------
(* The wave consensus *)

startNewWave ==
  /\ timer = "unset"
  /\ mu = "free"
  /\ timer' = "set"
  /\ proposer' = IF isLeader THEN "started" ELSE "none"
  /\ UNCHANGED <<creation, block, transport, mu, complaints, proposal>>

\* Rounds GetUncommittedBlocks looks at; below round 2 currentRound - 2 wraps
\* around.
uncommittedRounds ==
  {r \in 1..currentRound : r >= (currentRound - 2) % UintSize /\ recentBlocks[r] # <<>>}

\* Mutant of hashForWave: the hash the DAG knows the block by.
hashInDAG(b) == hashOf(b)

\* The hash of the block once it has the number of the wave.
hashForWave(b) == <<b, currentWave>>

\* createProposal takes the first block of the highest round, sets its wave and
\* computes its hash.
createProposal ==
  /\ proposer = "started"
  /\ \/ /\ uncommittedRounds = {}
        /\ proposer' = "none"
        /\ UNCHANGED <<block, proposal>>
     \/ \E r \in uncommittedRounds :
          LET b == recentBlocks[r][1]
          IN  /\ \A q \in uncommittedRounds : q <= r
              /\ block' = [block EXCEPT ![b].wave = currentWave]
              /\ proposal' = [block |-> b, hash |-> hashForWave(b)]
              /\ proposer' = "made"
  /\ UNCHANGED <<creation, transport, mu, timer, complaints>>

\* The end of createProposal, under the lock, and broadcastProposal.
storeProposal ==
  /\ proposer = "made"
  /\ mu = "free"
  /\ proposer' = "stored"
  /\ UNCHANGED <<creation, block, transport, mu, timer, complaints, proposal>>

\* The leader is this node, so that validateProposal depends on the block.
validateProposal == proposal.hash \in blocks

\* handleProposal; what follows a vote is out of reach (NothingCommitted).
handleProposal ==
  /\ proposer = "stored"
  /\ proposer' = IF validateProposal THEN "voted" ELSE "invalid"
  /\ UNCHANGED <<creation, block, transport, mu, timer, complaints, proposal>>

\* With 2f+1 complaints advanceWave waits for the lock handleWaveTimeout holds.
handleWaveTimeout ==
  /\ timer = "set"
  /\ mu = "free"
  /\ timer' = "fired"
  /\ complaints' = 1
  /\ mu' = IF complaints' >= 2 * f + 1 THEN "held" ELSE "free"
  /\ UNCHANGED <<creation, block, transport, proposer, proposal>>

-----------------------------------------------------------------------------

creatorStep == createDAGBlocks \/ getDAGReferences \/ BroadcastBlock
transportStep == processDAGBlock \/ trackBlock

Next ==
  \/ generateTransactions
  \/ createDAGBlocks
  \/ getDAGReferences
  \/ BroadcastBlock
  \/ advanceDAGRound
  \/ processDAGBlock
  \/ trackBlock
  \/ startNewWave
  \/ createProposal
  \/ storeProposal
  \/ handleProposal
  \/ handleWaveTimeout

Spec == Init /\ [][Next]_vars

\* The goroutines of the coordinator and of the transport go on; the ticker
\* goes on, and select picks it again and again.
Fairness ==
  /\ WF_vars(creatorStep)
  /\ WF_vars(transportStep)
  /\ SF_vars(advanceDAGRound)
FairSpec == Spec /\ Fairness

-----------------------------------------------------------------------------
(* Properties *)

Blocks == 1..Len(block)
Key == Blocks \X {0, currentWave}

\* The types of the variables.
TypeOK ==
  /\ pool \in Nat
  /\ currentRound \in Round
  /\ creator \in [pc : {"idle", "round", "references"}, round : Round, references : SUBSET Key]
  /\ block \in Seq([round : Round, height : Nat, references : SUBSET Key, wave : {0, currentWave}])
  /\ blockBroadcast \in Seq(Blocks)
  /\ blocks \subseteq Key
  /\ height \in Nat
  /\ tracking \in Blocks \cup {0}
  /\ recentBlocks \in [Round -> Seq(Blocks)]
  /\ mu \in {"free", "held"}
  /\ timer \in {"unset", "set", "fired"}
  /\ complaints \in {0, 1}
  /\ proposer \in {"none", "started", "made", "stored", "invalid", "voted"}
  /\ proposal \in [block : Blocks \cup {0}, hash : (Blocks \cup {0}) \X {0, currentWave}]

\* A block is higher than the blocks it refers to: CreateDAGBlock reads the
\* height after the references, and processDAGBlock counts a block before it
\* offers it for references.
HeightsFollowReferences ==
  \A b \in Blocks : \A key \in block[b].references : heightOf(key) < block[b].height

\* cleanupOldBlocks leaves at most keepCount blocks, not counting one that
\* createProposal has changed, which it cannot delete any more.
KeepBound ==
  Cardinality({key \in blocks : hashOf(key[1]) = key}) <= keepCount

\* No proposal is voted for: validateProposal looks for a hash under which the
\* DAG holds no block, so that checkCommitCondition, commitProposal and the
\* cleanup after a commit are never reached.
NothingCommitted == proposer # "voted"

\* The rounds and the blocks of the DAG go on whatever the consensus does, also
\* when handleWaveTimeout keeps its lock for ever.
DAGGoesOn ==
  <>[](currentRound = MaxRound /\ blockBroadcast = <<>> /\ tracking = 0)
=============================================================================
