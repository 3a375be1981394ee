------------------------- MODULE CoordinatorProofs -------------------------
(***************************************************************************)
(* Theorems about Coordinator, for every number of validators, rounds and  *)
(* blocks and every capacity.                                              *)
(***************************************************************************)
EXTENDS Coordinator, FiniteSetTheorems, TLAPS

\* A block with the names of the blocks below n in its references.
BlockRecord(n) ==
  [round : Round, height : Nat, references : SUBSET ((1..n) \X {0, currentWave}),
   wave : {0, currentWave}]

\* Names of the blocks kept for references in round r.
Recent(r) == {recentBlocks[r][i] : i \in 1..Len(recentBlocks[r])}
Sent == {blockBroadcast[i] : i \in 1..Len(blockBroadcast)}

\* A block that is offered for references has been counted in the height; one
\* that is on its way may be one higher.
HeightInv ==
  /\ \A b \in Blocks : block[b].height <= height + 1
  /\ tracking # 0 => block[tracking].height <= height
  /\ \A r \in Round : \A b \in Recent(r) : block[b].height <= height
  /\ \A key \in creator.references : heightOf(key) <= height
  /\ HeightsFollowReferences

\* The channel holds the blocks broadcast last, in order; no consensus has
\* touched them, so that the DAG files every block under a hash without a wave.
KeyInv ==
  /\ \A i, j \in 1..Len(blockBroadcast) : i < j => blockBroadcast[i] < blockBroadcast[j]
  /\ \A b \in Sent : tracking < b /\ block[b].wave = 0 /\ \A r \in Round : \A c \in Recent(r) : c < b
  /\ \A key \in blocks : key[2] = 0
  /\ proposer \in {"made", "stored"} => proposal.hash[2] = currentWave
  /\ NothingCommitted

KeepInv == IsFiniteSet(blocks) /\ KeepBound

Inv == TypeOK /\ HeightInv /\ KeyInv /\ KeepInv

-----------------------------------------------------------------------------
(* Types *)

\* A sequence over a set is one over a larger set.
LEMMA SeqGrows ==
  ASSUME NEW S, NEW T, S \subseteq T, NEW s \in Seq(S)
  PROVE  s \in Seq(T)
  BY SMT

\* Names stay names when there are more blocks.
LEMMA NamesGrow ==
  ASSUME NEW m \in Nat, NEW n \in Nat, m <= n
  PROVE  /\ 1..m \subseteq 1..n
         /\ (1..m) \X {0, currentWave} \subseteq (1..n) \X {0, currentWave}
         /\ BlockRecord(m) \subseteq BlockRecord(n)
<1>1. 1..m \subseteq 1..n
  BY SMT
<1>2. (1..m) \X {0, currentWave} \subseteq (1..n) \X {0, currentWave}
  BY <1>1, SMT
<1>3. BlockRecord(m) \subseteq BlockRecord(n)
  BY <1>2, SMT DEF BlockRecord
<1> QED BY <1>1, <1>2, <1>3

\* The types, conjunct by conjunct.
LEMMA Types ==
  ASSUME TypeOK
  PROVE  /\ Len(block) \in Nat
         /\ pool \in Nat /\ currentRound \in Round /\ height \in Nat
         /\ creator \in [pc : {"idle", "round", "references"}, round : Round, references : SUBSET Key]
         /\ block \in Seq(BlockRecord(Len(block)))
         /\ blockBroadcast \in Seq(Blocks) /\ blocks \subseteq Key
         /\ tracking \in Blocks \cup {0} /\ recentBlocks \in [Round -> Seq(Blocks)]
         /\ MaxRound \in Nat /\ 0 \in Round
<1>1. block \in Seq(BlockRecord(Len(block)))
  BY Zenon DEF TypeOK, BlockRecord, Key, Blocks
<1>2. Len(block) \in Nat
  BY <1>1, SMT
<1>3. MaxRound \in Nat /\ 0 \in Round
  BY ConstantTypes, SMT DEF Round
<1> QED BY <1>1, <1>2, <1>3, Zenon DEF TypeOK

\* What a block is.
LEMMA BlockTypes ==
  ASSUME TypeOK, NEW b \in Blocks
  PROVE  /\ block[b] \in BlockRecord(Len(block))
         /\ block[b].round \in Round /\ block[b].height \in Nat
         /\ block[b].references \subseteq Key /\ block[b].wave \in {0, currentWave}
         /\ b \in Nat /\ b > 0 /\ b <= Len(block)
         /\ hashOf(b) \in Key /\ hashOf(b)[1] = b /\ hashOf(b)[2] = block[b].wave
<1>1. block \in Seq(BlockRecord(Len(block))) /\ Len(block) \in Nat
  BY Types, Zenon
<1>2. b \in 1..Len(block)
  BY Zenon DEF Blocks
<1>3. block[b] \in BlockRecord(Len(block))
  BY <1>1, <1>2, SMT
<1>4. /\ block[b].round \in Round /\ block[b].height \in Nat
      /\ block[b].references \subseteq Key /\ block[b].wave \in {0, currentWave}
  BY <1>3, SMT DEF BlockRecord, Key, Blocks
<1>5. b \in Nat /\ b > 0 /\ b <= Len(block)
  BY <1>1, <1>2, SMT
<1>6. hashOf(b) \in Key /\ hashOf(b)[1] = b /\ hashOf(b)[2] = block[b].wave
  BY <1>2, <1>4, SMT DEF hashOf, Key, Blocks
<1> QED BY <1>3, <1>4, <1>5, <1>6, Zenon

\* What createDAGBlocks, getDAGReferences and BroadcastBlock leave of the types.
LEMMA ReferencesType ==
  ASSUME TypeOK, NEW r \in Round, NEW n \in Nat
  PROVE  /\ firstOf(recentBlocks[r], n) \subseteq Blocks
         /\ {hashOf(b) : b \in firstOf(recentBlocks[r], n)} \subseteq Key
<1>1. recentBlocks[r] \in Seq(Blocks)
  BY Types, Zenon
<1>2. firstOf(recentBlocks[r], n) \subseteq Blocks
  BY <1>1, SMT DEF firstOf, minOf
<1> QED BY <1>2, BlockTypes, Zenon

\* Names in the transport are names of blocks.
LEMMA NamesOfBlocks ==
  ASSUME TypeOK
  PROVE  /\ Sent \subseteq Blocks
         /\ \A r \in Round : Recent(r) \subseteq Blocks
         /\ \A key \in Key : key[1] \in Blocks /\ key[2] \in {0, currentWave}
<1>1. blockBroadcast \in Seq(Blocks) /\ recentBlocks \in [Round -> Seq(Blocks)]
  BY Types, Zenon
<1>2. Sent \subseteq Blocks
  BY <1>1, SMT DEF Sent
<1>3. ASSUME NEW r \in Round
      PROVE  Recent(r) \subseteq Blocks
  <2>1. recentBlocks[r] \in Seq(Blocks)
    BY <1>1, Zenon
  <2> QED BY <2>1, SMT DEF Recent
<1>4. \A key \in Key : key[1] \in Blocks /\ key[2] \in {0, currentWave}
  BY SMT DEF Key
<1> QED BY <1>2, <1>3, <1>4, Zenon

-----------------------------------------------------------------------------
(* The cleanup *)

\* cleanupOldBlocks leaves at most keepCount blocks that it could delete.
LEMMA CleanupKeeps ==
  ASSUME NEW keys, IsFiniteSet(keys), NEW K \in cleanupOldBlocks(keys)
  PROVE  /\ K \subseteq keys /\ IsFiniteSet(K)
         /\ Cardinality({key \in K : hashOf(key[1]) = key}) <= keepCount
<1> DEFINE real == {key \in K : hashOf(key[1]) = key}
<1>1. keepCount \in Nat
  BY ConstantTypes, Zenon
<1>2. Cardinality(keys) \in Nat
  BY FS_CardinalityType, Zenon
<1>3. CASE Cardinality(keys) <= keepCount
  <2>1. K = keys
    BY <1>3, Zenon DEF cleanupOldBlocks
  <2>2. real \in SUBSET keys
    BY <2>1, Zenon
  <2>3. IsFiniteSet(real) /\ Cardinality(real) <= Cardinality(keys)
    BY <2>2, FS_Subset, Zenon
  <2>4. Cardinality(real) \in Nat
    BY <2>3, FS_CardinalityType, Zenon
  <2>5. Cardinality(real) <= keepCount
    BY <2>3, <2>4, <1>1, <1>2, <1>3, SMT
  <2> QED BY <2>1, <2>5, Zenon
<1>4. CASE ~(Cardinality(keys) <= keepCount)
  <2>1. PICK low \in lowest(keys, Cardinality(keys) - keepCount) :
          K = keys \ {hashOf(k[1]) : k \in low}
    BY <1>4, Zenon DEF cleanupOldBlocks
  <2>2. low \in SUBSET keys /\ Cardinality(low) = Cardinality(keys) - keepCount
    BY Zenon DEF lowest
  <2>3. K \subseteq keys /\ K \in SUBSET keys
    BY <2>1, Zenon
  <2>4. IsFiniteSet(K)
    BY <2>3, FS_Subset, Zenon
  <2>5. real \in SUBSET (keys \ low)
    BY <2>1, Zenon
  <2>6. keys \cap low = low
    BY <2>2, Zenon
  <2>7. IsFiniteSet(keys \ low) /\ Cardinality(keys \ low) = Cardinality(keys) - Cardinality(keys \cap low)
    BY FS_Difference, Zenon
  <2>8. Cardinality(keys \ low) = keepCount
    <3>1. Cardinality(keys \ low) = Cardinality(keys) - Cardinality(low)
      BY <2>6, <2>7, Zenon
    <3>2. ASSUME NEW c \in Nat, NEW k \in Nat
          PROVE  c - (c - k) = k
      BY SMT
    <3>3. Cardinality(keys) - (Cardinality(keys) - keepCount) = keepCount
      BY <3>2, <1>1, <1>2, Zenon
    <3> QED BY <3>1, <3>3, <2>2, Zenon
  <2>9. Cardinality(real) <= keepCount
    BY <2>5, <2>7, <2>8, FS_Subset, Zenon
  <2> QED BY <2>3, <2>4, <2>9, Zenon
<1> QED BY <1>3, <1>4, Zenon

-----------------------------------------------------------------------------
(* The steps *)

\* Steps that leave the blocks, the transport and what the creator has read
\* alone.
LEMMA QuietStep ==
  ASSUME Inv,
         \/ generateTransactions \/ advanceDAGRound \/ startNewWave
         \/ storeProposal \/ handleProposal \/ handleWaveTimeout
  PROVE  Inv'
<1>1. UNCHANGED <<creator, block, blockBroadcast, blocks, height, tracking, recentBlocks>>
  BY Zenon DEF generateTransactions, advanceDAGRound, startNewWave, storeProposal, handleProposal,
     handleWaveTimeout, creation, transport
<1>2. TypeOK /\ HeightInv /\ KeyInv /\ KeepInv
  BY Zenon DEF Inv
<1>3. Blocks' = Blocks /\ Key' = Key
  BY <1>1, Zenon DEF Blocks, Key
<1>4. pool' \in Nat
  <2>1. pool \in Nat
    BY <1>2, Zenon DEF TypeOK
  <2>2. pool' = pool \/ pool' = pool + 1
    BY Zenon DEF generateTransactions, advanceDAGRound, startNewWave, storeProposal, handleProposal,
       handleWaveTimeout, creation
  <2> QED BY <2>1, <2>2, SMT
<1>5. currentRound' \in Round
  <2>1. currentRound \in Round /\ MaxRound \in Nat
    BY <1>2, Types, Zenon
  <2>2. currentRound' = currentRound \/ (currentRound < MaxRound /\ currentRound' = currentRound + 1)
    BY Zenon DEF generateTransactions, advanceDAGRound, startNewWave, storeProposal, handleProposal,
       handleWaveTimeout, transport
  <2> QED BY <2>1, <2>2, SMT DEF Round
<1>6. /\ mu' \in {"free", "held"} /\ timer' \in {"unset", "set", "fired"} /\ complaints' \in {0, 1}
      /\ proposer' \in {"none", "started", "made", "stored", "invalid", "voted"}
      /\ proposal' = proposal
  <2>1. /\ mu \in {"free", "held"} /\ timer \in {"unset", "set", "fired"} /\ complaints \in {0, 1}
        /\ proposer \in {"none", "started", "made", "stored", "invalid", "voted"}
    BY <1>2, Zenon DEF TypeOK
  <2>2. CASE generateTransactions \/ advanceDAGRound
    BY <2>1, <2>2, Zenon DEF generateTransactions, advanceDAGRound, waves
  <2>3. CASE startNewWave \/ storeProposal
    BY <2>1, <2>3, Zenon DEF startNewWave, storeProposal
  <2>4. CASE handleProposal
    BY <2>1, <2>4, Zenon DEF handleProposal
  <2>5. CASE handleWaveTimeout
    BY <2>1, <2>5, Zenon DEF handleWaveTimeout
  <2> QED BY <2>2, <2>3, <2>4, <2>5, Zenon
<1>7. TypeOK'
  BY <1>1, <1>2, <1>3, <1>4, <1>5, <1>6, Zenon DEF TypeOK
<1>8. HeightInv'
  BY <1>1, <1>2, <1>3, Zenon DEF HeightInv, HeightsFollowReferences, heightOf, Recent
<1>9. /\ proposer' \in {"made", "stored"} => proposer \in {"made", "stored"}
      /\ NothingCommitted'
  <2>1. CASE generateTransactions \/ advanceDAGRound
    BY <2>1, <1>2, Zenon DEF generateTransactions, advanceDAGRound, waves, KeyInv, NothingCommitted
  <2>2. CASE startNewWave \/ storeProposal \/ handleWaveTimeout
    BY <2>2, <1>2, Zenon DEF startNewWave, storeProposal, handleWaveTimeout, KeyInv, NothingCommitted
  <2>3. CASE handleProposal
    <3>1. proposer = "stored" /\ proposer' = IF validateProposal THEN "voted" ELSE "invalid"
      BY <2>3, Zenon DEF handleProposal
    <3>2. proposal.hash[2] = currentWave /\ \A key \in blocks : key[2] = 0
      BY <3>1, <1>2, Zenon DEF KeyInv
    <3>3. currentWave # 0
      BY SMT DEF currentWave
    <3>4. ~validateProposal
      BY <3>2, <3>3, Zenon DEF validateProposal
    <3> QED BY <3>1, <3>4, Zenon DEF NothingCommitted
  <2> QED BY <2>1, <2>2, <2>3, Zenon
<1>10. KeyInv'
  <2>1. Sent' = Sent /\ \A r \in Round : Recent(r)' = Recent(r)
    BY <1>1, Zenon DEF Sent, Recent
  <2> QED BY <2>1, <1>1, <1>2, <1>6, <1>9, Zenon DEF KeyInv
<1>11. KeepInv'
  BY <1>1, <1>2, Zenon DEF KeepInv, KeepBound, hashOf
<1> QED BY <1>7, <1>8, <1>10, <1>11, Zenon DEF Inv

\* createDAGBlocks and getDAGReferences: the creator reads.
LEMMA ReadStep ==
  ASSUME Inv, createDAGBlocks \/ getDAGReferences
  PROVE  Inv'
<1>1. /\ UNCHANGED <<pool, block, currentRound, blockBroadcast, blocks, height, tracking, recentBlocks>>
      /\ UNCHANGED <<mu, timer, complaints, proposer, proposal>>
  BY Zenon DEF createDAGBlocks, getDAGReferences, transport, waves
<1>2. TypeOK /\ HeightInv /\ KeyInv /\ KeepInv
  BY Zenon DEF Inv
<1>3. Blocks' = Blocks /\ Key' = Key
  BY <1>1, Zenon DEF Blocks, Key
<1>4. creator \in [pc : {"idle", "round", "references"}, round : Round, references : SUBSET Key]
      /\ currentRound \in Round /\ perRound \in Nat
  BY <1>2, Types, ConstantTypes, Zenon
<1>5. /\ creator' \in [pc : {"idle", "round", "references"}, round : Round, references : SUBSET Key]
      /\ \A key \in creator'.references : heightOf(key) <= height
  <2>1. CASE createDAGBlocks
    <3>1. creator' = [pc |-> "round", round |-> currentRound, references |-> {}]
      BY <2>1, Zenon DEF createDAGBlocks
    <3> QED BY <3>1, <1>4, SMT
  <2>2. CASE getDAGReferences
    <3> DEFINE refs == IF creator.round = 0 THEN {}
                       ELSE {hashOf(b) : b \in firstOf(recentBlocks[creator.round - 1], perRound)}
    <3>1. creator' = [pc |-> "references", round |-> creator.round, references |-> refs]
      BY <2>2, Zenon DEF getDAGReferences
    <3>2. refs \subseteq Key /\ \A key \in refs : heightOf(key) <= height
      <4>1. CASE creator.round = 0
        BY <4>1, Zenon
      <4>2. CASE creator.round # 0
        <5> DEFINE r == creator.round - 1
                   S == firstOf(recentBlocks[r], perRound)
        <5>1. r \in Round
          BY <4>2, <1>4, ConstantTypes, SMT DEF Round
        <5>2. S \subseteq Blocks /\ {hashOf(b) : b \in S} \subseteq Key
          BY <5>1, <1>2, <1>4, ReferencesType, Zenon
        <5>3. recentBlocks[r] \in Seq(Blocks)
          BY <5>1, <1>2, Types, Zenon
        <5>4. S \subseteq Recent(r)
          <6> HIDE DEF r
          <6> QED BY <5>3, <1>4, SMT DEF firstOf, minOf, Recent
        <5>5. ASSUME NEW b \in S
              PROVE  heightOf(hashOf(b)) <= height
          <6>1. block[b].height <= height
            BY <5>1, <5>4, <1>2, Zenon DEF HeightInv
          <6>2. hashOf(b)[1] = b
            BY <5>2, <1>2, BlockTypes, Zenon
          <6> QED BY <6>1, <6>2, Zenon DEF heightOf
        <5> QED BY <5>2, <5>5, <4>2, Zenon
      <4> QED BY <4>1, <4>2, Zenon
    <3> HIDE DEF refs
    <3>3. creator' \in [pc : {"idle", "round", "references"}, round : Round, references : SUBSET Key]
          /\ creator'.references = refs
      <4>1. creator.round \in Round /\ refs \in SUBSET Key
        BY <3>2, <1>4, SMT
      <4> QED BY <4>1, <3>1, SMT
    <3> QED BY <3>2, <3>3, Zenon
  <2> QED BY <2>1, <2>2, Zenon
<1>6. TypeOK'
  BY <1>1, <1>2, <1>3, <1>5, Zenon DEF TypeOK
<1>7. HeightInv'
  <2>1. /\ \A key : heightOf(key)' = heightOf(key)
        /\ \A r \in Round : Recent(r)' = Recent(r)
    BY <1>1, Zenon DEF heightOf, Recent
  <2>2. HeightsFollowReferences'
    BY <2>1, <1>1, <1>2, <1>3, Zenon DEF HeightInv, HeightsFollowReferences
  <2> QED BY <2>1, <2>2, <1>1, <1>2, <1>3, <1>5, Zenon DEF HeightInv
<1>8. KeyInv'
  <2>1. Sent' = Sent /\ \A r \in Round : Recent(r)' = Recent(r)
    BY <1>1, Zenon DEF Sent, Recent
  <2> QED BY <2>1, <1>1, <1>2, Zenon DEF KeyInv, NothingCommitted
<1>9. KeepInv'
  BY <1>1, <1>2, Zenon DEF KeepInv, KeepBound, hashOf
<1> QED BY <1>6, <1>7, <1>8, <1>9, Zenon DEF Inv

\* BroadcastBlock: the new block has the next name and is higher than what it
\* refers to.
LEMMA BroadcastStep ==
  ASSUME Inv, BroadcastBlock
  PROVE  Inv'
<1> DEFINE n == Len(block)
           new == [round |-> creator.round, height |-> height + 1,
                   references |-> creator.references, wave |-> 0]
<1>1. /\ creator' = [pc |-> "idle", round |-> 0, references |-> {}]
      /\ UNCHANGED <<pool, currentRound, blocks, height, tracking, recentBlocks>>
      /\ UNCHANGED <<mu, timer, complaints, proposer, proposal>>
  BY Zenon DEF BroadcastBlock, waves
<1>2. \/ block' = Append(block, new) /\ blockBroadcast' = Append(blockBroadcast, n + 1)
      \/ UNCHANGED <<block, blockBroadcast>>
  BY Zenon DEF BroadcastBlock
<1>3. TypeOK /\ HeightInv /\ KeyInv /\ KeepInv
  BY Zenon DEF Inv
<1>4. /\ n \in Nat /\ height \in Nat /\ 0 \in Round
      /\ block \in Seq(BlockRecord(n)) /\ blockBroadcast \in Seq(Blocks)
      /\ blocks \subseteq Key /\ tracking \in Blocks \cup {0}
      /\ recentBlocks \in [Round -> Seq(Blocks)]
      /\ creator \in [pc : {"idle", "round", "references"}, round : Round, references : SUBSET Key]
  BY <1>3, Types, Zenon
<1>5. /\ creator' \in [pc : {"idle", "round", "references"}, round : Round, references : SUBSET Key']
      /\ creator'.references = {}
  BY <1>1, <1>4, SMT
<1>6. /\ Sent \subseteq Blocks /\ \A r \in Round : Recent(r) \subseteq Blocks
      /\ \A key \in Key : key[1] \in Blocks
  BY <1>3, NamesOfBlocks, Zenon
<1>7. CASE UNCHANGED <<block, blockBroadcast>>
  <2>1. Blocks' = Blocks /\ Key' = Key
    BY <1>7, Zenon DEF Blocks, Key
  <2>2. TypeOK'
    BY <2>1, <1>1, <1>3, <1>5, <1>7, Zenon DEF TypeOK
  <2>3. HeightInv'
    BY <2>1, <1>1, <1>3, <1>5, <1>7, ZenonT(40) DEF HeightInv, HeightsFollowReferences, heightOf, Recent
  <2>4. KeyInv'
    <3>1. Sent' = Sent /\ \A r \in Round : Recent(r)' = Recent(r)
      BY <1>1, <1>7, Zenon DEF Sent, Recent
    <3> QED BY <3>1, <1>1, <1>3, <1>7, Zenon DEF KeyInv, NothingCommitted
  <2>5. KeepInv'
    BY <1>1, <1>3, <1>7, Zenon DEF KeepInv, KeepBound, hashOf
  <2> QED BY <2>2, <2>3, <2>4, <2>5, Zenon DEF Inv
<1>8. CASE block' = Append(block, new) /\ blockBroadcast' = Append(blockBroadcast, n + 1)
  <2>1. Blocks = 1..n /\ Key = (1..n) \X {0, currentWave}
    BY Zenon DEF Blocks, Key
  <2>2. new \in BlockRecord(n)
    <3>1. creator.round \in Round /\ creator.references \in SUBSET Key /\ height + 1 \in Nat
      BY <1>4, SMT
    <3> QED BY <3>1, <2>1, SMT DEF BlockRecord
  <2>3. /\ block' \in Seq(BlockRecord(n)) /\ Len(block') = n + 1
        /\ block'[n + 1] = new /\ \A b \in 1..n : block'[b] = block[b]
    <3> HIDE DEF new
    <3> QED BY <2>2, <1>4, <1>8, SMT
  <2>4. /\ 1..n \subseteq 1..(n + 1)
        /\ (1..n) \X {0, currentWave} \subseteq (1..(n + 1)) \X {0, currentWave}
        /\ BlockRecord(n) \subseteq BlockRecord(n + 1)
    <3>1. n + 1 \in Nat /\ n <= n + 1
      BY <1>4, SMT
    <3> QED BY <3>1, <1>4, NamesGrow, Zenon
  <2>5. Blocks' = 1..(n + 1) /\ Key' = (1..(n + 1)) \X {0, currentWave}
    BY <2>3, Zenon DEF Blocks, Key
  <2>6. Blocks \subseteq Blocks' /\ Key \subseteq Key'
    BY <2>1, <2>4, <2>5, Zenon
  <2>7. n + 1 \in Blocks' /\ n + 1 \notin Blocks /\ \A b \in Blocks' : b \in Blocks \/ b = n + 1
    BY <2>1, <2>5, <1>4, SMT
  <2>8. \A b \in Blocks : block'[b] = block[b] /\ b < n + 1
    BY <2>1, <2>3, <1>4, SMT
  <2> HIDE DEF n
  <2>9. TypeOK'
    <3>1. block' \in Seq(BlockRecord(n + 1))
      BY <2>3, <2>4, SeqGrows, Zenon
    <3>2. block' \in Seq([round : Round, height : Nat, references : SUBSET Key', wave : {0, currentWave}])
      BY <3>1, <2>5, Zenon DEF BlockRecord
    <3>3. blockBroadcast' \in Seq(Blocks')
      <4>1. blockBroadcast \in Seq(Blocks')
        BY <2>6, <1>4, SeqGrows, Zenon
      <4> QED BY <4>1, <2>7, <1>8, SMT
    <3>4. recentBlocks' \in [Round -> Seq(Blocks')]
      <4>1. \A r \in Round : recentBlocks[r] \in Seq(Blocks')
        BY <2>6, <1>4, SeqGrows, Zenon
      <4>2. recentBlocks' = [r \in Round |-> recentBlocks[r]]
        BY <1>1, <1>4, Zenon
      <4> QED BY <4>1, <4>2, Zenon
    <3>5. proposal' \in [block : Blocks' \cup {0}, hash : (Blocks' \cup {0}) \X {0, currentWave}]
      <4>1. proposal \in [block : Blocks \cup {0}, hash : (Blocks \cup {0}) \X {0, currentWave}]
        BY <1>3, Zenon DEF TypeOK
      <4> QED BY <4>1, <2>6, <1>1, SMT
    <3>6. blocks' \subseteq Key' /\ tracking' \in Blocks' \cup {0}
      BY <2>6, <1>1, <1>4, Zenon
    <3>7. /\ pool' \in Nat /\ currentRound' \in Round /\ height' \in Nat
          /\ mu' \in {"free", "held"} /\ timer' \in {"unset", "set", "fired"} /\ complaints' \in {0, 1}
          /\ proposer' \in {"none", "started", "made", "stored", "invalid", "voted"}
      BY <1>1, <1>3, Zenon DEF TypeOK
    <3> QED BY <3>2, <3>3, <3>4, <3>5, <3>6, <3>7, <1>5, Zenon DEF TypeOK
  <2>10. \A key \in Key : heightOf(key)' = heightOf(key)
    BY <2>8, <1>6, Zenon DEF heightOf
  <2>11. \A r \in Round : Recent(r)' = Recent(r)
    BY <1>1, Zenon DEF Recent
  <2>12. new.height = height + 1 /\ new.references = creator.references /\ new.wave = 0
    BY SMT
  <2> HIDE DEF new
  <2>13. HeightInv'
    <3>1. ASSUME NEW b \in Blocks'
          PROVE  block'[b].height <= height + 1
      <4>1. CASE b \in Blocks
        BY <4>1, <2>8, <1>3, Zenon DEF HeightInv
      <4>2. CASE b = n + 1
        <5>1. block'[b].height = height + 1
          BY <4>2, <2>3, <2>12, Zenon
        <5> QED BY <5>1, <1>4, SMT
      <4> QED BY <4>1, <4>2, <2>7, Zenon
    <3>2. tracking # 0 => block'[tracking].height <= height
      BY <2>8, <1>3, <1>4, Zenon DEF HeightInv
    <3>3. \A r \in Round : \A b \in Recent(r) : block'[b].height <= height
      BY <2>8, <1>3, <1>6, Zenon DEF HeightInv
    <3>4. ASSUME NEW b \in Blocks', NEW key \in block'[b].references
          PROVE  heightOf(key)' < block'[b].height
      <4>1. CASE b \in Blocks
        <5>1. key \in block[b].references /\ key \in Key
          BY <4>1, <2>8, <1>3, BlockTypes, Zenon
        <5>2. heightOf(key) < block[b].height
          BY <4>1, <5>1, <1>3, Zenon DEF HeightInv, HeightsFollowReferences
        <5> QED BY <5>1, <5>2, <4>1, <2>8, <2>10, Zenon
      <4>2. CASE b = n + 1
        <5>1. key \in creator.references /\ block'[b].height = height + 1
          BY <4>2, <2>3, <2>12, Zenon
        <5>2. creator.references \in SUBSET Key
          BY <1>4, SMT
        <5>3. heightOf(key) <= height /\ heightOf(key)' = heightOf(key)
          BY <5>1, <5>2, <2>10, <1>3, Zenon DEF HeightInv
        <5>4. heightOf(key) \in Nat
          BY <5>1, <5>2, <1>3, <1>6, BlockTypes, Zenon DEF heightOf
        <5> QED BY <5>1, <5>3, <5>4, <1>4, SMT
      <4> QED BY <4>1, <4>2, <2>7, Zenon
    <3>5. HeightsFollowReferences'
      BY <3>4, Zenon DEF HeightsFollowReferences
    <3> QED BY <3>1, <3>2, <3>3, <3>5, <2>11, <1>1, <1>5, Zenon DEF HeightInv
  <2> DEFINE l == Len(blockBroadcast)
  <2>17. /\ l \in Nat /\ Len(blockBroadcast') = l + 1 /\ blockBroadcast'[l + 1] = n + 1
         /\ \A i \in 1..l : blockBroadcast'[i] = blockBroadcast[i] /\ blockBroadcast[i] \in Blocks
    BY <1>4, <1>8, SMT
  <2>18. \A i \in 1..(l + 1) : i \in 1..l \/ i = l + 1
    BY <2>17, SMT
  <2>19. l + 1 \in 1..(l + 1) /\ 1..l \subseteq 1..(l + 1)
    BY <2>17, SMT
  <2> HIDE DEF l
  <2>14. Sent' = Sent \cup {n + 1}
    <3>1. Sent = {blockBroadcast[i] : i \in 1..l} /\ Sent' = {blockBroadcast'[i] : i \in 1..(l + 1)}
      BY <2>17, Zenon DEF Sent, l
    <3> QED BY <3>1, <2>17, <2>18, <2>19, Zenon
  <2>15. KeyInv'
    <3>1. ASSUME NEW i \in 1..Len(blockBroadcast'), NEW j \in 1..Len(blockBroadcast'), i < j
          PROVE  blockBroadcast'[i] < blockBroadcast'[j]
      <4>1. i \in 1..l
        BY <3>1, <2>17, SMT
      <4>2. j \in 1..l \/ j = l + 1
        BY <2>17, <2>18, Zenon
      <4>3. \A k, m \in 1..l : k < m => blockBroadcast[k] < blockBroadcast[m]
        BY <1>3, Zenon DEF KeyInv, l
      <4> QED BY <4>1, <4>2, <4>3, <3>1, <2>8, <2>17, Zenon
    <3>2. ASSUME NEW b \in Sent'
          PROVE  tracking < b /\ block'[b].wave = 0 /\ \A r \in Round : \A c \in Recent(r) : c < b
      <4>1. CASE b \in Sent
        BY <4>1, <2>8, <1>3, <1>6, Zenon DEF KeyInv
      <4>2. CASE b = n + 1
        <5>1. 0 < n + 1
          BY <1>4, SMT
        <5> QED BY <5>1, <4>2, <2>3, <2>8, <2>12, <1>4, <1>6, Zenon
      <4> QED BY <4>1, <4>2, <2>14, Zenon
    <3> QED BY <3>1, <3>2, <2>11, <1>1, <1>3, Zenon DEF KeyInv, NothingCommitted
  <2>16. KeepInv'
    <3>1. \A key \in blocks : hashOf(key[1])' = hashOf(key[1])
      BY <2>8, <1>4, <1>6, Zenon DEF hashOf
    <3>2. {key \in blocks' : hashOf(key[1])' = key} = {key \in blocks : hashOf(key[1]) = key}
      BY <3>1, <1>1, Zenon
    <3> QED BY <3>2, <1>1, <1>3, Zenon DEF KeepInv, KeepBound
  <2> QED BY <2>9, <2>13, <2>15, <2>16, Zenon DEF Inv
<1> QED BY <1>2, <1>7, <1>8, Zenon

\* processDAGBlock takes the oldest block of the channel, which is untouched.
LEMMA ProcessStep ==
  ASSUME Inv, processDAGBlock
  PROVE  Inv'
<1> DEFINE b == Head(blockBroadcast)
           l == Len(blockBroadcast)
<1>1. /\ tracking = 0 /\ blockBroadcast # <<>>
      /\ blockBroadcast' = Tail(blockBroadcast)
      /\ blocks' \in cleanupOldBlocks(blocks \cup {hashOf(b)})
      /\ height' = height + 1 /\ tracking' = b
      /\ UNCHANGED <<pool, creator, block, currentRound, recentBlocks>>
      /\ UNCHANGED <<mu, timer, complaints, proposer, proposal>>
  BY Zenon DEF processDAGBlock, creation, waves
<1>2. TypeOK /\ HeightInv /\ KeyInv /\ KeepInv
  BY Zenon DEF Inv
<1>3. /\ height \in Nat /\ blockBroadcast \in Seq(Blocks) /\ blocks \subseteq Key
      /\ creator \in [pc : {"idle", "round", "references"}, round : Round, references : SUBSET Key]
  BY <1>2, Types, Zenon
<1>4. /\ l \in Nat /\ l > 0 /\ b = blockBroadcast[1] /\ b \in Blocks
      /\ Tail(blockBroadcast) \in Seq(Blocks) /\ Len(Tail(blockBroadcast)) = l - 1
      /\ \A i \in 1..(l - 1) : Tail(blockBroadcast)[i] = blockBroadcast[i + 1]
  BY <1>1, <1>3, SMT
<1>5. Blocks' = Blocks /\ Key' = Key /\ \A r \in Round : Recent(r)' = Recent(r)
  BY <1>1, Zenon DEF Blocks, Key, Recent
<1>6. /\ Sent \subseteq Blocks /\ \A r \in Round : Recent(r) \subseteq Blocks
      /\ \A key \in Key : key[1] \in Blocks
  BY <1>2, NamesOfBlocks, Zenon
<1>7. 1 \in 1..l /\ \A i \in 1..(l - 1) : i + 1 \in 1..l /\ 1 < i + 1
  BY <1>4, SMT
<1> HIDE DEF b, l
<1>8. b \in Sent /\ Sent' \subseteq Sent /\ \A c \in Sent' : b < c
  <2>1. Sent = {blockBroadcast[i] : i \in 1..l}
    BY Zenon DEF Sent, l
  <2>2. Sent' = {blockBroadcast[i + 1] : i \in 1..(l - 1)}
    BY <1>1, <1>4, Zenon DEF Sent
  <2>3. \A i \in 1..(l - 1) : blockBroadcast[1] < blockBroadcast[i + 1]
    BY <1>2, <1>7, Zenon DEF KeyInv, l
  <2> QED BY <2>1, <2>2, <2>3, <1>4, <1>7, Zenon
<1>9. hashOf(b) \in Key /\ hashOf(b)[2] = 0
  <2>1. block[b].wave = 0
    BY <1>2, <1>8, Zenon DEF KeyInv
  <2> QED BY <2>1, <1>2, <1>4, BlockTypes, Zenon
<1>10. /\ blocks' \subseteq blocks \cup {hashOf(b)} /\ IsFiniteSet(blocks')
       /\ Cardinality({key \in blocks' : hashOf(key[1]) = key}) <= keepCount
  <2>1. IsFiniteSet(blocks \cup {hashOf(b)})
    BY <1>2, FS_AddElement, Zenon DEF KeepInv
  <2> QED BY <2>1, <1>1, CleanupKeeps, Zenon
<1>11. TypeOK'
  <2>1. height' \in Nat /\ blocks' \subseteq Key /\ blockBroadcast' \in Seq(Blocks)
        /\ tracking' \in Blocks \cup {0}
    <3>1. height + 1 \in Nat
      BY <1>3, SMT
    <3> QED BY <3>1, <1>1, <1>3, <1>4, <1>9, <1>10, Zenon
  <2> QED BY <2>1, <1>1, <1>2, <1>5, ZenonT(40) DEF TypeOK
<1>12. HeightInv'
  <2>1. ASSUME NEW c \in Blocks
        PROVE  /\ block[c].height <= height + 1 + 1
               /\ block[c].height <= height => block[c].height <= height + 1
    <3>1. block[c].height \in Nat /\ block[c].height <= height + 1
      BY <1>2, BlockTypes, Zenon DEF HeightInv
    <3> QED BY <3>1, <1>3, SMT
  <2>2. block[b].height <= height + 1
    BY <1>2, <1>4, Zenon DEF HeightInv
  <2>3. \A r \in Round : \A c \in Recent(r) : block[c].height <= height + 1
    BY <2>1, <1>2, <1>6, Zenon DEF HeightInv
  <2>4. \A key : heightOf(key)' = heightOf(key)
    BY <1>1, Zenon DEF heightOf
  <2>5. \A key \in creator.references : heightOf(key) <= height + 1
    <3>1. creator.references \in SUBSET Key
      BY <1>3, SMT
    <3> QED BY <3>1, <2>1, <1>2, <1>6, Zenon DEF HeightInv, heightOf
  <2>6. HeightsFollowReferences'
    BY <2>4, <1>1, <1>2, <1>5, Zenon DEF HeightInv, HeightsFollowReferences
  <2> QED BY <2>1, <2>2, <2>3, <2>4, <2>5, <2>6, <1>1, <1>5, Zenon DEF HeightInv
<1>13. KeyInv'
  <2>1. ASSUME NEW i \in 1..(l - 1), NEW j \in 1..(l - 1), i < j
        PROVE  blockBroadcast[i + 1] < blockBroadcast[j + 1]
    <3>1. i + 1 \in 1..l /\ j + 1 \in 1..l /\ i + 1 < j + 1
      BY <2>1, <1>4, SMT
    <3> QED BY <3>1, <1>2, Zenon DEF KeyInv, l
  <2>2. \A i, j \in 1..Len(blockBroadcast') : i < j => blockBroadcast'[i] < blockBroadcast'[j]
    <3>1. Len(blockBroadcast') = l - 1 /\ \A i \in 1..(l - 1) : blockBroadcast'[i] = blockBroadcast[i + 1]
      BY <1>1, <1>4, Zenon
    <3>2. ASSUME NEW i \in 1..(l - 1), NEW j \in 1..(l - 1), i < j
          PROVE  blockBroadcast'[i] < blockBroadcast'[j]
      BY <3>1, <3>2, <2>1, Zenon
    <3> QED BY <3>1, <3>2, Zenon
  <2>3. \A c \in Sent' : b < c /\ block[c].wave = 0 /\ \A r \in Round : \A d \in Recent(r) : d < c
    BY <1>2, <1>8, Zenon DEF KeyInv
  <2>4. \A key \in blocks' : key[2] = 0
    BY <1>2, <1>9, <1>10, Zenon DEF KeyInv
  <2> QED BY <2>2, <2>3, <2>4, <1>1, <1>2, <1>5, Zenon DEF KeyInv, NothingCommitted
<1>14. KeepInv'
  <2>1. \A key : hashOf(key[1])' = hashOf(key[1])
    BY <1>1, Zenon DEF hashOf
  <2> QED BY <2>1, <1>10, Zenon DEF KeepInv, KeepBound
<1> QED BY <1>11, <1>12, <1>13, <1>14, Zenon DEF Inv

\* trackBlock offers the block for references, or drops it with others.
LEMMA TrackStep ==
  ASSUME Inv, trackBlock
  PROVE  Inv'
<1>1. /\ tracking # 0 /\ tracking' = 0
      /\ UNCHANGED <<pool, creator, block, currentRound, blockBroadcast, blocks, height>>
      /\ UNCHANGED <<mu, timer, complaints, proposer, proposal>>
  BY Zenon DEF trackBlock, creation, waves
<1>2. TypeOK /\ HeightInv /\ KeyInv /\ KeepInv
  BY Zenon DEF Inv
<1>3. /\ tracking \in Blocks /\ recentBlocks \in [Round -> Seq(Blocks)] /\ perRound \in Nat
  BY <1>1, <1>2, Types, ConstantTypes, Zenon
<1>4. Blocks' = Blocks /\ Key' = Key /\ Sent' = Sent
  BY <1>1, Zenon DEF Blocks, Key, Sent
<1>5. recentBlocks' \in [Round -> Seq(Blocks)] /\ \A r \in Round : Recent(r)' \subseteq Recent(r) \cup {tracking}
  <2> DEFINE round == block[tracking].round
             kept(r) == r >= (round - keepRounds) % UintSize
             last(r) == lastOf(Append(recentBlocks[r], tracking), perRound)
             f2(r) == CASE ~kept(r) -> <<>>
                        [] kept(r) /\ r = round -> last(r)
                        [] OTHER -> recentBlocks[r]
  <2>1. recentBlocks' = [r \in Round |-> f2(r)]
    BY Zenon DEF trackBlock
  <2>2. ASSUME NEW r \in Round
        PROVE  f2(r) = <<>> \/ f2(r) = last(r) \/ f2(r) = recentBlocks[r]
    BY Zenon
  <2> HIDE DEF f2
  <2>3. ASSUME NEW r \in Round
        PROVE  f2(r) \in Seq(Blocks) /\ {f2(r)[i] : i \in 1..Len(f2(r))} \subseteq Recent(r) \cup {tracking}
    <3>1. recentBlocks[r] \in Seq(Blocks)
      BY <1>3, Zenon
    <3> DEFINE s == Append(recentBlocks[r], tracking)
    <3>2. /\ s \in Seq(Blocks) /\ Len(s) = Len(recentBlocks[r]) + 1 /\ Len(recentBlocks[r]) \in Nat
          /\ \A i \in 1..Len(s) : s[i] \in Recent(r) \cup {tracking}
      <4>1. s \in Seq(Blocks) /\ Len(s) = Len(recentBlocks[r]) + 1 /\ Len(recentBlocks[r]) \in Nat
        BY <3>1, <1>3, SMT
      <4>2. ASSUME NEW i \in 1..Len(s)
            PROVE  s[i] \in Recent(r) \cup {tracking}
        BY <3>1, <4>1, SMT DEF Recent
      <4> QED BY <4>1, <4>2, Zenon
    <3> HIDE DEF s
    <3>3. last(r) \in Seq(Blocks) /\ \A i \in 1..Len(last(r)) : last(r)[i] \in Recent(r) \cup {tracking}
      <4> DEFINE k == Len(s) - minOf(Len(s), perRound) + 1
      <4>1. Len(s) \in Nat /\ k \in Nat /\ k >= 1 /\ k <= Len(s) + 1
        <5>1. perRound \in Nat
          BY ConstantTypes, Zenon
        <5>2. Len(s) \in Nat
          BY <3>2, SMT
        <5>3. minOf(Len(s), perRound) \in Nat /\ minOf(Len(s), perRound) <= Len(s)
          BY <5>1, <5>2, SMT DEF minOf
        <5> HIDE DEF s
        <5> QED BY <5>2, <5>3, SMT
      <4>2. last(r) = SubSeq(s, k, Len(s))
        BY Zenon DEF lastOf, s
      <4> HIDE DEF k
      <4>3. /\ SubSeq(s, k, Len(s)) \in Seq(Blocks)
            /\ \A i \in 1..Len(SubSeq(s, k, Len(s))) :
                 k + i - 1 \in 1..Len(s) /\ SubSeq(s, k, Len(s))[i] = s[k + i - 1]
        <5>1. SubSeq(s, k, Len(s)) \in Seq(Blocks)
          BY <4>1, <3>2, SMT
        <5>2. Len(SubSeq(s, k, Len(s))) = Len(s) - k + 1
          BY <4>1, <3>2, SMT
        <5>3. ASSUME NEW i \in 1..(Len(s) - k + 1)
              PROVE  k + i - 1 \in 1..Len(s) /\ SubSeq(s, k, Len(s))[i] = s[k + i - 1]
          <6>1. k + i - 1 \in 1..Len(s)
            BY <4>1, SMT
          <6>2. SubSeq(s, k, Len(s))[i] = s[k + i - 1]
            BY <4>1, <3>2, SMT
          <6> QED BY <6>1, <6>2, Zenon
        <5> QED BY <5>1, <5>2, <5>3, Zenon
      <4> QED BY <4>2, <4>3, <3>2, Zenon
    <3>4. CASE f2(r) = <<>>
      BY <3>4, SMT
    <3>5. CASE f2(r) = last(r)
      BY <3>3, <3>5, Zenon
    <3>6. CASE f2(r) = recentBlocks[r]
      BY <3>1, <3>6, Zenon DEF Recent
    <3> QED BY <3>4, <3>5, <3>6, <2>2, Zenon
  <2> QED BY <2>1, <2>3, Zenon DEF Recent
<1>6. TypeOK'
  BY <1>1, <1>2, <1>4, <1>5, Zenon DEF TypeOK
<1>7. HeightInv'
  <2>1. \A r \in Round : \A b \in Recent(r)' : block[b].height <= height
    BY <1>1, <1>2, <1>5, Zenon DEF HeightInv
  <2>2. \A key : heightOf(key)' = heightOf(key)
    BY <1>1, Zenon DEF heightOf
  <2>3. HeightsFollowReferences'
    BY <2>2, <1>1, <1>2, <1>4, Zenon DEF HeightInv, HeightsFollowReferences
  <2> QED BY <2>1, <2>2, <2>3, <1>1, <1>2, <1>4, Zenon DEF HeightInv
<1>8. KeyInv'
  <2>1. ASSUME NEW b \in Sent
        PROVE  0 < b /\ \A r \in Round : \A c \in Recent(r)' : c < b
    <3>1. b \in Blocks
      BY <1>2, NamesOfBlocks, Zenon
    <3>2. 0 < b
      BY <3>1, <1>2, BlockTypes, SMT
    <3> QED BY <3>2, <1>2, <1>5, Zenon DEF KeyInv
  <2> QED BY <2>1, <1>1, <1>2, <1>4, Zenon DEF KeyInv, NothingCommitted
<1>9. KeepInv'
  BY <1>1, <1>2, Zenon DEF KeepInv, KeepBound, hashOf
<1> QED BY <1>6, <1>7, <1>8, <1>9, Zenon DEF Inv

\* createProposal changes the wave of a block that is kept for references.
LEMMA ProposalStep ==
  ASSUME Inv, createProposal
  PROVE  Inv'
<1>1. /\ UNCHANGED <<pool, creator, currentRound, blockBroadcast, blocks, height, tracking, recentBlocks>>
      /\ UNCHANGED <<mu, timer, complaints>>
  BY Zenon DEF createProposal, creation, transport
<1>2. TypeOK /\ HeightInv /\ KeyInv /\ KeepInv
  BY Zenon DEF Inv
<1>3. Sent' = Sent /\ \A r \in Round : Recent(r)' = Recent(r)
  BY <1>1, Zenon DEF Sent, Recent
<1>4. CASE proposer' = "none" /\ UNCHANGED <<block, proposal>>
  <2>1. Blocks' = Blocks /\ Key' = Key
    BY <1>4, Zenon DEF Blocks, Key
  <2>2. TypeOK'
    BY <2>1, <1>1, <1>2, <1>4, Zenon DEF TypeOK
  <2>3. HeightInv'
    <3>1. \A key : heightOf(key)' = heightOf(key)
      BY <1>4, Zenon DEF heightOf
    <3>2. HeightsFollowReferences'
      BY <3>1, <2>1, <1>2, <1>4, Zenon DEF HeightInv, HeightsFollowReferences
    <3> QED BY <3>1, <3>2, <2>1, <1>1, <1>2, <1>3, <1>4, Zenon DEF HeightInv
  <2>4. KeyInv'
    BY <1>1, <1>2, <1>3, <1>4, Zenon DEF KeyInv, NothingCommitted
  <2>5. KeepInv'
    BY <1>1, <1>2, <1>4, Zenon DEF KeepInv, KeepBound, hashOf
  <2> QED BY <2>2, <2>3, <2>4, <2>5, Zenon DEF Inv
<1>5. ASSUME NEW r \in uncommittedRounds,
             block' = [block EXCEPT ![recentBlocks[r][1]].wave = currentWave],
             proposal' = [block |-> recentBlocks[r][1], hash |-> hashForWave(recentBlocks[r][1])],
             proposer' = "made"
      PROVE  Inv'
  <2> DEFINE b == recentBlocks[r][1]
             n == Len(block)
  <2>1. r \in Round /\ recentBlocks[r] # <<>>
    <3>1. currentRound \in Round /\ MaxRound \in Nat
      BY <1>2, Types, Zenon
    <3>2. r \in 1..currentRound /\ recentBlocks[r] # <<>>
      BY Zenon DEF uncommittedRounds
    <3> QED BY <3>1, <3>2, SMT DEF Round
  <2>2. recentBlocks[r] \in Seq(Blocks)
    BY <2>1, <1>2, Types, Zenon
  <2>3. b \in Blocks /\ b \in Recent(r)
    <3>1. 1 \in 1..Len(recentBlocks[r])
      BY <2>1, <2>2, SMT
    <3> QED BY <3>1, <2>2, SMT DEF Recent
  <2>4. n \in Nat /\ block \in Seq(BlockRecord(n)) /\ Blocks = 1..n
    BY <1>2, Types, Zenon DEF Blocks
  <2> DEFINE changed == [block[b] EXCEPT !.wave = currentWave]
  <2>5. block' = [block EXCEPT ![b] = changed]
    BY <1>5, Zenon
  <2> HIDE DEF b
  <2>6. /\ changed \in BlockRecord(n) /\ changed.height = block[b].height
        /\ changed.references = block[b].references /\ changed.wave = currentWave
    <3>1. block[b] \in BlockRecord(n)
      BY <2>3, <1>2, BlockTypes, Zenon
    <3> QED BY <3>1, SMT DEF BlockRecord
  <2> HIDE DEF changed
  <2>7. /\ block' \in Seq(BlockRecord(n)) /\ Len(block') = n
        /\ block'[b] = changed /\ \A c \in Blocks : c # b => block'[c] = block[c]
    BY <2>3, <2>4, <2>5, <2>6, SMT
  <2>8. Blocks' = Blocks /\ Key' = Key
    BY <2>7, Zenon DEF Blocks, Key
  <2>9. \A c \in Blocks : block'[c].height = block[c].height /\ block'[c].references = block[c].references
    BY <2>6, <2>7, Zenon
  <2>10. TypeOK'
    <3>1. block' \in Seq([round : Round, height : Nat, references : SUBSET Key', wave : {0, currentWave}])
      BY <2>7, <2>8, Zenon DEF BlockRecord, Key, Blocks
    <3>2. proposal' \in [block : Blocks \cup {0}, hash : (Blocks \cup {0}) \X {0, currentWave}]
      <4>1. proposal' = [block |-> b, hash |-> <<b, currentWave>>]
        BY <1>5, Zenon DEF b, hashForWave
      <4> QED BY <4>1, <2>3, SMT
    <3> QED BY <3>1, <3>2, <2>8, <1>1, <1>2, <1>5, Zenon DEF TypeOK
  <2>11. \A key \in Key : heightOf(key)' = heightOf(key)
    BY <2>9, <1>2, NamesOfBlocks, Zenon DEF heightOf
  <2>12. HeightInv'
    <3>1. tracking # 0 => tracking \in Blocks
      BY <1>2, Types, Zenon
    <3>2. creator.references \subseteq Key
      <4>1. creator \in [pc : {"idle", "round", "references"}, round : Round, references : SUBSET Key]
        BY <1>2, Types, Zenon
      <4> QED BY <4>1, SMT
    <3>3. ASSUME NEW c \in Blocks, NEW key \in block'[c].references
          PROVE  heightOf(key)' < block'[c].height
      <4>1. key \in block[c].references /\ key \in Key
        BY <2>9, <1>2, BlockTypes, Zenon
      <4>2. heightOf(key) < block[c].height
        BY <4>1, <1>2, Zenon DEF HeightInv, HeightsFollowReferences
      <4> QED BY <4>1, <4>2, <2>9, <2>11, Zenon
    <3>4. HeightsFollowReferences'
      BY <3>3, <2>8, Zenon DEF HeightsFollowReferences
    <3>5. \A q \in Round : \A c \in Recent(q) : block'[c].height <= height
      BY <2>9, <1>2, NamesOfBlocks, Zenon DEF HeightInv
    <3>6. \A c \in Blocks : block'[c].height <= height + 1
      BY <2>9, <1>2, Zenon DEF HeightInv
    <3>7. \A key \in creator.references : heightOf(key)' <= height
      BY <3>2, <2>11, <1>2, Zenon DEF HeightInv
    <3>8. tracking # 0 => block'[tracking].height <= height
      BY <3>1, <2>9, <1>2, Zenon DEF HeightInv
    <3> QED BY <3>4, <3>5, <3>6, <3>7, <3>8, <2>8, <1>1, <1>3, Zenon DEF HeightInv
  <2>13. KeyInv'
    <3>1. ASSUME NEW c \in Sent
          PROVE  block'[c].wave = 0
      <4>1. c \in Blocks /\ block[c].wave = 0 /\ b < c
        BY <2>1, <2>3, <1>2, NamesOfBlocks, Zenon DEF KeyInv
      <4>2. c # b
        <5>1. c \in Nat
          BY <4>1, <1>2, BlockTypes, Zenon
        <5> QED BY <4>1, <5>1, SMT
      <4> QED BY <4>1, <4>2, <2>7, Zenon
    <3>2. proposal'.hash[2] = currentWave
      <4>1. proposal' = [block |-> b, hash |-> <<b, currentWave>>]
        BY <1>5, Zenon DEF b, hashForWave
      <4> QED BY <4>1, SMT
    <3>3. NothingCommitted'
      BY <1>5, Zenon DEF NothingCommitted
    <3> QED BY <3>1, <3>2, <3>3, <1>1, <1>2, <1>3, Zenon DEF KeyInv
  <2>14. KeepInv'
    <3> DEFINE now == {key \in blocks : hashOf(key[1]) = key}
               then == {key \in blocks : hashOf(key[1])' = key}
    <3>1. ASSUME NEW key \in blocks, hashOf(key[1])' = key
          PROVE  hashOf(key[1]) = key
      <4>1. key[1] \in Blocks /\ key[2] = 0 /\ currentWave # 0
        <5>1. currentWave # 0
          BY SMT DEF currentWave
        <5> QED BY <5>1, <1>2, Types, NamesOfBlocks, Zenon DEF KeyInv
      <4>2. key = <<key[1], block'[key[1]].wave>>
        BY <3>1, Zenon DEF hashOf
      <4>3. block'[key[1]].wave = 0
        BY <4>1, <4>2, SMT
      <4>4. key[1] # b
        BY <4>1, <4>3, <2>6, <2>7, Zenon
      <4>5. block'[key[1]] = block[key[1]]
        BY <4>1, <4>4, <2>7, Zenon
      <4> QED BY <4>2, <4>5, Zenon DEF hashOf
    <3>2. then \in SUBSET now /\ now \in SUBSET blocks
      BY <3>1, Zenon
    <3>3. IsFiniteSet(now) /\ Cardinality(now) <= keepCount /\ keepCount \in Nat
      BY <3>2, <1>2, FS_Subset, ConstantTypes, Zenon DEF KeepInv, KeepBound
    <3>4. Cardinality(then) <= Cardinality(now) /\ IsFiniteSet(then)
      BY <3>2, <3>3, FS_Subset, Zenon
    <3>5. Cardinality(then) \in Nat /\ Cardinality(now) \in Nat
      BY <3>3, <3>4, FS_CardinalityType, Zenon
    <3> HIDE DEF now
    <3>6. Cardinality(then) <= keepCount
      <4> HIDE DEF then
      <4> QED BY <3>3, <3>4, <3>5, SMT
    <3> QED BY <3>6, <1>1, <1>2, Zenon DEF KeepInv, KeepBound
  <2> QED BY <2>10, <2>12, <2>13, <2>14, Zenon DEF Inv
<1>6. \/ proposer' = "none" /\ UNCHANGED <<block, proposal>>
      \/ \E r \in uncommittedRounds :
           /\ block' = [block EXCEPT ![recentBlocks[r][1]].wave = currentWave]
           /\ proposal' = [block |-> recentBlocks[r][1], hash |-> hashForWave(recentBlocks[r][1])]
           /\ proposer' = "made"
  BY Zenon DEF createProposal
<1> QED BY <1>4, <1>5, <1>6, Zenon

-----------------------------------------------------------------------------
(* The theorems *)

\* The invariant holds at the start.
LEMMA InitInv == Init => Inv
<1> SUFFICES ASSUME Init
             PROVE  Inv
  OBVIOUS
<1>1. /\ pool = 0 /\ creator = [pc |-> "idle", round |-> 0, references |-> {}]
      /\ block = <<>> /\ currentRound = 0 /\ blockBroadcast = <<>> /\ blocks = {} /\ height = 0
      /\ tracking = 0 /\ recentBlocks = [r \in Round |-> <<>>]
      /\ mu = "free" /\ timer = "unset" /\ complaints = 0 /\ proposer = "none"
      /\ proposal = [block |-> 0, hash |-> <<0, 0>>]
  BY Zenon DEF Init
<1>2. 0 \in Round
  BY ConstantTypes, SMT DEF Round
<1>3. Blocks = {}
  BY <1>1, SMT DEF Blocks
<1>4. creator \in [pc : {"idle", "round", "references"}, round : Round, references : SUBSET Key]
      /\ creator.references = {}
  BY <1>1, <1>2, SMT
<1>5. /\ block \in Seq([round : Round, height : Nat, references : SUBSET Key, wave : {0, currentWave}])
      /\ blockBroadcast \in Seq(Blocks) /\ recentBlocks \in [Round -> Seq(Blocks)]
  BY <1>1, SMT
<1>6. proposal \in [block : Blocks \cup {0}, hash : (Blocks \cup {0}) \X {0, currentWave}]
  BY <1>1, SMT
<1>7. TypeOK
  <2>1. 0 \in Nat
    BY SMT
  <2> QED BY <2>1, <1>1, <1>2, <1>4, <1>5, <1>6, Zenon DEF TypeOK
<1>8. Sent = {} /\ \A r \in Round : Recent(r) = {}
  BY <1>1, SMT DEF Sent, Recent
<1>9. HeightInv
  BY <1>1, <1>3, <1>4, <1>8, Zenon DEF HeightInv, HeightsFollowReferences
<1>10. KeyInv
  <2>1. 1..Len(blockBroadcast) = {}
    BY <1>1, SMT
  <2> QED BY <2>1, <1>1, <1>8, Zenon DEF KeyInv, NothingCommitted
<1>11. KeepInv
  <2>1. {key \in blocks : hashOf(key[1]) = key} = {}
    BY <1>1, Zenon
  <2>2. 0 <= keepCount
    BY ConstantTypes, SMT
  <2> QED BY <2>1, <2>2, <1>1, FS_EmptySet, Zenon DEF KeepInv, KeepBound
<1> QED BY <1>7, <1>9, <1>10, <1>11, Zenon DEF Inv

\* Every step keeps the invariant.
LEMMA NextInv == Inv /\ [Next]_vars => Inv'
<1> SUFFICES ASSUME Inv, [Next]_vars
             PROVE  Inv'
  OBVIOUS
<1>1. CASE UNCHANGED vars
  <2>1. UNCHANGED <<pool, creator, block, currentRound, blockBroadcast, blocks, height, tracking, recentBlocks>>
        /\ UNCHANGED <<mu, timer, complaints, proposer, proposal>>
    BY <1>1, Zenon DEF vars, creation, transport, waves
  <2>2. TypeOK' /\ Blocks' = Blocks /\ Key' = Key
    BY <2>1, ZenonT(40) DEF Inv, TypeOK, Blocks, Key
  <2>3. HeightInv'
    BY <2>1, <2>2, Zenon DEF Inv, HeightInv, HeightsFollowReferences, heightOf, Recent
  <2>4. KeyInv'
    <3>1. Sent' = Sent /\ \A r \in Round : Recent(r)' = Recent(r)
      BY <2>1, Zenon DEF Sent, Recent
    <3> QED BY <3>1, <2>1, Zenon DEF Inv, KeyInv, NothingCommitted
  <2>5. KeepInv'
    BY <2>1, Zenon DEF Inv, KeepInv, KeepBound, hashOf
  <2> QED BY <2>2, <2>3, <2>4, <2>5, Zenon DEF Inv
<1> QED BY <1>1, QuietStep, ReadStep, BroadcastStep, ProcessStep, TrackStep, ProposalStep, Zenon DEF Next

\* The invariant holds in every reachable state.
LEMMA InvAlways == Spec => []Inv
<1> QED BY InitInv, NextInv, PTL DEF Spec

\* Rounds, heights and names keep their types: currentRound stays below the
\* bound and every block names blocks that exist.
THEOREM TypeCorrect == Spec => []TypeOK
<1>1. Inv => TypeOK
  BY Zenon DEF Inv
<1> QED BY <1>1, InvAlways, PTL

\* A block is higher than the blocks it refers to, however the creation of
\* blocks, the transport and the proposal interleave.
THEOREM HeightsAlwaysFollowReferences == Spec => []HeightsFollowReferences
<1>1. Inv => HeightsFollowReferences
  BY Zenon DEF Inv, HeightInv
<1> QED BY <1>1, InvAlways, PTL

\* The DAG holds at most keepCount blocks that cleanupOldBlocks can delete.
THEOREM KeepBoundAlways == Spec => []KeepBound
<1>1. Inv => KeepBound
  BY Zenon DEF Inv, KeepInv
<1> QED BY <1>1, InvAlways, PTL

\* No proposal is ever voted for, whatever the validators and the timing.
THEOREM NothingEverCommitted == Spec => []NothingCommitted
<1>1. Inv => NothingCommitted
  BY Zenon DEF Inv, KeyInv
<1> QED BY <1>1, InvAlways, PTL
=============================================================================
