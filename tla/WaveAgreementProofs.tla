------------------------ MODULE WaveAgreementProofs ------------------------
(***************************************************************************)
(* Theorems about WaveConsensus, continued: the majority behind a         *)
(* completed wave, agreement on its block, the cleanup, the confirmation   *)
(* of blocks, and what the status queries say of them.                     *)
(***************************************************************************)
EXTENDS WaveConsensusProofs, FiniteSetTheorems, WellFoundedInduction

-----------------------------------------------------------------------------
(* A completed wave has a quorum *)

\* Among blocks there is one of the highest round, so that a leader that reads
\* an unprocessed block has a candidate.
LEMMA HighestRound ==
  ASSUME NEW S \in SUBSET Block, S # {}
  PROVE  \E b \in S : \A c \in S : Round[c] <= Round[b]
<1> DEFINE above(b) == {c \in S : Round[c] > Round[b]}
           sizes == {Cardinality(above(b)) : b \in S}
<1>1. IsFiniteSet(S)
  BY ConstantTypes, FS_Subset, Zenon
<1>2. \A b \in S : IsFiniteSet(above(b)) /\ Cardinality(above(b)) \in Nat
  <2> TAKE b \in S
  <2>1. above(b) \in SUBSET S
    OBVIOUS
  <2> HIDE DEF above
  <2>2. QED
    BY <1>1, <2>1, FS_Subset, FS_CardinalityType, Zenon
<1>3. \A b \in S : Round[b] \in Nat
  BY ConstantTypes, Zenon DEF AnyBlock
<1>4. PICK k \in sizes : \A j \in sizes : ~(<<j, k>> \in OpToRel(<, Nat))
  <2>1. sizes \subseteq Nat /\ sizes # {}
    BY <1>2, Zenon
  <2> HIDE DEF sizes
  <2>2. QED
    BY <2>1, NatLessThanWellFounded, WFMin, Zenon
<1>5. PICK b \in S : k = Cardinality(above(b))
  OBVIOUS
<1>6. ASSUME NEW c \in S, ~(Round[c] <= Round[b]) PROVE FALSE
  <2>1. Round[c] > Round[b]
    BY <1>3, <1>6
  <2>2. above(c) \in SUBSET above(b) /\ c \in above(b) /\ c \notin above(c)
    BY <1>3, <2>1
  <2> HIDE DEF above
  <2>3. Cardinality(above(c)) < Cardinality(above(b))
    BY <1>2, <2>2, FS_Subset
  <2>4. Cardinality(above(c)) \in sizes
    BY Zenon
  <2>5. QED
    BY <1>2, <1>4, <1>5, <2>3, <2>4, Zenon DEF OpToRel
<1>7. QED
  BY <1>5, <1>6, Zenon

\* Votes are never taken back, so a quorum of votes cast stays one.
LEMMA QuorumStays ==
  ASSUME NEW n \in Node, NEW w, NEW h, cast \subseteq cast', quorumCast(n, w, h)
  PROVE  quorumCast(n, w, h)'
<1>1. castersOf(w, h) \in SUBSET (castersOf(w, h)') /\ castersOf(w, h)' \in SUBSET Node
  BY Zenon DEF castersOf
<1>2. IsFiniteSet(castersOf(w, h)')
  BY <1>1, ConstantTypes, FS_Subset, Zenon
<1>3. /\ Cardinality(castersOf(w, h)) <= Cardinality(castersOf(w, h)')
      /\ Cardinality(castersOf(w, h)) \in Nat /\ Cardinality(castersOf(w, h)') \in Nat
  BY <1>1, <1>2, FS_Subset, FS_CardinalityType, Zenon
<1>4. requiredVotes(n) \in Int /\ requiredVotes(n)' = requiredVotes(n)
  BY ConstantTypes DEF requiredVotes
<1>5. QED
  BY <1>3, <1>4 DEF quorumCast

\* The votes checkWaveFinalization counts were all cast.
LEMMA CountedIsCast ==
  ASSUME NEW n \in Node, NEW w, NEW h, waveVotes[n] \subseteq cast, hasQuorum(n, w, h)
  PROVE  quorumCast(n, w, h)
<1>1. votersFor(n, w, h) \in SUBSET castersOf(w, h) /\ castersOf(w, h) \in SUBSET Node
  BY Zenon DEF votersFor, castersOf
<1>2. IsFiniteSet(castersOf(w, h))
  BY <1>1, ConstantTypes, FS_Subset, Zenon
<1>3. /\ Cardinality(votersFor(n, w, h)) <= Cardinality(castersOf(w, h))
      /\ Cardinality(votersFor(n, w, h)) \in Nat /\ Cardinality(castersOf(w, h)) \in Nat
  BY <1>1, <1>2, FS_Subset, FS_CardinalityType, Zenon
<1>4. requiredVotes(n) \in Int
  BY ConstantTypes DEF requiredVotes
<1>5. QED
  BY <1>3, <1>4 DEF hasQuorum, quorumCast

\* With the remote reader no block of the DAG has its Wave set, so no block
\* counts as processed and a wave is never empty.
QuorumInv ==
  /\ CompletedWavesHaveQuorum
  /\ ~InProcess => \A n \in Node, b \in Block : headerWave[n][b] = 0

\* What completes a wave: a majority of votes, or an empty wave in process.
completed(n, w) ==
  \/ \E v \in cast : v.wave = w /\ quorumCast(n, w, v.hash)
  \/ InProcess /\ isWaveLeader(n, w)

\* A wave that was complete stays so.
LEMMA CompletedStays ==
  ASSUME NEW n \in Node, NEW w \in Wave, cast \subseteq cast', completed(n, w)
  PROVE  completed(n, w)'
<1>1. CASE InProcess /\ isWaveLeader(n, w)
  BY <1>1, Zenon DEF completed, isWaveLeader, getWaveLeader
<1>2. CASE \E v \in cast : v.wave = w /\ quorumCast(n, w, v.hash)
  <2>1. PICK v \in cast : v.wave = w /\ quorumCast(n, w, v.hash)
    BY <1>2, Zenon
  <2>2. quorumCast(n, w, v.hash)'
    BY <2>1, QuorumStays, Zenon
  <2>3. QED
    BY <2>1, <2>2, Zenon DEF completed
<1>3. QED
  BY <1>1, <1>2, Zenon DEF completed

\* It is enough to show of each step that a wave it finalizes, or leaves, is
\* complete then.
LEMMA CompletedStep ==
  ASSUME CompletedWavesHaveQuorum, cast \subseteq cast',
         \A n \in Node, w \in Wave :
           w \in finalizedWaves'[n] \/ w < currentWave'[n] =>
             w \in finalizedWaves[n] \/ w < currentWave[n] \/ completed(n, w)
  PROVE  CompletedWavesHaveQuorum'
<1>1. ASSUME NEW n \in Node, NEW w \in Wave, w \in finalizedWaves'[n] \/ w < currentWave'[n]
      PROVE  completed(n, w)'
  <2>1. completed(n, w)
    BY <1>1, Zenon DEF CompletedWavesHaveQuorum, completed
  <2>2. QED
    BY <2>1, CompletedStays, Zenon
<1>2. QED
  BY <1>1, Zenon DEF CompletedWavesHaveQuorum, completed

\* With the remote reader a leader with blocks in its DAG has a candidate.
LEMMA NeverEmpty ==
  ASSUME TypeOK, QuorumInv, ~InProcess, NEW n \in Node, dag[n] # {}
  PROVE  candidateBlocks(n) # {}
<1>1. ASSUME NEW b \in dag[n], alreadyProcessed(n, b) PROVE FALSE
  <2>1. PICK w \in ledWaves(n) : ComputeHash(waveBlocks[n][w], storedWave(n, w)) = dagHash(n, b)
    BY <1>1, Zenon DEF alreadyProcessed
  <2>2. b \in Block
    BY <1>1, Zenon DEF TypeOK
  <2>3. storedWave(n, w) = w /\ headerWave[n][b] = 0
    BY <2>2, Zenon DEF storedWave, QuorumInv
  <2>4. w = 0
    BY <2>1, <2>3, Zenon DEF ComputeHash, dagHash
  <2>5. QED
    BY <2>1, <2>4, ConstantTypes DEF ledWaves, Wave
<1>2. {b \in dag[n] : ~alreadyProcessed(n, b)} = dag[n]
  BY <1>1, Zenon
<1>3. PICK b \in dag[n] : \A c \in dag[n] : Round[c] <= Round[b]
  BY HighestRound, Zenon DEF TypeOK
<1>4. QED
  BY <1>2, <1>3, Zenon DEF candidateBlocks

\* Every step keeps QuorumInv.
LEMMA StepQuorum == TypeOK /\ FollowInv /\ QuorumInv /\ [Next]_vars => QuorumInv'
<1> SUFFICES ASSUME TypeOK, FollowInv, QuorumInv, [Next]_vars PROVE QuorumInv'
  BY Zenon
<1>1. ASSUME UNCHANGED <<finalizedWaves, currentWave, headerWave>>, cast \subseteq cast'
      PROVE  QuorumInv'
  BY <1>1, CompletedStep, Zenon DEF QuorumInv
<1>2. CASE UNCHANGED vars
  BY <1>1, <1>2, Zenon DEF vars, local, dagState
<1>3. ASSUME NEW n \in Node, advanceWave(n) PROVE QuorumInv'
  <2>1. /\ UNCHANGED <<finalizedWaves, headerWave, cast>>
        /\ currentWave' = [currentWave EXCEPT ![n] = currentWave[n] + 1]
        /\ currentWave[n] = 0 \/ currentWave[n] \in finalizedWaves[n]
    BY <1>3, Zenon DEF advanceWave, dagState
  <2>2. ASSUME NEW m \in Node, NEW w \in Wave, w \in finalizedWaves'[m] \/ w < currentWave'[m]
        PROVE  w \in finalizedWaves[m] \/ w < currentWave[m]
    BY <2>1, <2>2, ConstantTypes, SMTT(30) DEF TypeOK, Wave
  <2>3. QED
    BY <2>1, <2>2, CompletedStep, Zenon DEF QuorumInv
<1>4. ASSUME NEW n \in Node, NEW w \in Wave, processWave(n, w) PROVE QuorumInv'
  <2>1. currentWave' = currentWave /\ isWaveLeader(n, w)
    BY <1>4, Zenon DEF processWave, FollowInv
  <2>2. CASE processNoBlocks(n, w)
    BY <1>1, <2>1, <2>2, Zenon DEF processNoBlocks
  <2>3. CASE processEmptyWave(n, w)
    <3>1. InProcess
      BY <2>3, NeverEmpty, Zenon DEF processEmptyWave
    <3>2. finalizedWaves' = [finalizedWaves EXCEPT ![n] = @ \cup {w}] /\ UNCHANGED cast
      BY <2>3, Zenon DEF processEmptyWave
    <3>3. ASSUME NEW m \in Node, NEW x \in Wave, x \in finalizedWaves'[m] \/ x < currentWave'[m]
          PROVE  x \in finalizedWaves[m] \/ x < currentWave[m] \/ completed(m, x)
      BY <2>1, <3>1, <3>2, <3>3, Zenon DEF TypeOK, completed
    <3>4. QED
      BY <3>1, <3>2, <3>3, CompletedStep, Zenon DEF QuorumInv
  <2>4. ASSUME NEW b, propose(n, w, b) PROVE QuorumInv'
    <3>1. /\ finalizedWaves' = finalizedWaves
          /\ ~InProcess => headerWave' = headerWave
      BY <2>4, Zenon DEF propose
    <3>2. cast \subseteq cast'
      BY <2>4, Zenon DEF propose, voteOnBlock
    <3>3. CompletedWavesHaveQuorum'
      BY <2>1, <3>1, <3>2, CompletedStep, Zenon DEF QuorumInv
    <3>4. QED
      BY <3>1, <3>3, Zenon DEF QuorumInv
  <2>5. QED
    BY <1>4, <2>2, <2>3, <2>4, Zenon DEF processWave, processSelected, processFallback
<1>5. ASSUME NEW n \in Node, NEW w \in Wave, checkWaveFinalization(n, w) PROVE QuorumInv'
  <2>1. /\ UNCHANGED <<currentWave, headerWave, cast>>
        /\ \/ finalizedWaves' = finalizedWaves
           \/ /\ finalizedWaves' = [finalizedWaves EXCEPT ![n] = @ \cup {w}]
              /\ canFinalize(n, w)
    BY <1>5, Zenon DEF checkWaveFinalization, dagState
  <2>2. ASSUME canFinalize(n, w) PROVE completed(n, w)
    <3>1. PICK v \in waveVotes[n] : v.wave = w /\ hasQuorum(n, w, v.hash)
      BY <2>2, Zenon DEF canFinalize
    <3>2. waveVotes[n] \subseteq cast
      BY Zenon DEF FollowInv
    <3>3. v \in cast /\ quorumCast(n, w, v.hash)
      BY <3>1, <3>2, CountedIsCast, Zenon
    <3>4. QED
      BY <3>1, <3>3, Zenon DEF completed
  <2>3. ASSUME NEW m \in Node, NEW x \in Wave, x \in finalizedWaves'[m] \/ x < currentWave'[m]
        PROVE  x \in finalizedWaves[m] \/ x < currentWave[m] \/ completed(m, x)
    <3>1. CASE finalizedWaves' = finalizedWaves
      BY <2>1, <2>3, <3>1, Zenon
    <3>2. CASE finalizedWaves' = [finalizedWaves EXCEPT ![n] = @ \cup {w}] /\ canFinalize(n, w)
      BY <2>1, <2>2, <2>3, <3>2, Zenon DEF TypeOK
    <3>3. QED
      BY <2>1, <3>1, <3>2, Zenon
  <2>4. QED
    BY <2>1, <2>3, CompletedStep, Zenon DEF QuorumInv
<1>6. ASSUME NEW n \in Node, NEW s \in Node,
             handleReceivedVote(n, s) \/ handleReceivedWaveBlocks(n, s)
      PROVE  QuorumInv'
  <2>1. cast \subseteq cast'
    BY <1>6, Zenon DEF handleReceivedVote, handleReceivedWaveBlocks, voteOnBlock
  <2>2. UNCHANGED <<finalizedWaves, currentWave, headerWave>>
    BY <1>6, Zenon DEF handleReceivedVote, handleReceivedWaveBlocks, dagState
  <2>3. QED
    BY <1>1, <2>1, <2>2, Zenon
<1>7. ASSUME NEW n \in Node, cleanupOldWaves(n) PROVE QuorumInv'
  <2>1. \A m \in Node : finalizedWaves'[m] \subseteq finalizedWaves[m]
    BY <1>7, Zenon DEF cleanupOldWaves, TypeOK
  <2>2. UNCHANGED <<currentWave, headerWave, cast>>
    BY <1>7, Zenon DEF cleanupOldWaves, dagState
  <2>3. QED
    BY <2>1, <2>2, CompletedStep, Zenon DEF QuorumInv
<1>8. ASSUME NEW n \in Node, restart(n) PROVE QuorumInv'
  <2>1. /\ finalizedWaves' = [finalizedWaves EXCEPT ![n] = {}]
        /\ currentWave' = [currentWave EXCEPT ![n] = 0]
        /\ headerWave' = [headerWave EXCEPT ![n] = [b \in Block |-> 0]]
        /\ cast' = cast
    BY <1>8, Zenon DEF restart
  <2>2. ASSUME NEW m \in Node, NEW w \in Wave, w \in finalizedWaves'[m] \/ w < currentWave'[m]
        PROVE  w \in finalizedWaves[m] \/ w < currentWave[m]
    BY <2>1, <2>2, ConstantTypes DEF TypeOK, Wave
  <2>3. CompletedWavesHaveQuorum'
    BY <2>1, <2>2, CompletedStep, Zenon DEF QuorumInv
  <2>4. ~InProcess => \A m \in Node, b \in Block : headerWave'[m][b] = 0
    BY <2>1, Zenon DEF QuorumInv, TypeOK
  <2>5. QED
    BY <2>3, <2>4, Zenon DEF QuorumInv
<1>9. ASSUME NEW n \in Node, NEW w \in Wave, NEW b \in AnyBlock, broadcastWaveBlocks(n, w, b)
      PROVE  QuorumInv'
  BY <1>1, <1>9, Zenon DEF broadcastWaveBlocks, local, dagState
<1>10. ASSUME NEW n \in Node, NEW d \in Node, connectToPeer(n, d) \/ breakConnection(n, d)
       PROVE  QuorumInv'
  BY <1>1, <1>10, Zenon DEF connectToPeer, breakConnection, local, dagState
<1>11. ASSUME NEW n \in Node, NEW b \in Block, dagAddBlock(n, b) PROVE QuorumInv'
  BY <1>1, <1>11, Zenon DEF dagAddBlock, local
<1>12. QED
  BY <1>2, <1>3, <1>4, <1>5, <1>6, <1>7, <1>8, <1>9, <1>10, <1>11, Zenon DEF Next

\* advanceWave and checkWaveFinalization: a wave that any validator finalized
\* or left behind has the votes of as many validators as it requires, for one
\* block, whatever was lost, broken, restarted or cleaned up since; in process
\* its leader may also have found it empty.
THEOREM CompletedWavesAlwaysHaveQuorum == Spec => []CompletedWavesHaveQuorum
<1>1. Init => QuorumInv
  BY ConstantTypes DEF Init, QuorumInv, CompletedWavesHaveQuorum, Wave
<1>2. QuorumInv => CompletedWavesHaveQuorum
  BY Zenon DEF QuorumInv
<1>3. QED
  BY <1>1, <1>2, InitType, StepType, InitFollows, StepFollows, StepQuorum, PTL DEF Spec

-----------------------------------------------------------------------------
(* Agreement, when all validators have the same list and none restarts.  A  *)
(* leader processes each of its waves once, because waves only advance; so  *)
(* it votes once per wave, and all others vote as it did.                   *)

CommonValidators ==
  \A m, n \in Node : validators[m] = validators[n] /\ validators[n] # <<>>

AgreeInv ==
  /\ \A n \in Node : \A w \in processing[n] : w <= currentWave[n]
  /\ \A v \in cast : isWaveLeader(v.voter, v.wave) =>
       v.wave <= currentWave[v.voter] /\ v.wave \notin processing[v.voter]
  /\ OneBlockPerWave

\* All validators with one list see one leader.
LEMMA OneLeader ==
  ASSUME CommonValidators, NEW m \in Node, NEW n \in Node, NEW w
  PROVE  getWaveLeader(m, w) = getWaveLeader(n, w)
  BY Zenon DEF CommonValidators, getWaveLeader

\* A step that casts no vote, starts no goroutine and moves no wave.
LEMMA QuietAgrees ==
  ASSUME AgreeInv, UNCHANGED <<cast, currentWave>>,
         \A n \in Node : processing'[n] \subseteq processing[n], cast \subseteq Vote
  PROVE  AgreeInv'
<1>1. \A v \in cast : v.voter \in Node
  BY Zenon DEF Vote
<1>2. QED
  BY <1>1, Zenon DEF AgreeInv, OneBlockPerWave, isWaveLeader, getWaveLeader

\* processWave: the leader's vote is the first vote of the wave.
LEMMA ProposeAgrees ==
  ASSUME CommonValidators, TypeOK, FollowInv, AgreeInv, NEW n \in Node, NEW w \in Wave,
         processWave(n, w), NEW b, propose(n, w, b)
  PROVE  AgreeInv'
<1> DEFINE vote == [wave |-> w, hash |-> voteHash(b, w), voter |-> n]
<1>1. cast' = cast \cup {vote} /\ currentWave' = currentWave
  BY Zenon DEF propose, voteOnBlock, processWave
<1>2. processing' = [processing EXCEPT ![n] = @ \ {w}] /\ w \in processing[n]
  BY Zenon DEF processWave, endProcessing
<1>3. w <= currentWave[n] /\ isWaveLeader(n, w)
  BY <1>2, Zenon DEF AgreeInv, FollowInv
<1>4. ASSUME NEW v \in cast, v.wave = w PROVE FALSE
  <2>1. PICK u \in cast : u.wave = w /\ isValidWaveLeader(v.voter, u.voter, w)
    BY <1>4, Zenon DEF FollowInv, VotesFollowLeader
  <2>2. u.voter \in Node /\ v.voter \in Node
    BY Zenon DEF TypeOK, Vote
  <2>3. u.voter = n /\ isWaveLeader(u.voter, u.wave)
    BY <1>3, <2>1, <2>2, OneLeader DEF isValidWaveLeader, isWaveLeader
  <2>4. QED
    BY <1>2, <2>1, <2>3, Zenon DEF AgreeInv
<1>5. \A m \in Node : processing'[m] \subseteq processing[m]
  BY <1>2, Zenon DEF TypeOK
<1>6. \A m \in Node : \A x \in processing'[m] : x <= currentWave'[m]
  BY <1>1, <1>5, Zenon DEF AgreeInv
<1>7. ASSUME NEW v \in cast', isWaveLeader(v.voter, v.wave)
      PROVE  v.wave <= currentWave'[v.voter] /\ v.wave \notin processing'[v.voter]
  <2>1. CASE v \in cast
    <3>1. v.voter \in Node
      BY <2>1, Zenon DEF TypeOK, Vote
    <3>2. QED
      BY <1>1, <1>5, <1>7, <2>1, <3>1, Zenon DEF AgreeInv
  <2>2. CASE v = vote
    BY <1>1, <1>2, <1>3, <2>2, Zenon DEF TypeOK
  <2>3. QED
    BY <1>1, <2>1, <2>2, Zenon
<1>8. OneBlockPerWave'
  BY <1>1, <1>4 DEF AgreeInv, OneBlockPerWave
<1>9. QED
  BY <1>6, <1>7, <1>8, Zenon DEF AgreeInv, isWaveLeader, getWaveLeader

\* handleReceivedWaveBlocks: the vote is for the block the leader voted for.
LEMMA BlocksAgree ==
  ASSUME CommonValidators, TypeOK, FollowInv, AgreeInv, NEW n \in Node, NEW s \in Node,
         handleReceivedWaveBlocks(n, s)
  PROVE  AgreeInv'
<1> DEFINE msg == Head(chan[<<s, n>>])
           vote == [wave |-> msg.wave, hash |-> voteHash(msg.block, msg.wave), voter |-> n]
<1>1. chan \in Channels /\ chan[<<s, n>>] # <<>> /\ msg.type = "wave_blocks"
  BY Zenon DEF TypeOK, Channels, handleReceivedWaveBlocks, incoming
<1>2. msg \in Message /\ genuine(msg)
  BY <1>1, ReceivedType, ReceivedContents DEF FollowInv, genuineIn
<1>3. UNCHANGED <<currentWave, processing>>
  BY Zenon DEF handleReceivedWaveBlocks
<1>4. CASE UNCHANGED cast
  BY <1>3, <1>4, QuietAgrees, Zenon DEF TypeOK
<1>5. CASE isValidWaveLeader(n, msg.validator, msg.wave) /\ cast' = cast \cup {vote}
  <2> DEFINE u == [wave |-> msg.wave, hash |-> voteHash(msg.block, msg.wave),
                   voter |-> msg.validator]
  <2>1. u \in cast /\ msg.validator \in Node
    BY <1>1, <1>2, Zenon DEF genuine, backed, Message
  <2>2. OneBlockPerWave'
    <3>1. \A v \in cast : v.wave = vote.wave => v.hash = vote.hash
      BY <2>1, Zenon DEF AgreeInv, OneBlockPerWave
    <3> HIDE DEF vote
    <3>2. QED
      BY <1>5, <3>1, Zenon DEF AgreeInv, OneBlockPerWave
  <2>3. ASSUME NEW v \in cast', isWaveLeader(v.voter, v.wave)
        PROVE  v.wave <= currentWave[v.voter] /\ v.wave \notin processing[v.voter]
    <3>1. CASE v \in cast
      BY <2>3, <3>1, Zenon DEF AgreeInv
    <3>2. CASE v = vote
      <4>1. msg.validator = n
        BY <1>5, <2>3, <3>2, Zenon DEF isWaveLeader, isValidWaveLeader
      <4>2. v = u
        BY <3>2, <4>1, Zenon
      <4>3. QED
        BY <2>1, <2>3, <4>2, Zenon DEF AgreeInv
    <3>3. QED
      BY <1>5, <3>1, <3>2, Zenon
  <2>4. QED
    BY <1>3, <2>2, <2>3, Zenon DEF AgreeInv, isWaveLeader, getWaveLeader
<1>6. QED
  BY <1>4, <1>5, Zenon DEF handleReceivedWaveBlocks, voteOnBlock

\* Every step keeps AgreeInv.
LEMMA StepAgrees ==
  ASSUME CommonValidators, MaxRestarts = 0
  PROVE  TypeOK /\ FollowInv /\ AgreeInv /\ [Next]_vars => AgreeInv'
<1> SUFFICES ASSUME TypeOK, FollowInv, AgreeInv, [Next]_vars PROVE AgreeInv'
  BY Zenon
<1>1. ASSUME UNCHANGED <<cast, currentWave, processing>> PROVE AgreeInv'
  BY <1>1, QuietAgrees, Zenon DEF TypeOK
<1>2. CASE UNCHANGED vars
  BY <1>1, <1>2, Zenon DEF vars, local, goroutines
<1>3. ASSUME NEW n \in Node, advanceWave(n) PROVE AgreeInv'
  <2> DEFINE wave == currentWave[n] + 1
  <2>1. /\ cast' = cast
        /\ currentWave' = [currentWave EXCEPT ![n] = wave]
        /\ \/ processing' = [processing EXCEPT ![n] = @ \cup {wave}]
           \/ processing' = processing
    <3>1. processing' = [processing EXCEPT ![n] = IF isWaveLeader(n, wave) THEN @ \cup {wave} ELSE @]
      BY <1>3, Zenon DEF advanceWave
    <3>2. QED
      BY <1>3, <3>1, ZenonT(40) DEF advanceWave, TypeOK
  <2>2. \A m \in Node : currentWave[m] \in Int /\ processing[m] \subseteq Wave
    BY ConstantTypes DEF TypeOK
  <2>3. \A m \in Node : \A w \in processing'[m] : w \in processing[m] \/ (m = n /\ w = wave)
    <3>1. CASE processing' = [processing EXCEPT ![n] = @ \cup {wave}]
      BY <3>1, Zenon DEF TypeOK
    <3>2. QED
      BY <2>1, <3>1, Zenon
  <2>4. \A m \in Node : currentWave'[m] = IF m = n THEN wave ELSE currentWave[m]
    BY <2>1, Zenon DEF TypeOK
  <2>5. \A m \in Node : \A w \in processing'[m] : w <= currentWave'[m]
    <3> SUFFICES ASSUME NEW m \in Node, NEW w \in processing'[m] PROVE w <= currentWave'[m]
      BY Zenon
    <3>1. CASE w \in processing[m]
      <4>1. w \in Int /\ w <= currentWave[m]
        BY <2>2, <3>1, ConstantTypes DEF AgreeInv, Wave
      <4>2. QED
        BY <2>2, <2>4, <4>1
    <3>2. CASE m = n /\ w = wave
      BY <2>2, <2>4, <3>2
    <3>3. QED
      BY <2>3, <3>1, <3>2, Zenon
  <2>6. ASSUME NEW v \in cast, isWaveLeader(v.voter, v.wave)
        PROVE  v.wave <= currentWave'[v.voter] /\ v.wave \notin processing'[v.voter]
    <3>1. v.voter \in Node /\ v.wave \in Int
      BY ConstantTypes, SMTT(30) DEF TypeOK, Vote, Wave
    <3>2. v.wave <= currentWave[v.voter] /\ v.wave \notin processing[v.voter]
      BY <2>6, Zenon DEF AgreeInv
    <3>3. QED
      BY <2>2, <2>3, <2>4, <3>1, <3>2, SMTT(30)
  <2>7. QED
    BY <2>1, <2>5, <2>6, Zenon DEF AgreeInv, OneBlockPerWave, isWaveLeader, getWaveLeader
<1>4. ASSUME NEW n \in Node, NEW w \in Wave, processWave(n, w) PROVE AgreeInv'
  <2>1. CASE processNoBlocks(n, w) \/ processEmptyWave(n, w)
    <3>1. \A m \in Node : processing'[m] \subseteq processing[m]
      BY <1>4, Zenon DEF processWave, endProcessing, TypeOK
    <3>2. UNCHANGED <<cast, currentWave>>
      BY <1>4, <2>1, Zenon DEF processWave, processNoBlocks, processEmptyWave
    <3>3. QED
      BY <3>1, <3>2, QuietAgrees, Zenon DEF TypeOK
  <2>2. CASE processSelected(n, w) \/ processFallback(n, w)
    BY <1>4, <2>2, ProposeAgrees, Zenon DEF processSelected, processFallback
  <2>3. QED
    BY <1>4, <2>1, <2>2, Zenon DEF processWave
<1>5. ASSUME NEW n \in Node, restart(n) PROVE AgreeInv'
  BY <1>5 DEF restart, TypeOK
<1>6. ASSUME NEW n \in Node, NEW s \in Node, handleReceivedVote(n, s) PROVE AgreeInv'
  BY <1>1, <1>6, Zenon DEF handleReceivedVote
<1>7. ASSUME NEW n \in Node, cleanupOldWaves(n) PROVE AgreeInv'
  BY <1>1, <1>7, Zenon DEF cleanupOldWaves
<1>8. ASSUME NEW n \in Node, NEW w \in Wave, checkWaveFinalization(n, w) PROVE AgreeInv'
  BY <1>1, <1>8, Zenon DEF checkWaveFinalization
<1>9. ASSUME NEW n \in Node, NEW w \in Wave, NEW b \in AnyBlock, broadcastWaveBlocks(n, w, b)
      PROVE  AgreeInv'
  BY <1>1, <1>9, Zenon DEF broadcastWaveBlocks, local
<1>10. ASSUME NEW n \in Node, NEW d \in Node, connectToPeer(n, d) \/ breakConnection(n, d)
       PROVE  AgreeInv'
  BY <1>1, <1>10, Zenon DEF connectToPeer, breakConnection, local, goroutines
<1>11. ASSUME NEW n \in Node, NEW b \in Block, dagAddBlock(n, b) PROVE AgreeInv'
  BY <1>1, <1>11, Zenon DEF dagAddBlock, local, goroutines
<1>12. QED
  BY <1>2, <1>3, <1>4, <1>5, <1>6, <1>7, <1>8, <1>9, <1>10, <1>11, BlocksAgree, ZenonT(40) DEF Next

\* Validators with one list, none of which restarts, vote for one block per
\* wave: processWave runs once per wave and handleReceivedWaveBlocks repeats
\* the leader's choice.
THEOREM OneBlockPerWaveAlways ==
  ASSUME CommonValidators, MaxRestarts = 0
  PROVE  Spec => []OneBlockPerWave
<1>1. Init => AgreeInv
  BY Zenon DEF Init, AgreeInv, OneBlockPerWave
<1>2. AgreeInv => OneBlockPerWave
  BY Zenon DEF AgreeInv
<1>3. TypeOK /\ FollowInv /\ AgreeInv /\ [Next]_vars => AgreeInv'
  BY StepAgrees, Zenon
<1>4. QED
  BY <1>1, <1>2, <1>3, InitType, StepType, InitFollows, StepFollows, PTL DEF Spec

\* checkWaveFinalization at two such validators never finds majorities for two
\* blocks in one wave, whatever is lost and whenever they check.
THEOREM QuorumsAgree ==
  ASSUME CommonValidators, MaxRestarts = 0
  PROVE  Spec => []QuorumAgreement
<1>1. FollowInv /\ OneBlockPerWave => QuorumAgreement
  BY Zenon DEF FollowInv, OneBlockPerWave, QuorumAgreement
<1>2. Spec => []OneBlockPerWave
  BY OneBlockPerWaveAlways, Zenon
<1>3. QED
  BY <1>1, <1>2, InitType, StepType, InitFollows, StepFollows, PTL DEF Spec

-----------------------------------------------------------------------------
(* Cleanup never stops the waves: the current wave is the newest a validator *)
(* can have led, and the newest are kept.                                    *)

LedInv ==
  /\ \A n \in Node : \A w \in processing[n] : w <= currentWave[n]
  /\ \A n \in Node : \A w \in ledWaves(n) : w <= currentWave[n]

\* Every step keeps LedInv.
LEMMA StepLed == TypeOK /\ LedInv /\ [Next]_vars => LedInv'
<1> SUFFICES ASSUME TypeOK, LedInv, [Next]_vars PROVE LedInv'
  BY Zenon
<1>1. ASSUME \A n \in Node : currentWave'[n] \in Int /\ currentWave[n] <= currentWave'[n],
             \A n \in Node : \A w \in processing'[n] : w \in processing[n] \/ w <= currentWave'[n],
             \A n \in Node : \A w \in Wave :
               waveBlocks'[n][w] # None => w \in ledWaves(n) \/ w <= currentWave'[n]
      PROVE  LedInv'
  <2>1. \A n \in Node : currentWave[n] \in Int /\ processing[n] \subseteq Wave /\ ledWaves(n) \subseteq Wave
    BY ConstantTypes DEF TypeOK, ledWaves
  <2>2. \A w \in Wave : w \in Int
    BY ConstantTypes DEF Wave
  <2>3. ASSUME NEW n \in Node, NEW w \in processing'[n] PROVE w <= currentWave'[n]
    BY <1>1, <2>1, <2>2, <2>3 DEF LedInv
  <2>4. ASSUME NEW n \in Node, NEW w \in Wave, waveBlocks'[n][w] # None PROVE w <= currentWave'[n]
    BY <1>1, <2>1, <2>2, <2>4, SMTT(30) DEF LedInv
  <2>5. QED
    BY <2>3, <2>4, Zenon DEF LedInv, ledWaves
<1>2. \A n \in Node : currentWave[n] \in Int /\ currentWave[n] <= currentWave[n]
  BY ConstantTypes DEF TypeOK
<1>3. ASSUME UNCHANGED <<currentWave, processing, waveBlocks>> PROVE LedInv'
  BY <1>1, <1>2, <1>3, Zenon DEF ledWaves
<1>4. CASE UNCHANGED vars
  BY <1>3, <1>4, Zenon DEF vars, local, goroutines
<1>5. ASSUME NEW n \in Node, advanceWave(n) PROVE LedInv'
  <2> DEFINE wave == currentWave[n] + 1
  <2>1. /\ waveBlocks' = waveBlocks
        /\ currentWave' = [currentWave EXCEPT ![n] = wave]
        /\ processing' = [processing EXCEPT ![n] = IF isWaveLeader(n, wave) THEN @ \cup {wave} ELSE @]
    BY <1>5, Zenon DEF advanceWave
  <2>2. \A m \in Node : currentWave'[m] = IF m = n THEN wave ELSE currentWave[m]
    BY <2>1, Zenon DEF TypeOK
  <2>3. \A m \in Node : \A w \in processing'[m] : w \in processing[m] \/ (m = n /\ w = wave)
    BY <2>1, Zenon DEF TypeOK
  <2>4. \A m \in Node : currentWave'[m] \in Int /\ currentWave[m] <= currentWave'[m]
    BY <1>2, <2>2
  <2>5. \A m \in Node : \A w \in processing'[m] : w \in processing[m] \/ w <= currentWave'[m]
    BY <1>2, <2>2, <2>3
  <2>6. QED
    BY <1>1, <2>1, <2>4, <2>5, Zenon DEF ledWaves
<1>6. ASSUME NEW n \in Node, NEW w \in Wave, processWave(n, w) PROVE LedInv'
  <2>1. w \in processing[n] /\ currentWave' = currentWave
    BY <1>6, Zenon DEF processWave
  <2>2. \A m \in Node : processing'[m] \subseteq processing[m]
    BY <1>6, Zenon DEF processWave, endProcessing, TypeOK
  <2>3. ASSUME NEW b, propose(n, w, b) PROVE LedInv'
    <3>1. waveBlocks' = [waveBlocks EXCEPT ![n][w] = b]
      BY <2>3, Zenon DEF propose
    <3>2. \A m \in Node : \A x \in Wave : (m = n /\ x = w) \/ waveBlocks'[m][x] = waveBlocks[m][x]
      BY <3>1, Zenon DEF TypeOK
    <3>3. w <= currentWave'[n]
      BY <2>1, Zenon DEF LedInv
    <3>4. QED
      BY <1>1, <1>2, <2>1, <2>2, <3>2, <3>3, Zenon DEF ledWaves
  <2>4. CASE UNCHANGED waveBlocks
    BY <1>1, <1>2, <2>1, <2>2, <2>4, Zenon DEF ledWaves
  <2>5. QED
    BY <1>6, <2>3, <2>4, Zenon DEF processWave, processNoBlocks, processEmptyWave, processSelected,
                            processFallback
<1>7. ASSUME NEW n \in Node, cleanupOldWaves(n) PROVE LedInv'
  <2>1. \A m \in Node : \A w \in Wave : waveBlocks'[m][w] # None => waveBlocks[m][w] # None
    BY <1>7, Zenon DEF cleanupOldWaves, TypeOK
  <2>2. UNCHANGED <<currentWave, processing>>
    BY <1>7, Zenon DEF cleanupOldWaves
  <2>3. QED
    BY <1>1, <1>2, <2>1, <2>2, Zenon DEF ledWaves
<1>8. ASSUME NEW n \in Node, restart(n) PROVE LedInv'
  <2>1. /\ currentWave' = [currentWave EXCEPT ![n] = 0]
        /\ processing' = [processing EXCEPT ![n] = {}]
        /\ waveBlocks' = [waveBlocks EXCEPT ![n] = [w \in Wave |-> None]]
    BY <1>8, Zenon DEF restart
  <2>2. \A m \in Node : m = n \/ UNCHANGED <<currentWave[m], processing[m], waveBlocks[m]>>
    BY <2>1, Zenon DEF TypeOK
  <2>3. processing'[n] = {} /\ \A w \in Wave : waveBlocks'[n][w] = None
    BY <2>1, Zenon DEF TypeOK
  <2>4. \A m \in Node : m = n \/ ledWaves(m)' = ledWaves(m)
    BY <2>2, Zenon DEF ledWaves
  <2>5. ledWaves(n)' = {}
    BY <2>3, Zenon DEF ledWaves
  <2>6. \A m \in Node : \A w \in ledWaves(m)' : w <= currentWave[m] /\ m # n
    BY <2>4, <2>5, Zenon DEF LedInv
  <2>7. QED
    BY <2>2, <2>3, <2>6, Zenon DEF LedInv
<1>9. ASSUME NEW n \in Node, NEW s \in Node,
             \/ handleReceivedVote(n, s) \/ handleReceivedWaveBlocks(n, s)
             \/ connectToPeer(n, s) \/ breakConnection(n, s)
      PROVE  LedInv'
  BY <1>3, <1>9, Zenon DEF handleReceivedVote, handleReceivedWaveBlocks, connectToPeer, breakConnection,
                    local, goroutines
<1>10. ASSUME NEW n \in Node, NEW w \in Wave, checkWaveFinalization(n, w) PROVE LedInv'
  BY <1>3, <1>10, Zenon DEF checkWaveFinalization
<1>11. ASSUME NEW n \in Node, NEW w \in Wave, NEW b \in AnyBlock, broadcastWaveBlocks(n, w, b)
       PROVE  LedInv'
  BY <1>3, <1>11, Zenon DEF broadcastWaveBlocks, local
<1>12. ASSUME NEW n \in Node, NEW b \in Block, dagAddBlock(n, b) PROVE LedInv'
  BY <1>3, <1>12, Zenon DEF dagAddBlock, local, goroutines
<1>13. QED
  BY <1>4, <1>5, <1>6, <1>7, <1>8, <1>9, <1>10, <1>11, <1>12, ZenonT(40) DEF Next

\* The current wave is not among those cleanupOldWaves removes.
LEMMA CurrentWaveIsKept ==
  ASSUME TypeOK, LedInv, minWavesKept >= 1, NEW n \in Node
  PROVE  currentWave[n] \notin oldWaves(n)
<1> SUFFICES ASSUME currentWave[n] \in oldWaves(n) PROVE FALSE
  BY Zenon
<1> DEFINE led == ledWaves(n)
           cur == currentWave[n]
           older == {v \in led : v < cur}
           keepCount == larger(maxWaves \div 2, minWavesKept)
<1>1. led \in SUBSET Wave /\ IsFiniteSet(Wave) /\ \A w \in Wave : w \in Int
  <2>1. MaxWave \in Int
    BY ConstantTypes
  <2>2. IsFiniteSet(1..MaxWave)
    BY <2>1, FS_Interval
  <2>3. QED
    BY <2>1, <2>2 DEF ledWaves, Wave
<1>2. IsFiniteSet(led) /\ Cardinality(led) \in Nat
  BY <1>1, FS_Subset, FS_CardinalityType, Zenon
<1>3. cur \in led /\ Cardinality(older) < Cardinality(led) - keepCount
  BY Zenon DEF oldWaves
<1>4. older = led \ {cur}
  <2>1. \A v \in led : v \in Int /\ v <= cur
    BY <1>1, Zenon DEF LedInv
  <2>2. QED
    BY <1>3, <2>1
<1>5. keepCount \in Int /\ keepCount >= 1
  BY ConstantTypes, SMTT(30) DEF larger
<1> HIDE DEF led, cur, older, keepCount
<1>6. Cardinality(older) = Cardinality(led) - 1
  BY <1>2, <1>3, <1>4, FS_RemoveElement, Zenon
<1>7. QED
  BY <1>2, <1>3, <1>5, <1>6

\* No step takes the finalized mark from a validator's current wave, so that
\* cleanupOldWaves can never make advanceWave wait for ever.
THEOREM CurrentWaveStaysFinalizedAlways ==
  ASSUME minWavesKept >= 1
  PROVE  Spec => CurrentWaveStaysFinalized
<1> DEFINE stays == \A n \in Node :
             currentWave[n] \in finalizedWaves[n] /\ currentWave'[n] = currentWave[n]
               => currentWave[n] \in finalizedWaves'[n]
<1>1. Init => LedInv
  BY DEF Init, LedInv, ledWaves
<1>2. TypeOK /\ LedInv /\ [Next]_vars => [stays]_vars
  <2> SUFFICES ASSUME TypeOK, LedInv, Next PROVE stays
    BY Zenon
  <2>1. ASSUME \A n \in Node : finalizedWaves[n] \subseteq finalizedWaves'[n] PROVE stays
    BY <2>1, Zenon
  <2>2. ASSUME NEW n \in Node, NEW w \in Wave, processWave(n, w) PROVE stays
    <3>1. \/ finalizedWaves' = finalizedWaves
          \/ finalizedWaves' = [finalizedWaves EXCEPT ![n] = @ \cup {w}]
      BY <2>2, Zenon DEF processWave, processNoBlocks, processEmptyWave, processSelected,
                         processFallback, propose
    <3>2. CASE finalizedWaves' = [finalizedWaves EXCEPT ![n] = @ \cup {w}]
      BY <2>1, <3>2, Zenon DEF TypeOK
    <3>3. QED
      BY <2>1, <3>1, <3>2, Zenon
  <2>3. ASSUME NEW n \in Node, NEW w \in Wave, checkWaveFinalization(n, w) PROVE stays
    <3>1. \/ finalizedWaves' = finalizedWaves
          \/ finalizedWaves' = [finalizedWaves EXCEPT ![n] = @ \cup {w}]
      BY <2>3, Zenon DEF checkWaveFinalization
    <3>2. CASE finalizedWaves' = [finalizedWaves EXCEPT ![n] = @ \cup {w}]
      BY <2>1, <3>2, Zenon DEF TypeOK
    <3>3. QED
      BY <2>1, <3>1, <3>2
  <2>4. ASSUME NEW n \in Node, cleanupOldWaves(n) PROVE stays
    <3>1. finalizedWaves' = [finalizedWaves EXCEPT ![n] = @ \ oldWaves(n)]
      BY <2>4, Zenon DEF cleanupOldWaves
    <3>2. currentWave[n] \notin oldWaves(n)
      BY CurrentWaveIsKept, Zenon
    <3>3. QED
      BY <3>1, <3>2, Zenon DEF TypeOK
  <2>5. ASSUME NEW n \in Node, restart(n) PROVE stays
    <3>1. /\ finalizedWaves' = [finalizedWaves EXCEPT ![n] = {}]
          /\ currentWave' = [currentWave EXCEPT ![n] = 0]
      BY <2>5, Zenon DEF restart
    <3>2. \A m \in Node : finalizedWaves[m] \subseteq Wave /\ 0 \notin Wave
      BY ConstantTypes DEF TypeOK, Wave
    <3>3. QED
      BY <3>1, <3>2, Zenon DEF TypeOK
  <2>6. ASSUME UNCHANGED finalizedWaves PROVE stays
    BY <2>1, <2>6, Zenon
  <2>7. ASSUME NEW n \in Node, advanceWave(n) PROVE stays
    BY <2>6, <2>7, Zenon DEF advanceWave
  <2>8. ASSUME NEW n \in Node, NEW s \in Node,
               \/ handleReceivedVote(n, s) \/ handleReceivedWaveBlocks(n, s)
               \/ connectToPeer(n, s) \/ breakConnection(n, s)
        PROVE  stays
    BY <2>6, <2>8, Zenon DEF handleReceivedVote, handleReceivedWaveBlocks, connectToPeer,
                      breakConnection, local
  <2>9. ASSUME NEW n \in Node, NEW w \in Wave, NEW b \in AnyBlock, broadcastWaveBlocks(n, w, b)
        PROVE  stays
    BY <2>6, <2>9, Zenon DEF broadcastWaveBlocks, local
  <2>10. ASSUME NEW n \in Node, NEW b \in Block, dagAddBlock(n, b) PROVE stays
    BY <2>6, <2>10, Zenon DEF dagAddBlock, local
  <2> HIDE DEF stays
  <2>11. QED
    BY <2>2, <2>3, <2>4, <2>5, <2>7, <2>8, <2>9, <2>10, ZenonT(40) DEF Next
<1>3. QED
  BY <1>1, <1>2, InitType, StepType, StepLed, PTL DEF Spec, CurrentWaveStaysFinalized

-----------------------------------------------------------------------------
(* What is confirmed.  A vote is for a block as its wave hashes it, and a   *)
(* block references blocks of earlier rounds only; so everything that       *)
(* confirmBlockAndReferences reaches lies under a block with a majority.    *)

\* A majority, by n's list, voted for a block of the round or a later one.
underQuorum(n, round) ==
  \E w \in Wave, b \in AnyBlock : round <= Round[b] /\ quorumCast(n, w, voteHash(b, w))

ConfirmInv ==
  /\ \A v \in cast : \E b \in AnyBlock : v.hash = voteHash(b, v.wave)
  /\ \A b \in DOMAIN refs : \A h \in refs[b] : Round[h[1]] <= Round[b]
  /\ ConfirmedUnderQuorum

\* A round that lies under a majority's block goes on doing so.
LEMMA UnderQuorumStays ==
  ASSUME NEW n \in Node, NEW r, underQuorum(n, r), cast \subseteq cast'
  PROVE  underQuorum(n, r)'
<1>1. PICK w \in Wave, b \in AnyBlock : r <= Round[b] /\ quorumCast(n, w, voteHash(b, w))
  BY Zenon DEF underQuorum
<1>2. voteHash(b, w)' = voteHash(b, w)
  BY Zenon DEF voteHash, ComputeHash
<1>3. quorumCast(n, w, voteHash(b, w))'
  <2>1. PICK h : h = voteHash(b, w)
    BY Zenon
  <2>2. quorumCast(n, w, h)'
    BY <1>1, <2>1, QuorumStays, Zenon
  <2>3. QED
    BY <1>2, <2>1, <2>2, Zenon DEF quorumCast, castersOf
<1>4. QED
  BY <1>1, <1>3, Zenon DEF underQuorum

\* The majority counted for the block of a led wave is one for that block as
\* the wave hashes it, though the block's header may have changed since.
LEMMA CountedUnderQuorum ==
  ASSUME TypeOK, FollowInv, ConfirmInv, NEW n \in Node, NEW w \in ledWaves(n),
         hasQuorum(n, w, storedHash(n, w))
  PROVE  underQuorum(n, Round[waveBlocks[n][w]])
<1>1. PICK h : h = storedHash(n, w)
  BY Zenon
<1>2. quorumCast(n, w, h) /\ w \in Wave
  BY <1>1, CountedIsCast, Zenon DEF FollowInv, ledWaves
<1>3. PICK b \in AnyBlock : h = voteHash(b, w)
  <2>1. castersOf(w, h) # {}
    <3>1. requiredVotes(n) \in Int /\ requiredVotes(n) >= 1
      BY ConstantTypes DEF requiredVotes
    <3>2. Cardinality(castersOf(w, h)) >= requiredVotes(n)
      BY <1>2, Zenon DEF quorumCast
    <3>3. Cardinality({}) = 0
      BY FS_EmptySet, Zenon
    <3>4. QED
      BY <3>1, <3>2, <3>3, SMTT(30)
  <2>2. PICK v \in Node : [wave |-> w, hash |-> h, voter |-> v] \in cast
    BY <2>1, Zenon DEF castersOf
  <2>3. QED
    BY <2>2 DEF ConfirmInv
<1>4. b = waveBlocks[n][w]
  BY <1>1, <1>3 DEF storedHash, voteHash, ComputeHash
<1>5. Round[b] <= Round[b]
  BY ConstantTypes
<1>6. QED
  BY <1>2, <1>3, <1>4, <1>5, Zenon DEF underQuorum

\* References lead to earlier rounds: no block reached from one is newer.
LEMMA VisitedIsOlder ==
  ASSUME TypeOK, ConfirmInv, NEW n \in Node, NEW block \in Block, NEW b \in visited(n, block)
  PROVE  Round[b] <= Round[block]
<1> DEFINE older == {c \in Block : Round[c] <= Round[block]}
           found(B) == {c \in Block : /\ \E w \in Wave : waveBlocks[n][w] = c
                                      /\ dagHash(n, c) \in referencesOf(B) \ confirmedBlocks[n]}
<1>1. \A c \in Block : Round[c] \in Nat
  BY ConstantTypes, Zenon DEF AnyBlock
<1>2. block \in older
  BY <1>1
<1>3. found(older) \subseteq older
  <2> SUFFICES ASSUME NEW c \in found(older) PROVE c \in older
    BY Zenon
  <2>1. c \in Block /\ dagHash(n, c) \in referencesOf(older)
    BY Zenon
  <2>2. PICK d \in older : d \in DOMAIN refs /\ dagHash(n, c) \in refs[d]
    BY <2>1, Zenon DEF referencesOf
  <2>3. Round[dagHash(n, c)[1]] <= Round[d]
    BY <2>2, Zenon DEF ConfirmInv
  <2>4. dagHash(n, c)[1] = c
    BY DEF dagHash, ComputeHash
  <2>5. QED
    BY <1>1, <2>1, <2>2, <2>3, <2>4, SMTT(30)
<1>4. older \in SUBSET Block /\ b \in Block
  BY Zenon DEF visited
<1>5. b \in older
  <2>1. \A B \in SUBSET Block : block \in B /\ found(B) \subseteq B => b \in B
    BY Zenon DEF visited
  <2> HIDE DEF older, found
  <2>2. QED
    BY <1>2, <1>3, <1>4, <2>1, Zenon
<1>6. QED
  BY <1>5, Zenon

\* Everything confirmed with the block of a wave is of its round or earlier.
LEMMA ConfirmedIsOlder ==
  ASSUME TypeOK, ConfirmInv, NEW n \in Node, NEW w \in ledWaves(n), NEW recent \in recentBlocks(n),
         NEW c \in confirmedWith(n, w, recent)
  PROVE  Round[c[1]] <= Round[waveBlocks[n][w]]
<1> DEFINE block == waveBlocks[n][w]
<1>1. block \in AnyBlock /\ Round[block] \in Nat
  BY ConstantTypes DEF TypeOK, ledWaves
<1>2. \A b \in Block : dagHash(n, b)[1] = b
  BY DEF dagHash, ComputeHash
<1>3. \A b \in reachedBlocks(n, w) : b \in Block /\ Round[b] \in Nat /\ Round[b] <= Round[block]
  <2> SUFFICES ASSUME NEW b \in reachedBlocks(n, w)
               PROVE  b \in Block /\ Round[b] \in Nat /\ Round[b] <= Round[block]
    BY Zenon
  <2>1. InProcess /\ b \in visited(n, block)
    BY Zenon DEF reachedBlocks
  <2>2. block \in Block /\ b \in Block
    BY <1>1, <2>1, ConstantTypes, SMTT(30) DEF AnyBlock, visited
  <2>3. Round[b] \in Nat
    BY <2>2, ConstantTypes, Zenon DEF AnyBlock
  <2>4. QED
    BY <2>1, <2>2, <2>3, VisitedIsOlder, Zenon
<1>4. CASE c = storedHash(n, w)
  BY <1>1, <1>4, SMTT(30) DEF storedHash, voteHash, ComputeHash
<1>5. CASE c \in hashesOf(n, reachedBlocks(n, w))
  <2>1. PICK b \in reachedBlocks(n, w) : c = dagHash(n, b)
    BY <1>5, Zenon DEF hashesOf
  <2>2. QED
    BY <1>2, <1>3, <2>1
<1>6. CASE c \in referencesOf(reachedBlocks(n, w))
  <2>1. PICK b \in reachedBlocks(n, w) : b \in DOMAIN refs /\ c \in refs[b]
    BY <1>6, Zenon DEF referencesOf
  <2>2. Round[c[1]] <= Round[b] /\ c \in Hash
    BY <2>1, Zenon DEF ConfirmInv, TypeOK
  <2>3. Round[c[1]] \in Nat
    BY <2>2, ConstantTypes DEF Hash
  <2>4. QED
    BY <1>1, <1>3, <2>1, <2>2, <2>3, SMTT(30)
<1>7. CASE c \in hashesOf(n, ofRoundUpTo(recent, Round[block]))
  <2>1. PICK b \in recent : c = dagHash(n, b) /\ Round[b] <= Round[block]
    BY <1>7, Zenon DEF hashesOf, ofRoundUpTo
  <2>2. b \in Block
    BY DEF recentBlocks, TypeOK
  <2>3. QED
    BY <1>2, <2>1, <2>2
<1>8. QED
  BY <1>4, <1>5, <1>6, <1>7, ZenonT(40) DEF confirmedWith

\* A step that confirms nothing new keeps ConfirmedUnderQuorum.
LEMMA ConfirmedStep ==
  ASSUME ConfirmedUnderQuorum, cast \subseteq cast',
         \A n \in Node : \A c \in confirmedBlocks'[n] :
           c \in confirmedBlocks[n] \/ underQuorum(n, Round[c[1]])
  PROVE  ConfirmedUnderQuorum'
<1>1. ASSUME NEW n \in Node, NEW c \in confirmedBlocks'[n] PROVE underQuorum(n, Round[c[1]])'
  <2>1. underQuorum(n, Round[c[1]])
    BY Zenon DEF ConfirmedUnderQuorum, underQuorum
  <2>2. PICK r : r = Round[c[1]]
    BY Zenon
  <2>3. underQuorum(n, r)'
    BY <2>1, <2>2, UnderQuorumStays, Zenon
  <2>4. QED
    BY <2>2, <2>3, Zenon DEF underQuorum
<1>2. QED
  BY <1>1, Zenon DEF ConfirmedUnderQuorum, underQuorum

\* Every step keeps ConfirmInv.
LEMMA StepConfirm == TypeOK /\ FollowInv /\ ConfirmInv /\ [Next]_vars => ConfirmInv'
<1> SUFFICES ASSUME TypeOK, FollowInv, ConfirmInv, [Next]_vars PROVE ConfirmInv'
  BY Zenon
<1>1. ASSUME UNCHANGED refs, cast \subseteq cast',
             \A v \in cast' : v \in cast \/ \E b \in AnyBlock : v.hash = voteHash(b, v.wave),
             \A n \in Node : \A c \in confirmedBlocks'[n] :
               c \in confirmedBlocks[n] \/ underQuorum(n, Round[c[1]])
      PROVE  ConfirmInv'
  <2>1. ConfirmedUnderQuorum'
    BY <1>1, ConfirmedStep, Zenon DEF ConfirmInv
  <2>2. QED
    BY <1>1, <2>1, Zenon DEF ConfirmInv, voteHash, ComputeHash
<1>2. ASSUME UNCHANGED <<refs, cast, confirmedBlocks>> PROVE ConfirmInv'
  BY <1>1, <1>2, Zenon
<1>3. ASSUME NEW n \in Node, NEW w \in Wave, NEW b \in AnyBlock, NEW channels,
             voteOnBlock(channels, n, w, b), UNCHANGED <<refs, confirmedBlocks>>
      PROVE  ConfirmInv'
  <2>1. PICK vote : /\ vote = [wave |-> w, hash |-> voteHash(b, w), voter |-> n]
                    /\ cast' = cast \cup {vote}
    BY <1>3, Zenon DEF voteOnBlock
  <2>2. vote.hash = voteHash(b, vote.wave)
    BY <2>1
  <2>3. QED
    BY <1>1, <1>3, <2>1, <2>2, Zenon
<1>4. CASE UNCHANGED vars
  BY <1>2, <1>4, Zenon DEF vars, local, dagState
<1>5. ASSUME NEW n \in Node, NEW w \in Wave, processWave(n, w) PROVE ConfirmInv'
  <2>1. UNCHANGED <<refs, confirmedBlocks>>
    BY <1>5, Zenon DEF processWave
  <2>2. CASE processNoBlocks(n, w) \/ processEmptyWave(n, w)
    BY <1>2, <2>1, <2>2, Zenon DEF processNoBlocks, processEmptyWave
  <2>3. ASSUME NEW b \in AnyBlock, propose(n, w, b) PROVE ConfirmInv'
    BY <1>3, <2>1, <2>3, Zenon DEF propose
  <2>4. candidateBlocks(n) \subseteq AnyBlock /\ MockBlock \subseteq AnyBlock
    BY Zenon DEF candidateBlocks, AnyBlock, TypeOK
  <2>5. QED
    BY <1>5, <2>2, <2>3, <2>4, Zenon DEF processWave, processSelected, processFallback
<1>6. ASSUME NEW n \in Node, NEW w \in Wave, checkWaveFinalization(n, w) PROVE ConfirmInv'
  <2>1. UNCHANGED <<refs, cast>>
    BY <1>6, Zenon DEF checkWaveFinalization, dagState
  <2>2. CASE UNCHANGED confirmedBlocks
    BY <1>2, <2>1, <2>2, Zenon
  <2>3. ASSUME w \in ledWaves(n), hasQuorum(n, w, storedHash(n, w)), NEW recent \in recentBlocks(n),
               confirmedBlocks' = [confirmedBlocks EXCEPT
                                     ![n] = confirmBlockAndReferences(n, w, recent)]
        PROVE  ConfirmInv'
    <3>1. underQuorum(n, Round[waveBlocks[n][w]])
      BY <2>3, CountedUnderQuorum, ZenonT(40)
    <3>2. ASSUME storedHash(n, w) \notin confirmedBlocks[n], NEW c \in confirmedWith(n, w, recent)
          PROVE  underQuorum(n, Round[c[1]])
      <4>1. Round[c[1]] <= Round[waveBlocks[n][w]]
        BY <2>3, ConfirmedIsOlder, Zenon
      <4>2. Round[c[1]] \in Nat /\ Round[waveBlocks[n][w]] \in Nat
        <5>1. c \in Hash
          BY <2>3, <3>2, ConfirmType, Zenon DEF confirmBlockAndReferences
        <5>2. QED
          BY <2>3, <5>1, ConstantTypes, SMTT(30) DEF Hash, TypeOK, ledWaves
      <4>3. PICK x \in Wave, b \in AnyBlock :
              Round[waveBlocks[n][w]] <= Round[b] /\ quorumCast(n, x, voteHash(b, x))
        BY <3>1, Zenon DEF underQuorum
      <4>4. Round[b] \in Nat
        BY <4>3, ConstantTypes, Zenon
      <4>5. Round[c[1]] <= Round[b]
        BY <4>1, <4>2, <4>3, <4>4
      <4>6. QED
        BY <4>3, <4>5, Zenon DEF underQuorum
    <3>3. ASSUME NEW m \in Node, NEW c \in confirmedBlocks'[m]
          PROVE  c \in confirmedBlocks[m] \/ underQuorum(m, Round[c[1]])
      <4>1. CASE m = n
        <5>1. c \in confirmBlockAndReferences(n, w, recent)
          BY <2>3, <4>1, Zenon DEF TypeOK
        <5>2. QED
          BY <3>2, <4>1, <5>1, Zenon DEF confirmBlockAndReferences
      <4>2. CASE m # n
        BY <2>3, <4>2, ZenonT(40) DEF TypeOK
      <4>3. QED
        BY <4>1, <4>2, Zenon
    <3>4. QED
      BY <1>1, <2>1, <3>3, Zenon
  <2>4. QED
    BY <1>6, <2>2, <2>3, Zenon DEF checkWaveFinalization
<1>7. ASSUME NEW n \in Node, NEW s \in Node, handleReceivedVote(n, s) PROVE ConfirmInv'
  BY <1>2, <1>7, Zenon DEF handleReceivedVote, dagState
<1>8. ASSUME NEW n \in Node, NEW s \in Node, handleReceivedWaveBlocks(n, s) PROVE ConfirmInv'
  <2> DEFINE msg == Head(chan[<<s, n>>])
  <2>1. UNCHANGED <<refs, confirmedBlocks>>
    BY <1>8, Zenon DEF handleReceivedWaveBlocks, dagState
  <2>2. msg \in Message /\ msg.type = "wave_blocks"
    <3>1. chan \in Channels /\ chan[<<s, n>>] # <<>> /\ msg.type = "wave_blocks"
      BY <1>8, Zenon DEF TypeOK, Channels, handleReceivedWaveBlocks, incoming
    <3>2. QED
      BY <3>1, ReceivedType, Zenon
  <2>3. msg.wave \in Wave /\ msg.block \in AnyBlock
    BY <2>2 DEF Message
  <2>4. \/ UNCHANGED cast
        \/ voteOnBlock(received(s, n), n, msg.wave, msg.block)
    BY <1>8, Zenon DEF handleReceivedWaveBlocks
  <2> HIDE DEF msg
  <2>5. QED
    BY <1>2, <1>3, <2>1, <2>3, <2>4, ZenonT(40)
<1>9. ASSUME NEW n \in Node, cleanupOldWaves(n) PROVE ConfirmInv'
  <2>1. UNCHANGED <<refs, cast>>
    BY <1>9, Zenon DEF cleanupOldWaves, dagState
  <2>2. PICK K \in keptConfirmed(n) : confirmedBlocks' = [confirmedBlocks EXCEPT ![n] = K]
    BY <1>9, Zenon DEF cleanupOldWaves
  <2>3. K \subseteq confirmedBlocks[n]
    BY <2>2, Zenon DEF keptConfirmed
  <2>4. \A m \in Node : confirmedBlocks'[m] \subseteq confirmedBlocks[m]
    BY <2>2, <2>3, Zenon DEF TypeOK
  <2>5. QED
    BY <1>1, <2>1, <2>4, Zenon
<1>10. ASSUME NEW n \in Node, restart(n) PROVE ConfirmInv'
  <2>1. UNCHANGED <<refs, cast>> /\ confirmedBlocks' = [confirmedBlocks EXCEPT ![n] = {}]
    BY <1>10, Zenon DEF restart
  <2>2. \A m \in Node : confirmedBlocks'[m] \subseteq confirmedBlocks[m]
    BY <2>1, Zenon DEF TypeOK
  <2>3. QED
    BY <1>1, <2>1, <2>2, Zenon
<1>11. ASSUME NEW n \in Node, advanceWave(n) PROVE ConfirmInv'
  BY <1>2, <1>11, Zenon DEF advanceWave, dagState
<1>12. ASSUME NEW n \in Node, NEW w \in Wave, NEW b \in AnyBlock, broadcastWaveBlocks(n, w, b)
       PROVE  ConfirmInv'
  BY <1>2, <1>12, Zenon DEF broadcastWaveBlocks, local, dagState
<1>13. ASSUME NEW n \in Node, NEW d \in Node, connectToPeer(n, d) \/ breakConnection(n, d)
       PROVE  ConfirmInv'
  BY <1>2, <1>13, Zenon DEF connectToPeer, breakConnection, local, dagState
<1>14. ASSUME NEW n \in Node, NEW b \in Block, dagAddBlock(n, b) PROVE ConfirmInv'
  <2>1. UNCHANGED <<cast, confirmedBlocks>>
    BY <1>14, Zenon DEF dagAddBlock, local
  <2>2. CASE UNCHANGED refs
    BY <1>2, <2>1, <2>2, Zenon
  <2>3. ASSUME NEW prev \in SUBSET {c \in DOMAIN refs : InProcess /\ Round[c] + 1 = Round[b]},
               refs' = [c \in DOMAIN refs \cup {b} |->
                          IF c = b THEN hashesOf(n, prev) ELSE refs[c]]
        PROVE  ConfirmInv'
    <3>1. ASSUME NEW h \in hashesOf(n, prev) PROVE Round[h[1]] <= Round[b]
      <4>1. PICK c \in prev : h = dagHash(n, c)
        BY Zenon DEF hashesOf
      <4>2. c \in Block /\ Round[c] + 1 = Round[b]
        BY <2>3, Zenon DEF TypeOK
      <4>3. h[1] = c /\ Round[c] \in Nat
        BY <4>1, <4>2, ConstantTypes DEF dagHash, ComputeHash, AnyBlock
      <4>4. QED
        BY <4>2, <4>3
    <3>2. ASSUME NEW c \in DOMAIN refs', NEW h \in refs'[c] PROVE Round[h[1]] <= Round[c]
      BY <2>3, <3>1, Zenon DEF ConfirmInv
    <3>3. ConfirmedUnderQuorum'
      BY <2>1, ConfirmedStep, Zenon DEF ConfirmInv
    <3>4. QED
      BY <2>1, <3>2, <3>3, Zenon DEF ConfirmInv, voteHash, ComputeHash
  <2>4. QED
    BY <1>14, <2>2, <2>3, Zenon DEF dagAddBlock
<1>15. QED
  BY <1>4, <1>5, <1>6, <1>7, <1>8, <1>9, <1>10, <1>11, <1>12, <1>13, <1>14, ZenonT(40) DEF Next

\* Nothing is cast, referenced or confirmed when the waves start.
LEMMA InitConfirm == Init => ConfirmInv
<1> SUFFICES ASSUME Init PROVE ConfirmInv
  OBVIOUS
<1>1. /\ cast = {} /\ \A n \in Node : confirmedBlocks[n] = {}
      /\ \A b \in DOMAIN refs : refs[b] = {}
  BY Zenon DEF Init
<1>2. QED
  BY <1>1, Zenon DEF ConfirmInv, ConfirmedUnderQuorum

\* confirmBlockAndReferences: whatever it confirms, directly, through the
\* references, or with the rest of the DAG, is of the round of a block that a
\* majority voted for, or of an earlier one.
THEOREM ConfirmedAlwaysUnderQuorum == Spec => []ConfirmedUnderQuorum
<1>1. ConfirmInv => ConfirmedUnderQuorum
  BY Zenon DEF ConfirmInv
<1>2. QED
  BY <1>1, InitType, StepType, InitFollows, StepFollows, InitConfirm, StepConfirm, PTL DEF Spec

\* The listing of the status API never says of a block what the query for
\* that block could not say: this follows from the two handlers alone.
THEOREM ListingAlwaysAgrees == Spec => []ListingAgrees
<1>1. ListingAgrees
  <2> SUFFICES ASSUME NEW n \in Node, NEW h \in Hash, NEW x \in GetAllBlocksConfirmationStatus(n, h)
               PROVE  x \in GetBlockConfirmationStatus(n, h)
    BY Zenon DEF ListingAgrees
  <2> DEFINE waves == {w \in ledWaves(n) : storedHash(n, w) = h}
  <2>1. waves \subseteq wavesOf(n, h)
    BY Zenon DEF wavesOf
  <2>2. CASE waves # {}
    <3>1. PICK w \in waves : x = statusInWave(n, h, w)
      BY <2>2 DEF GetAllBlocksConfirmationStatus
    <3>2. QED
      BY <2>1, <3>1, Zenon DEF GetBlockConfirmationStatus
  <2>3. CASE waves = {}
    <3>1. x = "finalized" /\ h \in confirmedBlocks[n]
      BY <2>3 DEF GetAllBlocksConfirmationStatus
    <3>2. CASE wavesOf(n, h) = {}
      BY <3>1, <3>2, Zenon DEF GetBlockConfirmationStatus
    <3>3. ASSUME NEW w \in wavesOf(n, h) PROVE statusInWave(n, h, w) = "finalized"
      BY <3>1, Zenon DEF statusInWave
    <3>4. QED
      BY <3>1, <3>2, <3>3, Zenon DEF GetBlockConfirmationStatus
  <2>4. QED
    BY <2>2, <2>3, Zenon
<1>2. QED
  BY <1>1, PTL

-----------------------------------------------------------------------------
(* What the status API calls finalized.  A leader has voted for the block   *)
(* it keeps for a wave; and a wave it has finalized has a majority, unless  *)
(* it was empty, in which case it keeps no block for it.                    *)

majority(n, w) == \E v \in cast : v.wave = w /\ quorumCast(n, w, v.hash)

emptyWave(n, w) == waveBlocks[n][w] = None /\ w \notin processing[n] /\ w <= currentWave[n]

LeadInv ==
  /\ \A n \in Node : \A w \in processing[n] : waveBlocks[n][w] = None
  /\ \A n \in Node : \A w \in ledWaves(n) :
       [wave |-> w, hash |-> voteHash(waveBlocks[n][w], w), voter |-> n] \in cast
  /\ \A n \in Node : \A w \in finalizedWaves[n] : majority(n, w) \/ emptyWave(n, w)

\* A majority for a block of a wave stays one.
LEMMA MajorityStays ==
  ASSUME NEW n \in Node, NEW w, majority(n, w), cast \subseteq cast'
  PROVE  majority(n, w)'
<1>1. PICK v \in cast : v.wave = w /\ quorumCast(n, w, v.hash)
  BY Zenon DEF majority
<1>2. quorumCast(n, w, v.hash)'
  BY <1>1, QuorumStays, Zenon
<1>3. QED
  BY <1>1, <1>2, Zenon DEF majority

\* What a step may do to the state of one validator.
LEMMA LeadFrame ==
  ASSUME LeadInv, cast \subseteq cast',
         \A n \in Node : processing'[n] \subseteq processing[n] /\ currentWave'[n] = currentWave[n],
         \A n \in Node : \A w \in Wave : waveBlocks'[n][w] \in {None, waveBlocks[n][w]},
         \A n \in Node : \A w \in finalizedWaves'[n] :
           w \in finalizedWaves[n] \/ majority(n, w) \/ emptyWave(n, w)',
         \A n \in Node : processing[n] \subseteq Wave /\ finalizedWaves'[n] \subseteq Wave
  PROVE  LeadInv'
<1>1. ASSUME NEW n \in Node, NEW w \in processing'[n] PROVE waveBlocks'[n][w] = None
  <2>1. w \in processing[n] /\ w \in Wave
    BY Zenon
  <2>2. waveBlocks[n][w] = None
    BY <2>1, Zenon DEF LeadInv
  <2>3. QED
    BY <2>1, <2>2, Zenon
<1>2. ASSUME NEW n \in Node, NEW w \in Wave, waveBlocks'[n][w] # None
      PROVE  [wave |-> w, hash |-> voteHash(waveBlocks[n][w], w), voter |-> n]' \in cast'
  <2>1. waveBlocks'[n][w] = waveBlocks[n][w] /\ w \in ledWaves(n)
    BY <1>2, Zenon DEF ledWaves
  <2>2. PICK vote : vote = [wave |-> w, hash |-> voteHash(waveBlocks[n][w], w), voter |-> n]
    BY Zenon
  <2>3. vote \in cast'
    BY <2>1, <2>2, Zenon DEF LeadInv
  <2>4. voteHash(waveBlocks[n][w], w)' = voteHash(waveBlocks[n][w], w)
    BY <2>1, Zenon DEF voteHash, ComputeHash
  <2>5. QED
    BY <2>2, <2>3, <2>4, Zenon
<1>3. ASSUME NEW n \in Node, NEW w \in finalizedWaves'[n]
      PROVE  majority(n, w)' \/ emptyWave(n, w)'
  <2>1. CASE majority(n, w)
    BY <2>1, MajorityStays, Zenon
  <2>2. CASE emptyWave(n, w)
    BY <2>2, ZenonT(40) DEF emptyWave
  <2>3. QED
    BY <2>1, <2>2, Zenon DEF LeadInv
<1>4. QED
  BY <1>1, <1>2, <1>3, Zenon DEF LeadInv, ledWaves

\* A leader's choice for a wave: its vote is cast, and a wave finalized
\* before has a majority already.
LEMMA ProposeLeads ==
  ASSUME TypeOK, LeadInv, NEW n \in Node, NEW w \in Wave, NEW b,
         w \in processing[n], endProcessing(n, w), propose(n, w, b), UNCHANGED currentWave
  PROVE  LeadInv'
<1>1. PICK vote : /\ vote = [wave |-> w, hash |-> voteHash(b, w), voter |-> n]
                  /\ cast' = cast \cup {vote}
  BY Zenon DEF propose, voteOnBlock
<1>2. \A m \in Node, x \in Wave :
        waveBlocks'[m][x] = IF m = n /\ x = w THEN b ELSE waveBlocks[m][x]
  BY Zenon DEF propose, TypeOK
<1>3. \A m \in Node : processing'[m] = IF m = n THEN processing[m] \ {w} ELSE processing[m]
  BY Zenon DEF endProcessing, TypeOK
<1>4. UNCHANGED finalizedWaves
  BY Zenon DEF propose
<1>5. ASSUME NEW m \in Node, NEW x \in processing'[m] PROVE waveBlocks'[m][x] = None
  <2>1. x \in processing[m] /\ ~(m = n /\ x = w) /\ x \in Wave
    BY <1>3, Zenon DEF TypeOK
  <2>2. QED
    BY <1>2, <2>1, ZenonT(40) DEF LeadInv
<1>6. ASSUME NEW m \in Node, NEW x \in Wave, waveBlocks'[m][x] # None
      PROVE  [wave |-> x, hash |-> voteHash(waveBlocks[m][x], x), voter |-> m]' \in cast'
  <2>1. CASE m = n /\ x = w
    <3>1. voteHash(waveBlocks[m][x], x)' = voteHash(b, w)
      BY <1>2, <2>1, Zenon DEF voteHash, ComputeHash
    <3>2. QED
      BY <1>1, <2>1, <3>1, Zenon
  <2>2. CASE ~(m = n /\ x = w)
    <3>1. waveBlocks'[m][x] = waveBlocks[m][x] /\ x \in ledWaves(m)
      BY <1>2, <1>6, <2>2, Zenon DEF ledWaves
    <3>2. PICK old : old = [wave |-> x, hash |-> voteHash(waveBlocks[m][x], x), voter |-> m]
      BY Zenon
    <3>3. old \in cast'
      BY <1>1, <3>1, <3>2, Zenon DEF LeadInv
    <3>4. voteHash(waveBlocks[m][x], x)' = voteHash(waveBlocks[m][x], x)
      BY <3>1, Zenon DEF voteHash, ComputeHash
    <3>5. QED
      BY <3>2, <3>3, <3>4, Zenon
  <2>3. QED
    BY <2>1, <2>2, Zenon
<1>7. ASSUME NEW m \in Node, NEW x \in finalizedWaves'[m]
      PROVE  majority(m, x)' \/ emptyWave(m, x)'
  <2>1. x \in finalizedWaves[m] /\ x \in Wave
    BY <1>4, Zenon DEF TypeOK
  <2>2. CASE majority(m, x)
    BY <1>1, <2>2, MajorityStays, Zenon
  <2>3. CASE emptyWave(m, x)
    <3>1. ~(m = n /\ x = w)
      BY <2>3, Zenon DEF emptyWave
    <3>2. QED
      BY <1>2, <1>3, <2>1, <2>3, <3>1, ZenonT(40) DEF emptyWave
  <2>4. QED
    BY <2>1, <2>2, <2>3, Zenon DEF LeadInv
<1>8. QED
  BY <1>5, <1>6, <1>7, Zenon DEF LeadInv, ledWaves

\* Every step keeps LeadInv.
LEMMA StepLeads == TypeOK /\ FollowInv /\ LedInv /\ LeadInv /\ [Next]_vars => LeadInv'
<1> SUFFICES ASSUME TypeOK, FollowInv, LedInv, LeadInv, [Next]_vars PROVE LeadInv'
  BY Zenon
<1>1. \A n \in Node : processing[n] \subseteq Wave /\ finalizedWaves[n] \subseteq Wave
  BY Zenon DEF TypeOK
<1>2. ASSUME UNCHANGED <<processing, currentWave, waveBlocks, finalizedWaves>>, cast \subseteq cast'
      PROVE  LeadInv'
  BY <1>1, <1>2, LeadFrame, Zenon
<1>3. CASE UNCHANGED vars
  BY <1>2, <1>3, Zenon DEF vars, local, goroutines
<1>4. ASSUME NEW n \in Node, advanceWave(n) PROVE LeadInv'
  <2>1. PICK wave : wave = currentWave[n] + 1
    BY Zenon
  <2>2. /\ UNCHANGED <<waveBlocks, finalizedWaves, cast>>
        /\ currentWave' = [currentWave EXCEPT ![n] = wave]
        /\ processing' = [processing EXCEPT ![n] = IF isWaveLeader(n, wave) THEN @ \cup {wave} ELSE @]
    BY <1>4, <2>1, Zenon DEF advanceWave
  <2>3. \A m \in Node : \A w \in processing'[m] : w \in processing[m] \/ (m = n /\ w = wave)
    BY <2>2, Zenon DEF TypeOK
  <2>4. \A m \in Node : currentWave'[m] = IF m = n THEN wave ELSE currentWave[m]
    BY <2>2, Zenon DEF TypeOK
  <2>5. \A m \in Node : currentWave[m] \in Int
    BY ConstantTypes DEF TypeOK
  <2>6. \A w \in Wave : w \in Int
    BY ConstantTypes DEF Wave
  <2>7. wave \in Wave /\ waveBlocks[n][wave] = None
    <3>1. wave \in Wave
      BY <1>4, <2>1, Zenon DEF advanceWave
    <3>2. wave \notin ledWaves(n)
      <4>1. ~(wave <= currentWave[n])
        BY <2>1, <2>5
      <4>2. QED
        BY <4>1, Zenon DEF LedInv
    <3>3. QED
      BY <3>1, <3>2, Zenon DEF ledWaves
  <2>8. ASSUME NEW m \in Node, NEW w \in processing'[m] PROVE waveBlocks'[m][w] = None
    BY <2>2, <2>3, <2>7, Zenon DEF LeadInv
  <2>9. ASSUME NEW m \in Node, NEW w \in finalizedWaves'[m]
        PROVE  majority(m, w)' \/ emptyWave(m, w)'
    <3>1. w \in finalizedWaves[m] /\ w \in Int
      BY <1>1, <2>2, <2>6, Zenon
    <3>2. CASE majority(m, w)
      BY <2>2, <3>2, MajorityStays, Zenon
    <3>3. CASE emptyWave(m, w)
      <4>1. waveBlocks'[m][w] = None /\ w \notin processing[m] /\ w <= currentWave[m]
        BY <2>2, <3>3, Zenon DEF emptyWave
      <4>2. w <= currentWave'[m] /\ ~(m = n /\ w = wave)
        BY <2>1, <2>4, <2>5, <3>1, <4>1, SMTT(30)
      <4>3. QED
        BY <2>3, <4>1, <4>2, Zenon DEF emptyWave
    <3>4. QED
      BY <3>1, <3>2, <3>3, Zenon DEF LeadInv
  <2>10. QED
    BY <2>2, <2>8, <2>9, Zenon DEF LeadInv, ledWaves, voteHash, ComputeHash
<1>5. ASSUME NEW n \in Node, NEW w \in Wave, processWave(n, w) PROVE LeadInv'
  <2>1. w \in processing[n] /\ endProcessing(n, w) /\ UNCHANGED currentWave
    BY <1>5, Zenon DEF processWave
  <2>2. processing' = [processing EXCEPT ![n] = @ \ {w}]
    BY <2>1, Zenon DEF endProcessing
  <2>3. \A m \in Node : processing'[m] \subseteq processing[m] /\ w \notin processing'[n]
    BY <2>2, Zenon DEF TypeOK
  <2>4. ASSUME NEW b, propose(n, w, b) PROVE LeadInv'
    BY <2>1, <2>4, ProposeLeads, Zenon
  <2>5. CASE processNoBlocks(n, w)
    BY <1>1, <2>1, <2>3, <2>5, LeadFrame, Zenon DEF processNoBlocks
  <2>6. CASE processEmptyWave(n, w)
    <3>1. /\ finalizedWaves' = [finalizedWaves EXCEPT ![n] = @ \cup {w}]
          /\ UNCHANGED <<waveBlocks, cast>>
      BY <2>6, Zenon DEF processEmptyWave
    <3>2. emptyWave(n, w)'
      BY <2>1, <2>3, <3>1, Zenon DEF emptyWave, LeadInv, LedInv
    <3>3. \A m \in Node : \A x \in finalizedWaves'[m] : x \in finalizedWaves[m] \/ emptyWave(m, x)'
      BY <3>1, <3>2, ZenonT(40) DEF TypeOK
    <3>4. \A m \in Node : finalizedWaves'[m] \subseteq Wave
      BY <1>1, <3>1, ZenonT(40) DEF TypeOK
    <3>5. QED
      BY <1>1, <2>1, <2>3, <3>1, <3>3, <3>4, LeadFrame, ZenonT(40)
  <2>7. QED
    BY <1>5, <2>4, <2>5, <2>6, Zenon DEF processWave, processSelected, processFallback
<1>6. ASSUME NEW n \in Node, NEW w \in Wave, checkWaveFinalization(n, w) PROVE LeadInv'
  <2>1. UNCHANGED <<processing, currentWave, waveBlocks, cast>>
    BY <1>6, Zenon DEF checkWaveFinalization
  <2>2. CASE UNCHANGED finalizedWaves
    BY <1>2, <2>1, <2>2, Zenon
  <2>3. CASE finalizedWaves' = [finalizedWaves EXCEPT ![n] = @ \cup {w}] /\ canFinalize(n, w)
    <3>1. PICK v \in waveVotes[n] : v.wave = w /\ hasQuorum(n, w, v.hash)
      BY <2>3, Zenon DEF canFinalize
    <3>2. majority(n, w)
      BY <3>1, CountedIsCast, Zenon DEF majority, FollowInv
    <3>3. \A m \in Node : \A x \in finalizedWaves'[m] : x \in finalizedWaves[m] \/ majority(m, x)
      BY <2>3, <3>2, ZenonT(40) DEF TypeOK
    <3>4. \A m \in Node : finalizedWaves'[m] \subseteq Wave
      BY <1>1, <2>3, Zenon DEF TypeOK
    <3>5. QED
      BY <1>1, <2>1, <3>3, <3>4, LeadFrame, ZenonT(40)
  <2>4. QED
    BY <1>6, <2>2, <2>3, Zenon DEF checkWaveFinalization
<1>7. ASSUME NEW n \in Node, NEW s \in Node,
             handleReceivedVote(n, s) \/ handleReceivedWaveBlocks(n, s)
      PROVE  LeadInv'
  <2>1. cast \subseteq cast'
    BY <1>7, Zenon DEF handleReceivedVote, handleReceivedWaveBlocks, voteOnBlock
  <2>2. UNCHANGED <<processing, currentWave, waveBlocks, finalizedWaves>>
    BY <1>7, Zenon DEF handleReceivedVote, handleReceivedWaveBlocks
  <2>3. QED
    BY <1>2, <2>1, <2>2, Zenon
<1>8. ASSUME NEW n \in Node, cleanupOldWaves(n) PROVE LeadInv'
  <2>1. UNCHANGED <<processing, currentWave, cast>>
    BY <1>8, Zenon DEF cleanupOldWaves
  <2>2. \A m \in Node : \A w \in Wave : waveBlocks'[m][w] \in {None, waveBlocks[m][w]}
    BY <1>8, Zenon DEF cleanupOldWaves, TypeOK
  <2>3. \A m \in Node : finalizedWaves'[m] \subseteq finalizedWaves[m]
    BY <1>8, Zenon DEF cleanupOldWaves, TypeOK
  <2>4. QED
    BY <1>1, <2>1, <2>2, <2>3, LeadFrame, ZenonT(40)
<1>9. ASSUME NEW n \in Node, restart(n) PROVE LeadInv'
  <2>1. /\ finalizedWaves' = [finalizedWaves EXCEPT ![n] = {}]
        /\ currentWave' = [currentWave EXCEPT ![n] = 0]
        /\ processing' = [processing EXCEPT ![n] = {}]
        /\ waveBlocks' = [waveBlocks EXCEPT ![n] = [w \in Wave |-> None]]
        /\ cast' = cast
    BY <1>9, Zenon DEF restart
  <2>2. \A m \in Node : m # n =>
          /\ currentWave'[m] = currentWave[m] /\ processing'[m] = processing[m]
          /\ waveBlocks'[m] = waveBlocks[m] /\ finalizedWaves'[m] = finalizedWaves[m]
    BY <2>1, Zenon DEF TypeOK
  <2>3. processing'[n] = {} /\ finalizedWaves'[n] = {} /\ \A w \in Wave : waveBlocks'[n][w] = None
    BY <2>1, Zenon DEF TypeOK
  <2>4. ASSUME NEW m \in Node, NEW w \in processing'[m] PROVE waveBlocks'[m][w] = None
    <3>1. m # n
      BY <2>3, <2>4, Zenon
    <3>2. w \in processing[m] /\ waveBlocks'[m] = waveBlocks[m]
      BY <2>2, <2>4, <3>1, Zenon
    <3>3. QED
      BY <3>2, Zenon DEF LeadInv
  <2>5. ASSUME NEW m \in Node, NEW w \in Wave, waveBlocks'[m][w] # None
        PROVE  [wave |-> w, hash |-> voteHash(waveBlocks[m][w], w), voter |-> m]' \in cast'
    <3>1. m # n
      BY <2>3, <2>5, Zenon
    <3>2. waveBlocks'[m] = waveBlocks[m]
      BY <2>2, <3>1, Zenon
    <3>3. w \in ledWaves(m)
      BY <2>5, <3>2, Zenon DEF ledWaves
    <3>4. PICK vote : vote = [wave |-> w, hash |-> voteHash(waveBlocks[m][w], w), voter |-> m]
      BY Zenon
    <3>5. vote \in cast'
      BY <2>1, <3>3, <3>4, Zenon DEF LeadInv
    <3>6. voteHash(waveBlocks[m][w], w)' = voteHash(waveBlocks[m][w], w)
      BY <3>2, Zenon DEF voteHash, ComputeHash
    <3>7. QED
      BY <3>4, <3>5, <3>6, Zenon
  <2>6. ASSUME NEW m \in Node, NEW w \in finalizedWaves'[m]
        PROVE  majority(m, w)' \/ emptyWave(m, w)'
    <3>1. m # n /\ w \in finalizedWaves[m]
      BY <2>2, <2>3, <2>6, Zenon
    <3>2. CASE majority(m, w)
      BY <2>1, <3>2, MajorityStays, Zenon
    <3>3. CASE emptyWave(m, w)
      BY <2>2, <3>1, <3>3, Zenon DEF emptyWave
    <3>4. QED
      BY <3>1, <3>2, <3>3, Zenon DEF LeadInv
  <2>7. QED
    BY <2>4, <2>5, <2>6, Zenon DEF LeadInv, ledWaves
<1>10. ASSUME NEW n \in Node, NEW w \in Wave, NEW b \in AnyBlock, broadcastWaveBlocks(n, w, b)
       PROVE  LeadInv'
  BY <1>2, <1>10, Zenon DEF broadcastWaveBlocks, local
<1>11. ASSUME NEW n \in Node, NEW d \in Node, connectToPeer(n, d) \/ breakConnection(n, d)
       PROVE  LeadInv'
  BY <1>2, <1>11, Zenon DEF connectToPeer, breakConnection, local, goroutines
<1>12. ASSUME NEW n \in Node, NEW b \in Block, dagAddBlock(n, b) PROVE LeadInv'
  BY <1>2, <1>12, Zenon DEF dagAddBlock, local, goroutines
<1>13. QED
  BY <1>3, <1>4, <1>5, <1>6, <1>7, <1>8, <1>9, <1>10, <1>11, <1>12, ZenonT(40) DEF Next

\* Where all votes of a wave are for one block, the majority of a finalized
\* wave is one for the block its leader keeps for it.
LEMMA StatusFollows ==
  ASSUME TypeOK, ConfirmInv, LeadInv, OneBlockPerWave
  PROVE  StatusReflectsQuorum
<1> SUFFICES ASSUME NEW n \in Node, NEW h \in Hash, "finalized" \in GetBlockConfirmationStatus(n, h)
             PROVE  underQuorum(n, Round[h[1]])
  BY Zenon DEF StatusReflectsQuorum, underQuorum
<1>1. CASE h \in confirmedBlocks[n]
  BY <1>1, Zenon DEF ConfirmInv, ConfirmedUnderQuorum, underQuorum
<1>2. ASSUME h \notin confirmedBlocks[n] PROVE underQuorum(n, Round[h[1]])
  <2>1. PICK w \in wavesOf(n, h) : statusInWave(n, h, w) = "finalized"
    BY <1>2 DEF GetBlockConfirmationStatus
  <2>2. w \in finalizedWaves[n]
    BY <1>2, <2>1, SMTT(30) DEF statusInWave
  <2>3. PICK b \in AnyBlock : b = waveBlocks[n][w] /\ b # None /\ w \in Wave /\ w \in ledWaves(n)
    BY <2>1, SMTT(30) DEF wavesOf, ledWaves, TypeOK
  <2>4. h[1] = b
    <3>1. h \in {ComputeHash(b, storedWave(n, w)), storedHash(n, w)}
      BY <2>1, <2>3, Zenon DEF wavesOf
    <3>2. QED
      BY <2>3, <3>1 DEF ComputeHash, storedHash, voteHash
  <2>5. majority(n, w)
    BY <2>2, <2>3, Zenon DEF LeadInv, emptyWave
  <2>6. PICK v \in cast : v.wave = w /\ quorumCast(n, w, v.hash)
    BY <2>5, Zenon DEF majority
  <2>7. v.hash = voteHash(b, w)
    <3>1. PICK u : u = [wave |-> w, hash |-> voteHash(b, w), voter |-> n]
      BY Zenon
    <3>2. u \in cast
      BY <2>3, <3>1, Zenon DEF LeadInv
    <3>3. u.wave = w /\ u.hash = voteHash(b, w)
      BY <3>1
    <3>4. QED
      BY <2>6, <3>2, <3>3, Zenon DEF OneBlockPerWave
  <2>8. Round[h[1]] <= Round[b]
    BY <2>4, ConstantTypes
  <2>9. QED
    BY <2>3, <2>6, <2>7, <2>8, ZenonT(40) DEF underQuorum
<1>3. QED
  BY <1>1, <1>2, Zenon

\* No wave is led or finalized when the waves start.
LEMMA InitLeads == Init => LeadInv /\ LedInv
<1> SUFFICES ASSUME Init PROVE LeadInv /\ LedInv
  OBVIOUS
<1>1. \A n \in Node : /\ processing[n] = {} /\ finalizedWaves[n] = {}
                      /\ \A w \in Wave : waveBlocks[n][w] = None
  BY Zenon DEF Init
<1>2. QED
  BY <1>1, Zenon DEF LeadInv, LedInv, ledWaves

\* GetBlockConfirmationStatus, whatever is lost or restarted: as long as all
\* votes of a wave have been for one block, a block is called finalized only if
\* a majority voted for it or for a block of a later round.
THEOREM StatusReflectsAgreedQuorum == Spec => [](OneBlockPerWave => StatusReflectsQuorum)
<1>1. TypeOK /\ ConfirmInv /\ LeadInv => (OneBlockPerWave => StatusReflectsQuorum)
  BY StatusFollows, Zenon
<1>2. Spec => []TypeOK /\ []FollowInv
  BY InitType, StepType, InitFollows, StepFollows, PTL DEF Spec
<1>3. Spec => []LeadInv
  BY <1>2, InitLeads, StepLed, StepLeads, PTL DEF Spec
<1>4. Spec => []ConfirmInv
  BY <1>2, InitConfirm, StepConfirm, PTL DEF Spec
<1>5. QED
  BY <1>1, <1>2, <1>3, <1>4, PTL

\* GetBlockConfirmationStatus, for validators with one list of which none
\* restarts: a block is called finalized only if a majority voted for it or for
\* a block of a later round.  (A leader that restarts may keep another block
\* for a wave than the one that the majority of the wave is for.)
THEOREM StatusAlwaysReflectsQuorum ==
  ASSUME CommonValidators, MaxRestarts = 0
  PROVE  Spec => []StatusReflectsQuorum
<1>1. Spec => []OneBlockPerWave
  BY OneBlockPerWaveAlways, Zenon
<1>2. QED
  BY <1>1, StatusReflectsAgreedQuorum, PTL

============================================================================
