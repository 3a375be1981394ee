------------------------ MODULE WaveConsensusProofs ------------------------
(***************************************************************************)
(* Theorems about WaveConsensus, for every number of validators, blocks    *)
(* and waves.                                                              *)
(***************************************************************************)
EXTENDS WaveConsensus, TLAPS

(* Sequences as channels: what sending, receiving and cutting leave in one *)

contents(s) == {s[i] : i \in DOMAIN s}

\* Sending appends one message and keeps the others.
LEMMA AppendContents ==
  ASSUME NEW S, NEW s \in Seq(S), NEW m \in S
  PROVE  /\ Append(s, m) \in Seq(S)
         /\ contents(Append(s, m)) = contents(s) \cup {m}
<1>1. Append(s, m) \in Seq(S)
  OBVIOUS
<1>2. contents(Append(s, m)) \subseteq contents(s) \cup {m}
  BY DEF contents
<1>3. \A i \in DOMAIN s : i \in DOMAIN Append(s, m) /\ Append(s, m)[i] = s[i]
  OBVIOUS
<1>4. Len(s) + 1 \in DOMAIN Append(s, m) /\ Append(s, m)[Len(s) + 1] = m
  OBVIOUS
<1>5. QED
  BY <1>1, <1>2, <1>3, <1>4, Zenon DEF contents

\* Receiving takes the first message of a channel and adds none.
LEMMA TailContents ==
  ASSUME NEW S, NEW s \in Seq(S), s # <<>>
  PROVE  /\ Tail(s) \in Seq(S)
         /\ contents(Tail(s)) \subseteq contents(s)
         /\ Head(s) \in S /\ Head(s) \in contents(s)
<1>1. 1 \in DOMAIN s /\ Head(s) = s[1] /\ s[1] \in S
  OBVIOUS
<1>2. \A i \in DOMAIN Tail(s) : i + 1 \in DOMAIN s /\ Tail(s)[i] = s[i + 1]
  OBVIOUS
<1>3. QED
  BY <1>1, <1>2 DEF contents

\* A connection that breaks delivers a prefix of what was sent.
LEMMA PrefixContents ==
  ASSUME NEW S, NEW s \in Seq(S), NEW k \in 0..Len(s)
  PROVE  /\ SubSeq(s, 1, k) \in Seq(S)
         /\ contents(SubSeq(s, 1, k)) \subseteq contents(s)
<1>1. SubSeq(s, 1, k) \in Seq(S)
  OBVIOUS
<1>2. \A i \in DOMAIN SubSeq(s, 1, k) : i \in DOMAIN s /\ SubSeq(s, 1, k)[i] = s[i]
  OBVIOUS
<1>3. QED
  BY <1>1, <1>2, Zenon DEF contents

-----------------------------------------------------------------------------
(* Type correctness *)

Channels == [Node \X Node -> Seq(Message)]

\* voteHash makes a hash of a block of the system and a wave.
LEMMA VoteHashType ==
  ASSUME NEW block \in AnyBlock, NEW wave \in Wave
  PROVE  voteHash(block, wave) \in Hash
  BY ConstantTypes DEF voteHash, ComputeHash, Hash, Wave

\* broadcastMessage leaves sequences of messages on the connections.
LEMMA BroadcastType ==
  ASSUME NEW channels \in Channels, NEW n \in Node, NEW msg \in Message
  PROVE  broadcastMessage(channels, n, msg) \in Channels
  BY AppendContents DEF broadcastMessage, Channels

\* Taking a message off a connection leaves sequences of messages.
LEMMA ReceivedType ==
  ASSUME chan \in Channels, NEW s \in Node, NEW n \in Node, chan[<<s, n>>] # <<>>
  PROVE  /\ received(s, n) \in Channels
         /\ Head(chan[<<s, n>>]) \in Message
  BY TailContents DEF received, Channels

\* voteOnBlock keeps the types of what it writes.
LEMMA VoteOnBlockType ==
  ASSUME TypeOK, NEW channels \in Channels, NEW n \in Node, NEW wave \in Wave,
         NEW block \in AnyBlock, voteOnBlock(channels, n, wave, block)
  PROVE  /\ waveVotes' \in [Node -> SUBSET Vote]
         /\ chan' \in Channels
         /\ checking' \in [Node -> SUBSET Wave]
         /\ cast' \subseteq Vote
<1> DEFINE vote == [wave |-> wave, hash |-> voteHash(block, wave), voter |-> n]
<1>1. vote \in Vote
  BY VoteHashType DEF Vote
<1>2. VoteMsg(vote) \in Message
  BY <1>1 DEF VoteMsg, Message
<1>3. chan' \in Channels
  BY <1>2, BroadcastType, Zenon DEF voteOnBlock
<1>4. QED
  BY <1>1, <1>3 DEF voteOnBlock, TypeOK

\* The end of processWave keeps the types of what it writes.
LEMMA ProposeType ==
  ASSUME TypeOK, NEW n \in Node, NEW wave \in Wave, NEW block \in AnyBlock,
         InProcess => block \in Block, propose(n, wave, block)
  PROVE  /\ headerWave' \in [Node -> [Block -> 0..MaxWave]]
         /\ waveBlocks' \in [Node -> [Wave -> AnyBlock \cup {None}]]
         /\ waveVotes' \in [Node -> SUBSET Vote]
         /\ chan' \in Channels
         /\ checking' \in [Node -> SUBSET Wave]
         /\ cast' \subseteq Vote
         /\ broadcasting' \in [Node -> SUBSET (Wave \X AnyBlock)]
         /\ finalizedWaves' \in [Node -> SUBSET Wave]
<1>1. chan \in Channels
  BY DEF TypeOK, Channels
<1>2. voteOnBlock(chan, n, wave, block)
  BY DEF propose
<1>3. headerWave' \in [Node -> [Block -> 0..MaxWave]]
  <2>1. wave \in 0..MaxWave
    BY ConstantTypes DEF Wave
  <2>2. CASE InProcess
    <3>1. headerWave' = [headerWave EXCEPT ![n][block] = wave] /\ block \in Block
      BY <2>2, Zenon DEF propose
    <3>2. QED
      BY <2>1, <3>1 DEF TypeOK
  <2>3. CASE ~InProcess
    BY <2>3, Zenon DEF propose, TypeOK
  <2>4. QED
    BY <2>2, <2>3, Zenon
<1>4. /\ waveBlocks' \in [Node -> [Wave -> AnyBlock \cup {None}]]
      /\ broadcasting' \in [Node -> SUBSET (Wave \X AnyBlock)]
      /\ finalizedWaves' \in [Node -> SUBSET Wave]
  BY DEF propose, TypeOK
<1>5. QED
  BY <1>1, <1>2, <1>3, <1>4, VoteOnBlockType, Zenon

\* confirmBlockAndReferences confirms hashes of blocks.
LEMMA ConfirmType ==
  ASSUME TypeOK, NEW n \in Node, NEW wave \in ledWaves(n), NEW recent \in recentBlocks(n)
  PROVE  confirmBlockAndReferences(n, wave, recent) \subseteq Hash
<1> DEFINE block == waveBlocks[n][wave]
<1>1. wave \in Wave /\ block \in AnyBlock
  BY DEF TypeOK, ledWaves
<1>2. \A b \in Block : dagHash(n, b) \in Hash
  BY DEF TypeOK, dagHash, ComputeHash, Hash, AnyBlock
<1>3. reachedBlocks(n, wave) \subseteq Block
  BY DEF visited, reachedBlocks
<1>4. recent \subseteq Block
  BY DEF recentBlocks, TypeOK
<1>5. storedHash(n, wave) \in Hash
  <2>1. storedWave(n, wave) \in 0..MaxWave
    <3>1. CASE InProcess
      <4>1. block \in Block
        BY <1>1, <3>1, ConstantTypes, Zenon DEF AnyBlock
      <4>2. QED
        BY <3>1, <4>1 DEF storedWave, TypeOK
    <3>2. CASE ~InProcess
      BY <1>1, <3>2, ConstantTypes DEF storedWave, Wave
    <3>3. QED
      BY <3>1, <3>2
  <2>2. QED
    BY <1>1, <2>1, ConstantTypes, SMTT(30) DEF storedHash, voteHash, ComputeHash, Hash
<1>6. referencesOf(reachedBlocks(n, wave)) \subseteq Hash
  BY DEF TypeOK, referencesOf
<1>7. hashesOf(n, reachedBlocks(n, wave)) \subseteq Hash
  BY <1>2, <1>3, Zenon DEF hashesOf
<1>8. hashesOf(n, ofRoundUpTo(recent, Round[waveBlocks[n][wave]])) \subseteq Hash
  BY <1>2, <1>4, Zenon DEF hashesOf, ofRoundUpTo
<1>9. QED
  BY <1>5, <1>6, <1>7, <1>8 DEF confirmedWith, confirmBlockAndReferences, TypeOK

\* Start: every type holds when the waves start.
LEMMA InitType == Init => TypeOK
<1> SUFFICES ASSUME Init PROVE TypeOK
  BY Zenon
<1>1. /\ currentWave \in [Node -> 0..MaxWave]
      /\ headerWave \in [Node -> [Block -> 0..MaxWave]]
      /\ breaks \in 0..MaxBreaks /\ restarts \in 0..MaxRestarts
  BY ConstantTypes DEF Init
<1>2. DOMAIN refs \subseteq Block /\ refs \in [DOMAIN refs -> SUBSET Hash]
  BY ConstantTypes DEF Init
<1>3. chan \in [Node \X Node -> Seq(Message)]
  BY DEF Init
<1>4. dag \in [Node -> SUBSET Block]
  BY ConstantTypes, Zenon DEF Init
<1>5. conn \in [Node -> [Node -> {"none", "up", "broken"}]]
  BY Zenon DEF Init
<1>6. QED
  BY <1>1, <1>2, <1>3, <1>4, <1>5 DEF Init, TypeOK

\* processWave, in each of its ends, keeps the types.
LEMMA ProcessWaveType ==
  ASSUME TypeOK, NEW n \in Node, NEW w \in Wave, processWave(n, w)
  PROVE  TypeOK'
<1>1. /\ processing' \in [Node -> SUBSET Wave]
      /\ UNCHANGED <<currentWave, confirmedBlocks, cleaning, dag, refs, conn, breaks, restarts>>
  BY Zenon DEF processWave, endProcessing, TypeOK, bounds
<1>2. CASE processNoBlocks(n, w)
  BY <1>1, <1>2, Zenon DEF processNoBlocks, TypeOK
<1>3. CASE processEmptyWave(n, w)
  BY <1>1, <1>3 DEF processEmptyWave, TypeOK
<1>4. ASSUME NEW b \in AnyBlock, InProcess => b \in Block, propose(n, w, b)
      PROVE  TypeOK'
  BY <1>1, <1>4, ProposeType, Zenon DEF TypeOK, Channels
<1>5. CASE processSelected(n, w)
  <2>1. PICK b \in candidateBlocks(n) : propose(n, w, b)
    BY <1>5, Zenon DEF processSelected
  <2>2. b \in Block
    BY <2>1, Zenon DEF candidateBlocks, TypeOK
  <2>3. QED
    BY <2>1, <2>2, <1>4, Zenon DEF AnyBlock
<1>6. CASE processFallback(n, w)
  BY <1>4, <1>6, ConstantTypes, Zenon DEF processFallback, AnyBlock
<1>7. QED
  BY <1>2, <1>3, <1>5, <1>6, Zenon DEF processWave

\* A received message, vote or block, keeps the types.
LEMMA ReceiveType ==
  ASSUME TypeOK, NEW n \in Node, NEW s \in Node,
         handleReceivedVote(n, s) \/ handleReceivedWaveBlocks(n, s)
  PROVE  TypeOK'
<1>1. chan \in Channels
  BY Zenon DEF TypeOK, Channels
<1>2. /\ received(s, n) \in Channels
      /\ Head(chan[<<s, n>>]) \in Message
  BY <1>1, ReceivedType, Zenon DEF handleReceivedVote, handleReceivedWaveBlocks, incoming
<1>3. CASE handleReceivedVote(n, s)
  <2>1. Head(chan[<<s, n>>]).vote \in Vote
    BY <1>2, <1>3 DEF handleReceivedVote, incoming, Message
  <2>2. waveVotes' \in [Node -> SUBSET Vote] /\ checking' \in [Node -> SUBSET Wave]
    <3> DEFINE vote == Head(chan[<<s, n>>]).vote
    <3>1. \/ /\ waveVotes' = [waveVotes EXCEPT ![n] = @ \cup {vote}]
             /\ checking' = [checking EXCEPT ![n] = @ \cup {vote.wave}]
          \/ UNCHANGED <<waveVotes, checking>>
      BY <1>3, Zenon DEF handleReceivedVote
    <3>2. vote \in Vote /\ vote.wave \in Wave
      BY <2>1, Zenon DEF Vote
    <3> HIDE DEF vote
    <3>3. /\ [waveVotes EXCEPT ![n] = @ \cup {vote}] \in [Node -> SUBSET Vote]
          /\ [checking EXCEPT ![n] = @ \cup {vote.wave}] \in [Node -> SUBSET Wave]
      BY <3>2, Zenon DEF TypeOK
    <3>4. QED
      BY <3>1, <3>3, Zenon DEF TypeOK
  <2>3. chan' \in [Node \X Node -> Seq(Message)]
    BY <1>2, <1>3, Zenon DEF handleReceivedVote, Channels
  <2>4. UNCHANGED <<currentWave, finalizedWaves, waveBlocks, confirmedBlocks, processing,
                    broadcasting, cleaning, dag, headerWave, refs, conn, cast, breaks, restarts>>
    BY <1>3 DEF handleReceivedVote, dagState, bounds
  <2>5. QED
    BY <2>2, <2>3, <2>4, Zenon DEF TypeOK
<1>4. CASE handleReceivedWaveBlocks(n, s)
  <2> DEFINE msg == Head(chan[<<s, n>>])
  <2>1. msg.wave \in Wave /\ msg.block \in AnyBlock
    BY <1>2, <1>4, Zenon DEF handleReceivedWaveBlocks, incoming, Message
  <2>2. /\ waveVotes' \in [Node -> SUBSET Vote]
        /\ chan' \in Channels
        /\ checking' \in [Node -> SUBSET Wave]
        /\ cast' \subseteq Vote
    <3>1. CASE voteOnBlock(received(s, n), n, msg.wave, msg.block)
      BY <1>2, <2>1, <3>1, VoteOnBlockType, Zenon
    <3>2. CASE chan' = received(s, n) /\ UNCHANGED <<waveVotes, checking, cast>>
      BY <1>2, <3>2, Zenon DEF TypeOK
    <3>3. QED
      BY <1>4, <3>1, <3>2, Zenon DEF handleReceivedWaveBlocks
  <2>3. QED
    BY <1>4, <2>2, Zenon DEF handleReceivedWaveBlocks, TypeOK, Channels, dagState, bounds
<1>5. QED
  BY <1>3, <1>4, Zenon

\* Finalizing a wave and confirming its block keeps the types.
LEMMA CheckType ==
  ASSUME TypeOK, NEW n \in Node, NEW w \in Wave, checkWaveFinalization(n, w)
  PROVE  TypeOK'
<1>1. confirmedBlocks' \in [Node -> SUBSET Hash]
  <2>1. CASE UNCHANGED confirmedBlocks
    BY <2>1, Zenon DEF TypeOK
  <2>2. CASE w \in ledWaves(n) /\ \E recent \in recentBlocks(n) :
               confirmedBlocks' = [confirmedBlocks EXCEPT
                                     ![n] = confirmBlockAndReferences(n, w, recent)]
    BY <2>2, ConfirmType DEF TypeOK
  <2>3. QED
    BY <2>1, <2>2, Zenon DEF checkWaveFinalization
<1>2. finalizedWaves' \in [Node -> SUBSET Wave]
  <2>1. \/ finalizedWaves' = [finalizedWaves EXCEPT ![n] = @ \cup {w}]
        \/ finalizedWaves' = finalizedWaves
    BY Zenon DEF checkWaveFinalization
  <2>2. [finalizedWaves EXCEPT ![n] = @ \cup {w}] \in [Node -> SUBSET Wave]
    BY Zenon DEF TypeOK
  <2>3. QED
    BY <2>1, <2>2, Zenon DEF TypeOK
<1>3. checking' \in [Node -> SUBSET Wave]
  BY Zenon DEF checkWaveFinalization, TypeOK
<1>4. QED
  BY <1>1, <1>2, <1>3, Zenon DEF checkWaveFinalization, TypeOK, dagState, bounds

\* cleanupOldWaves only removes.
LEMMA CleanupType ==
  ASSUME TypeOK, NEW n \in Node, cleanupOldWaves(n)
  PROVE  TypeOK'
<1> DEFINE old == oldWaves(n)
<1>1. /\ waveBlocks' = [waveBlocks EXCEPT ![n] = [w \in Wave |-> IF w \in old THEN None ELSE @[w]]]
      /\ waveVotes' = [waveVotes EXCEPT ![n] = {v \in @ : v.wave \notin old}]
      /\ finalizedWaves' = [finalizedWaves EXCEPT ![n] = @ \ old]
      /\ cleaning' = [cleaning EXCEPT ![n] = FALSE]
      /\ UNCHANGED <<currentWave, processing, broadcasting, checking, dag, headerWave, refs, conn,
                     chan, cast, breaks, restarts>>
  BY Zenon DEF cleanupOldWaves, dagState, bounds
<1> HIDE DEF old
<1>2. waveBlocks' \in [Node -> [Wave -> AnyBlock \cup {None}]]
  BY <1>1, Zenon DEF TypeOK
<1>3. waveVotes' \in [Node -> SUBSET Vote]
  BY <1>1, Zenon DEF TypeOK
<1>4. finalizedWaves' \in [Node -> SUBSET Wave] /\ cleaning' \in [Node -> BOOLEAN]
  BY <1>1, Zenon DEF TypeOK
<1>5. confirmedBlocks' \in [Node -> SUBSET Hash]
  <2>1. PICK K \in keptConfirmed(n) : confirmedBlocks' = [confirmedBlocks EXCEPT ![n] = K]
    BY Zenon DEF cleanupOldWaves
  <2>2. K \subseteq confirmedBlocks[n]
    BY <2>1, Zenon DEF keptConfirmed
  <2>3. QED
    BY <2>1, <2>2 DEF TypeOK
<1>6. QED
  BY <1>1, <1>2, <1>3, <1>4, <1>5, Zenon DEF TypeOK

\* A block added by DAG sync keeps the types.
LEMMA DagType ==
  ASSUME TypeOK, NEW n \in Node, NEW b \in Block, dagAddBlock(n, b)
  PROVE  TypeOK'
<1>1. dag' \in [Node -> SUBSET Block]
  <2>1. PICK D \in cleanupOldBlocks(n, dag[n] \cup {b}) : dag' = [dag EXCEPT ![n] = D]
    BY Zenon DEF dagAddBlock
  <2>2. D \subseteq dag[n] \cup {b}
    BY <2>1, Zenon DEF cleanupOldBlocks
  <2>3. QED
    BY <2>1, <2>2 DEF TypeOK
<1>2. DOMAIN refs' \subseteq Block /\ refs' \in [DOMAIN refs' -> SUBSET Hash]
  <2>1. CASE UNCHANGED refs
    BY <2>1, Zenon DEF TypeOK
  <2>2. ASSUME NEW prev \in SUBSET DOMAIN refs,
               refs' = [c \in DOMAIN refs \cup {b} |->
                          IF c = b THEN hashesOf(n, prev) ELSE refs[c]]
        PROVE  DOMAIN refs' \subseteq Block /\ refs' \in [DOMAIN refs' -> SUBSET Hash]
    <3>1. hashesOf(n, prev) \subseteq Hash
      BY DEF hashesOf, dagHash, ComputeHash, Hash, TypeOK, AnyBlock
    <3>2. QED
      BY <2>2, <3>1, Zenon DEF TypeOK
  <2>3. \/ UNCHANGED refs
        \/ \E prev \in SUBSET DOMAIN refs :
             refs' = [c \in DOMAIN refs \cup {b} |->
                        IF c = b THEN hashesOf(n, prev) ELSE refs[c]]
    BY Zenon DEF dagAddBlock
  <2>4. QED
    BY <2>1, <2>2, <2>3, Zenon
<1>3. QED
  BY <1>1, <1>2, Zenon DEF dagAddBlock, TypeOK, local, goroutines, bounds

\* Failures and restarts keep the types.
LEMMA FailureType ==
  ASSUME TypeOK, NEW n \in Node, NEW d \in Node, breakConnection(n, d) \/ restart(n)
  PROVE  TypeOK'
<1>1. CASE breakConnection(n, d)
  <2>1. PICK k \in 0..Len(chan[<<n, d>>]) : chan' = [chan EXCEPT ![<<n, d>>] = SubSeq(@, 1, k)]
    BY <1>1, Zenon DEF breakConnection
  <2>2. SubSeq(chan[<<n, d>>], 1, k) \in Seq(Message)
    BY <2>1, PrefixContents, Zenon DEF TypeOK
  <2>3. chan' \in [Node \X Node -> Seq(Message)]
    BY <2>1, <2>2, Zenon DEF TypeOK
  <2>4. breaks' \in 0..MaxBreaks
    <3>1. breaks < MaxBreaks /\ breaks' = breaks + 1
      BY <1>1, Zenon DEF breakConnection
    <3>2. breaks \in 0..MaxBreaks /\ MaxBreaks \in Nat
      BY ConstantTypes, Zenon DEF TypeOK
    <3>3. QED
      BY <3>1, <3>2
  <2>5. conn' \in [Node -> [Node -> {"none", "up", "broken"}]]
    BY <1>1, Zenon DEF breakConnection, TypeOK
  <2>6. QED
    BY <1>1, <2>3, <2>4, <2>5, Zenon DEF breakConnection, TypeOK, local, goroutines, dagState
<1>2. CASE restart(n)
  <2>1. /\ currentWave' \in [Node -> 0..MaxWave]
        /\ headerWave' \in [Node -> [Block -> 0..MaxWave]]
        /\ restarts' \in 0..MaxRestarts
    <3>1. /\ restarts < MaxRestarts /\ restarts' = restarts + 1
          /\ currentWave' = [currentWave EXCEPT ![n] = 0]
          /\ headerWave' = [headerWave EXCEPT ![n] = [b \in Block |-> 0]]
      BY <1>2, Zenon DEF restart
    <3>2. /\ currentWave \in [Node -> 0..MaxWave]
          /\ headerWave \in [Node -> [Block -> 0..MaxWave]]
          /\ restarts \in 0..MaxRestarts
      BY Zenon DEF TypeOK
    <3>3. MaxRestarts \in Nat /\ 0 \in 0..MaxWave
      BY ConstantTypes
    <3>4. QED
      BY <3>1, <3>2, <3>3
  <2>2. chan' \in [Node \X Node -> Seq(Message)]
    BY <1>2 DEF restart, TypeOK
  <2>3. conn' \in [Node -> [Node -> {"none", "up", "broken"}]]
    BY <1>2 DEF restart, TypeOK
  <2>4. /\ waveBlocks' \in [Node -> [Wave -> AnyBlock \cup {None}]]
        /\ dag' \in [Node -> SUBSET Block]
    BY <1>2, Zenon DEF restart, TypeOK
  <2>5. /\ finalizedWaves' \in [Node -> SUBSET Wave]
        /\ waveVotes' \in [Node -> SUBSET Vote]
        /\ confirmedBlocks' \in [Node -> SUBSET Hash]
        /\ processing' \in [Node -> SUBSET Wave]
        /\ broadcasting' \in [Node -> SUBSET (Wave \X AnyBlock)]
        /\ checking' \in [Node -> SUBSET Wave]
        /\ cleaning' \in [Node -> BOOLEAN]
    BY <1>2, Zenon DEF restart, TypeOK
  <2>6. QED
    BY <1>2, <2>1, <2>2, <2>3, <2>4, <2>5, Zenon DEF restart, TypeOK
<1>3. QED
  BY <1>1, <1>2

\* Every step of the service keeps the types.
LEMMA StepType == TypeOK /\ [Next]_vars => TypeOK'
<1> SUFFICES ASSUME TypeOK, [Next]_vars PROVE TypeOK'
  BY Zenon
<1>1. CASE UNCHANGED vars
  BY <1>1 DEF vars, local, goroutines, dagState, bounds, TypeOK
<1>2. ASSUME NEW n \in Node, advanceWave(n) PROVE TypeOK'
  <2>1. /\ currentWave' = [currentWave EXCEPT ![n] = currentWave[n] + 1]
        /\ currentWave[n] + 1 \in Wave
    BY <1>2, Zenon DEF advanceWave
  <2>2. currentWave' \in [Node -> 0..MaxWave]
    <3>1. currentWave \in [Node -> 0..MaxWave]
      BY Zenon DEF TypeOK
    <3>2. QED
      BY <2>1, <3>1, ConstantTypes DEF Wave
  <2>3. processing' \in [Node -> SUBSET Wave]
    <3>1. processing \in [Node -> SUBSET Wave]
      BY Zenon DEF TypeOK
    <3>2. \/ processing' = processing
          \/ processing' = [processing EXCEPT ![n] = @ \cup {currentWave[n] + 1}]
      BY <1>2, <3>1, Zenon DEF advanceWave
    <3>3. QED
      BY <2>1, <3>1, <3>2
  <2>4. cleaning' \in [Node -> BOOLEAN]
    BY <1>2 DEF advanceWave, TypeOK
  <2>5. QED
    BY <1>2, <2>2, <2>3, <2>4, Zenon DEF advanceWave, TypeOK, dagState, bounds
<1>3. ASSUME NEW n \in Node, NEW w \in Wave, NEW b \in AnyBlock, broadcastWaveBlocks(n, w, b)
      PROVE  TypeOK'
  <2>1. BlocksMsg(w, b, n) \in Message
    BY DEF BlocksMsg, Message
  <2>2. chan' \in [Node \X Node -> Seq(Message)]
    BY <1>3, <2>1, BroadcastType, Zenon DEF broadcastWaveBlocks, TypeOK, Channels
  <2>3. broadcasting' \in [Node -> SUBSET (Wave \X AnyBlock)]
    BY <1>3, Zenon DEF broadcastWaveBlocks, TypeOK
  <2>4. QED
    BY <1>3, <2>2, <2>3 DEF broadcastWaveBlocks, TypeOK, local, dagState, bounds
<1>4. ASSUME NEW n \in Node, NEW d \in Node, connectToPeer(n, d) PROVE TypeOK'
  BY <1>4, Zenon DEF connectToPeer, TypeOK, local, goroutines, dagState, bounds
<1>5. QED
  BY <1>1, <1>2, <1>3, <1>4, ProcessWaveType, CheckType, ReceiveType, CleanupType, FailureType,
     DagType, Zenon DEF Next

\* The service never leaves the types of its state, whatever is lost, broken
\* or restarted, for any validators, blocks and number of waves.
THEOREM TypeCorrect == Spec => []TypeOK
<1>1. QED
  BY InitType, StepType, PTL DEF Spec

-----------------------------------------------------------------------------
(* Votes follow the leader.  What has to be carried along is that stored and *)
(* travelling votes were cast, and that every block that travels, or waits   *)
(* to be sent, is one its sender has voted for.                              *)

backed(s, wave, block) ==
  [wave |-> wave, hash |-> voteHash(block, wave), voter |-> s] \in cast

genuine(m) ==
  /\ m.type = "vote" => m.vote \in cast
  /\ m.type = "wave_blocks" => backed(m.validator, m.wave, m.block)

genuineIn(channels) == \A p \in Node \X Node : \A m \in contents(channels[p]) : genuine(m)

FollowInv ==
  /\ \A n \in Node : waveVotes[n] \subseteq cast
  /\ genuineIn(chan)
  /\ \A n \in Node : \A w \in Wave, b \in AnyBlock : <<w, b>> \in broadcasting[n] => backed(n, w, b)
  /\ \A n \in Node : \A w \in processing[n] : isWaveLeader(n, w)
  /\ VotesFollowLeader

\* Votes are never taken back, so what was genuine stays so.
LEMMA GenuineStays ==
  ASSUME NEW channels, genuineIn(channels), cast \subseteq cast'
  PROVE  \A p \in Node \X Node : \A m \in contents(channels[p]) : genuine(m)'
  BY Zenon DEF genuineIn, genuine, backed

\* broadcastMessage puts one message into some channels.
LEMMA BroadcastContents ==
  ASSUME NEW channels \in Channels, NEW n \in Node, NEW msg \in Message,
         NEW p \in Node \X Node
  PROVE  contents(broadcastMessage(channels, n, msg)[p]) \subseteq contents(channels[p]) \cup {msg}
  BY AppendContents DEF broadcastMessage, Channels

\* Reading a message leaves the others.
LEMMA ReceivedContents ==
  ASSUME chan \in Channels, NEW s \in Node, NEW n \in Node, chan[<<s, n>>] # <<>>
  PROVE  /\ \A p \in Node \X Node : contents(received(s, n)[p]) \subseteq contents(chan[p])
         /\ Head(chan[<<s, n>>]) \in contents(chan[<<s, n>>])
  BY TailContents, Zenon DEF received, Channels

\* A vote cast in voteOnBlock for a block that the leader of the wave votes for
\* keeps the first, second and last part of the invariant.
LEMMA VoteFollows ==
  ASSUME TypeOK, FollowInv, NEW channels \in Channels, genuineIn(channels),
         NEW n \in Node, NEW wave \in Wave, NEW block \in AnyBlock,
         voteOnBlock(channels, n, wave, block),
         NEW leader \in Node, isValidWaveLeader(n, leader, wave),
         leader = n \/ backed(leader, wave, block)
  PROVE  /\ cast \subseteq cast'
         /\ \A m \in Node : waveVotes'[m] \subseteq cast'
         /\ genuineIn(chan)'
         /\ VotesFollowLeader'
         /\ backed(n, wave, block)'
<1> DEFINE vote == [wave |-> wave, hash |-> voteHash(block, wave), voter |-> n]
<1>1. /\ cast' = cast \cup {vote}
      /\ waveVotes' = [waveVotes EXCEPT ![n] = @ \cup {vote}]
      /\ chan' = broadcastMessage(channels, n, VoteMsg(vote))
  BY Zenon DEF voteOnBlock
<1>2. vote \in Vote
  BY VoteHashType, Zenon DEF Vote
<1>3. \A m \in Node : waveVotes'[m] \subseteq cast'
  BY <1>1, Zenon DEF FollowInv, TypeOK
<1>4. backed(n, wave, block)'
  BY <1>1, Zenon DEF backed
<1>5. genuineIn(chan)'
  <2>1. VoteMsg(vote) \in Message /\ genuine(VoteMsg(vote))'
    BY <1>1, <1>2, Zenon DEF VoteMsg, Message, genuine
  <2>2. ASSUME NEW p \in Node \X Node, NEW m \in contents(chan'[p])
        PROVE  genuine(m)'
    <3>1. m \in contents(channels[p]) \/ m = VoteMsg(vote)
      BY <1>1, <2>1, BroadcastContents
    <3>2. QED
      BY <1>1, <2>1, <3>1, GenuineStays, Zenon
  <2>3. QED
    BY <2>2, Zenon DEF genuineIn
<1>6. VotesFollowLeader'
  <2>1. ASSUME NEW v \in cast' PROVE \E u \in cast' : /\ u.wave = v.wave /\ u.hash = v.hash
                                                     /\ isValidWaveLeader(v.voter, u.voter, v.wave)
    <3>1. CASE v \in cast
      BY <1>1, <3>1, Zenon DEF FollowInv, VotesFollowLeader
    <3>2. CASE v = vote
      <4>1. PICK u \in cast' : u.wave = wave /\ u.hash = voteHash(block, wave) /\ u.voter = leader
        BY <1>1 DEF backed
      <4>2. QED
        BY <3>2, <4>1, Zenon
    <3>3. QED
      BY <1>1, <3>1, <3>2, Zenon
  <2>2. QED
    BY <2>1 DEF VotesFollowLeader, isValidWaveLeader, getWaveLeader
<1>7. QED
  BY <1>1, <1>3, <1>4, <1>5, <1>6, Zenon

\* A step that casts no vote and sends nothing keeps the invariant, if stored
\* votes, blocks to send and started goroutines were there before.
LEMMA QuietFollows ==
  ASSUME FollowInv, cast' = cast,
         \A n \in Node : waveVotes'[n] \subseteq cast,
         \A p \in Node \X Node : contents(chan'[p]) \subseteq contents(chan[p]),
         \A n \in Node : broadcasting'[n] \subseteq broadcasting[n],
         \A n \in Node : \A w \in processing'[n] : isWaveLeader(n, w)
  PROVE  FollowInv'
<1>1. genuineIn(chan)'
  <2>1. \A p \in Node \X Node : \A m \in contents(chan[p]) : genuine(m)'
    BY GenuineStays, Zenon DEF FollowInv
  <2>2. QED
    BY <2>1, Zenon DEF genuineIn
<1>2. VotesFollowLeader'
  BY DEF FollowInv, VotesFollowLeader, isValidWaveLeader, getWaveLeader
<1>3. \A n \in Node : \A w \in Wave, b \in AnyBlock :
        <<w, b>> \in broadcasting'[n] => backed(n, w, b)'
  BY Zenon DEF FollowInv, backed
<1>4. \A n \in Node : \A w \in processing'[n] : isWaveLeader(n, w)'
  BY Zenon DEF isWaveLeader, getWaveLeader
<1>5. QED
  BY <1>1, <1>2, <1>3, <1>4, Zenon DEF FollowInv

\* processWave: the leader votes for the block it is about to send.
LEMMA ProcessWaveFollows ==
  ASSUME TypeOK, FollowInv, NEW n \in Node, NEW w \in Wave, processWave(n, w)
  PROVE  FollowInv'
<1>1. \A m \in Node : processing'[m] \subseteq processing[m]
  BY DEF processWave, endProcessing, TypeOK
<1>2. \A m \in Node : \A x \in processing'[m] : isWaveLeader(m, x)
  BY <1>1, Zenon DEF FollowInv
<1>3. CASE processNoBlocks(n, w) \/ processEmptyWave(n, w)
  <2>1. UNCHANGED <<waveVotes, chan, cast, broadcasting>>
    BY <1>3 DEF processNoBlocks, processEmptyWave
  <2>2. QED
    BY <1>2, <2>1, QuietFollows, Zenon DEF FollowInv
<1>4. ASSUME NEW b \in AnyBlock, propose(n, w, b)
      PROVE  FollowInv'
  <2>1. isValidWaveLeader(n, n, w)
    BY Zenon DEF processWave, FollowInv, isWaveLeader, isValidWaveLeader
  <2>2. chan \in Channels /\ genuineIn(chan) /\ voteOnBlock(chan, n, w, b)
    BY <1>4, Zenon DEF TypeOK, Channels, FollowInv, propose
  <2>3. /\ cast \subseteq cast'
        /\ \A m \in Node : waveVotes'[m] \subseteq cast'
        /\ genuineIn(chan)'
        /\ VotesFollowLeader'
        /\ backed(n, w, b)'
    BY <2>1, <2>2, VoteFollows, Zenon
  <2>4. \A m \in Node : \A x \in Wave, c \in AnyBlock :
          <<x, c>> \in broadcasting'[m] => backed(m, x, c)'
    <3>1. SUFFICES ASSUME NEW m \in Node, NEW x \in Wave, NEW c \in AnyBlock,
                          <<x, c>> \in broadcasting'[m]
                   PROVE  backed(m, x, c)'
      BY Zenon
    <3>2. <<x, c>> \in broadcasting[m] \/ (m = n /\ x = w /\ c = b)
      BY <1>4, <3>1, Zenon DEF propose, TypeOK
    <3>3. QED
      BY <2>3, <3>2, Zenon DEF FollowInv, backed
  <2>5. QED
    BY <1>2, <2>3, <2>4, Zenon DEF FollowInv, isWaveLeader, getWaveLeader
<1>5. CASE processSelected(n, w)
  <2>1. PICK b \in candidateBlocks(n) : propose(n, w, b)
    BY <1>5, Zenon DEF processSelected
  <2>2. b \in AnyBlock
    BY <2>1, Zenon DEF candidateBlocks, TypeOK, AnyBlock
  <2>3. QED
    BY <1>4, <2>1, <2>2, Zenon
<1>6. CASE processFallback(n, w)
  BY <1>4, <1>6 DEF processFallback, AnyBlock
<1>7. QED
  BY <1>3, <1>5, <1>6, Zenon DEF processWave

\* A received block is voted for only if it comes from the wave's leader.
LEMMA ReceiveFollows ==
  ASSUME TypeOK, FollowInv, NEW n \in Node, NEW s \in Node,
         handleReceivedVote(n, s) \/ handleReceivedWaveBlocks(n, s)
  PROVE  FollowInv'
<1> DEFINE msg == Head(chan[<<s, n>>])
<1>1. chan \in Channels /\ chan[<<s, n>>] # <<>>
  BY DEF TypeOK, Channels, handleReceivedVote, handleReceivedWaveBlocks, incoming
<1>2. /\ received(s, n) \in Channels
      /\ msg \in Message
      /\ \A p \in Node \X Node : contents(received(s, n)[p]) \subseteq contents(chan[p])
      /\ msg \in contents(chan[<<s, n>>])
  BY <1>1, ReceivedType, ReceivedContents, Zenon
<1>3. genuine(msg)
  BY <1>2 DEF FollowInv, genuineIn
<1>4. \A m \in Node : \A w \in processing'[m] : isWaveLeader(m, w)
  BY Zenon DEF handleReceivedVote, handleReceivedWaveBlocks, FollowInv
<1>5. UNCHANGED broadcasting
  BY Zenon DEF handleReceivedVote, handleReceivedWaveBlocks
<1> HIDE DEF msg
<1>6. CASE handleReceivedVote(n, s)
  <2>1. msg.vote \in cast
    BY <1>3, <1>6 DEF handleReceivedVote, incoming, genuine, msg
  <2>2. /\ \/ waveVotes' = [waveVotes EXCEPT ![n] = @ \cup {msg.vote}]
           \/ waveVotes' = waveVotes
        /\ chan' = received(s, n)
        /\ cast' = cast
    BY <1>6, Zenon DEF handleReceivedVote, msg
  <2>3. \A m \in Node : waveVotes'[m] \subseteq cast
    <3>1. CASE waveVotes' = [waveVotes EXCEPT ![n] = @ \cup {msg.vote}]
      BY <2>1, <3>1, Zenon DEF FollowInv, TypeOK
    <3>2. CASE waveVotes' = waveVotes
      BY <3>2, Zenon DEF FollowInv
    <3>3. QED
      BY <2>2, <3>1, <3>2, Zenon
  <2>4. QED
    BY <1>2, <1>4, <1>5, <2>2, <2>3, QuietFollows, Zenon
<1>7. CASE handleReceivedWaveBlocks(n, s)
  <2>1. /\ msg.wave \in Wave /\ msg.block \in AnyBlock /\ msg.validator \in Node
        /\ backed(msg.validator, msg.wave, msg.block)
    BY <1>2, <1>3, <1>7, Zenon DEF handleReceivedWaveBlocks, incoming, Message, genuine, msg
  <2>2. CASE /\ isValidWaveLeader(n, msg.validator, msg.wave)
             /\ voteOnBlock(received(s, n), n, msg.wave, msg.block)
    <3>1. genuineIn(received(s, n))
      BY <1>2, Zenon DEF FollowInv, genuineIn
    <3>2. /\ cast \subseteq cast'
          /\ \A m \in Node : waveVotes'[m] \subseteq cast'
          /\ genuineIn(chan)'
          /\ VotesFollowLeader'
      BY <1>2, <2>1, <2>2, <3>1, VoteFollows, Zenon
    <3>3. QED
      BY <1>4, <1>5, <3>2, Zenon DEF FollowInv, backed, isWaveLeader, getWaveLeader
  <2>3. CASE chan' = received(s, n) /\ UNCHANGED <<waveVotes, checking, cast>>
    BY <1>2, <1>4, <1>5, <2>3, QuietFollows, Zenon DEF FollowInv
  <2>4. QED
    BY <1>7, <2>2, <2>3 DEF handleReceivedWaveBlocks, msg
<1>8. QED
  BY <1>6, <1>7, Zenon

\* Every step of the service keeps the invariant.
LEMMA StepFollows == TypeOK /\ FollowInv /\ [Next]_vars => FollowInv'
<1> SUFFICES ASSUME TypeOK, FollowInv, [Next]_vars PROVE FollowInv'
  BY Zenon
<1>1. ASSUME UNCHANGED <<waveVotes, chan, broadcasting, processing, cast>> PROVE FollowInv'
  BY <1>1, QuietFollows, Zenon DEF FollowInv
<1>2. CASE UNCHANGED vars
  BY <1>1, <1>2, Zenon DEF vars, local, goroutines
<1>3. ASSUME NEW n \in Node, advanceWave(n) PROVE FollowInv'
  <2>1. \A m \in Node : \A w \in processing'[m] : isWaveLeader(m, w)
    BY <1>3, Zenon DEF advanceWave, FollowInv, TypeOK
  <2>2. UNCHANGED <<waveVotes, chan, broadcasting, cast>>
    BY <1>3 DEF advanceWave
  <2>3. QED
    BY <2>1, <2>2, QuietFollows, Zenon DEF FollowInv
<1>4. ASSUME NEW n \in Node, NEW w \in Wave, NEW b \in AnyBlock, broadcastWaveBlocks(n, w, b)
      PROVE  FollowInv'
  <2>1. backed(n, w, b)
    BY <1>4, Zenon DEF broadcastWaveBlocks, FollowInv
  <2>2. /\ chan' = broadcastMessage(chan, n, BlocksMsg(w, b, n))
        /\ \A m \in Node : broadcasting'[m] \subseteq broadcasting[m]
        /\ UNCHANGED <<waveVotes, processing, cast>>
    BY <1>4, Zenon DEF broadcastWaveBlocks, TypeOK, local
  <2>3. BlocksMsg(w, b, n) \in Message /\ genuine(BlocksMsg(w, b, n))
    BY <2>1 DEF BlocksMsg, Message, genuine
  <2>4. genuineIn(chan)'
    <3>1. ASSUME NEW p \in Node \X Node, NEW m \in contents(chan'[p]) PROVE genuine(m)'
      <4>1. m \in contents(chan[p]) \/ m = BlocksMsg(w, b, n)
        <5>1. chan \in Channels
          BY Zenon DEF TypeOK, Channels
        <5>2. QED
          BY <2>2, <2>3, <5>1, BroadcastContents
      <4>2. genuine(m)
        BY <2>3, <4>1 DEF FollowInv, genuineIn
      <4>3. QED
        BY <2>2, <4>2, Zenon DEF genuine, backed
    <3>2. QED
      BY <3>1, Zenon DEF genuineIn
  <2>5. QED
    BY <2>2, <2>4, Zenon DEF FollowInv, backed, VotesFollowLeader, isValidWaveLeader, isWaveLeader,
                      getWaveLeader
<1>5. ASSUME NEW n \in Node, NEW d \in Node, breakConnection(n, d) PROVE FollowInv'
  <2>1. PICK k \in 0..Len(chan[<<n, d>>]) : chan' = [chan EXCEPT ![<<n, d>>] = SubSeq(@, 1, k)]
    BY <1>5, Zenon DEF breakConnection
  <2>2. \A p \in Node \X Node : contents(chan'[p]) \subseteq contents(chan[p])
    BY <2>1, PrefixContents, Zenon DEF TypeOK
  <2>3. UNCHANGED <<waveVotes, broadcasting, processing, cast>>
    BY <1>5 DEF breakConnection, local, goroutines
  <2>4. QED
    BY <2>2, <2>3, QuietFollows, Zenon DEF FollowInv
<1>6. ASSUME NEW n \in Node, restart(n) PROVE FollowInv'
  <2>1. \A p \in Node \X Node : contents(chan'[p]) \subseteq contents(chan[p])
    BY <1>6 DEF restart, contents
  <2>2. /\ cast' = cast
        /\ \A m \in Node : waveVotes'[m] \subseteq waveVotes[m]
        /\ \A m \in Node : broadcasting'[m] \subseteq broadcasting[m]
        /\ \A m \in Node : processing'[m] \subseteq processing[m]
    BY <1>6, Zenon DEF restart, TypeOK
  <2>3. QED
    BY <2>1, <2>2, QuietFollows, Zenon DEF FollowInv
<1>7. ASSUME NEW n \in Node, cleanupOldWaves(n) PROVE FollowInv'
  <2>1. \A m \in Node : waveVotes'[m] \subseteq waveVotes[m]
    BY <1>7, Zenon DEF cleanupOldWaves, TypeOK
  <2>2. UNCHANGED <<chan, broadcasting, processing, cast>>
    BY <1>7, Zenon DEF cleanupOldWaves
  <2>3. QED
    BY <2>1, <2>2, QuietFollows, Zenon DEF FollowInv
<1>8. ASSUME NEW n \in Node, NEW w \in Wave, checkWaveFinalization(n, w) PROVE FollowInv'
  BY <1>1, <1>8, Zenon DEF checkWaveFinalization
<1>9. ASSUME NEW n \in Node, NEW d \in Node, connectToPeer(n, d) PROVE FollowInv'
  BY <1>1, <1>9 DEF connectToPeer, local, goroutines
<1>10. ASSUME NEW n \in Node, NEW b \in Block, dagAddBlock(n, b) PROVE FollowInv'
  BY <1>1, <1>10, Zenon DEF dagAddBlock, local, goroutines
<1>11. QED
  BY <1>2, <1>3, <1>4, <1>5, <1>6, <1>7, <1>8, <1>9, <1>10, ProcessWaveFollows, ReceiveFollows, Zenon
     DEF Next

\* The invariant holds when the waves start.
LEMMA InitFollows == Init => FollowInv
<1> SUFFICES ASSUME Init PROVE FollowInv
  OBVIOUS
<1>1. cast = {} /\ \A n \in Node : waveVotes[n] = {} /\ broadcasting[n] = {} /\ processing[n] = {}
  BY Zenon DEF Init
<1>2. \A p \in Node \X Node : contents(chan[p]) = {}
  <2>1. chan = [p \in Node \X Node |-> <<>>]
    BY Zenon DEF Init
  <2>2. QED
    BY <2>1 DEF contents
<1>3. VotesFollowLeader
  BY <1>1 DEF VotesFollowLeader
<1>4. QED
  BY <1>1, <1>2, <1>3, Zenon DEF FollowInv, genuineIn

\* Nobody ever votes for a block that the leader of the wave, as the voter
\* knows it, has not voted for: voteOnBlock runs only in a leader's processWave
\* and behind handleReceivedWaveBlocks' check of the sender.
THEOREM VotesAlwaysFollowLeader == Spec => []VotesFollowLeader
<1>1. FollowInv => VotesFollowLeader
  BY Zenon DEF FollowInv
<1>2. QED
  BY <1>1, InitType, StepType, InitFollows, StepFollows, PTL DEF Spec
============================================================================
