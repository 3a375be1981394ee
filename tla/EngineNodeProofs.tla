-------------------------- MODULE EngineNodeProofs --------------------------
(***************************************************************************)
(* Theorems about EngineNode, for every list of validators, all            *)
(* transactions and clients, and any number of waves and restarts: types,  *)
(* blocks from leaders, transactions that are not lost, and the accounts.  *)
(***************************************************************************)
EXTENDS EngineNode, TotalsProofs

\* The places of the loop between the creation of a block and the end of its
\* broadcast.
Busy == {"created", "sending", "waiting"}
\* Blocks from the leader of their wave, and their hashes.
LedBlock == {b \in BlockId : b[1] = leader(b[2])}
LedHash == LedBlock \X Signature
Message == [hash : LedHash, at : {"received", "verified", "stored"}]

\* The loop creates a block only in a wave that lets it.
LoopInv ==
  /\ life \in [Node -> Nat]
  /\ \A n \in Node : life[n] \in 0..MaxRestarts[n]
  /\ currentWave \in [Node -> WaveNo]
  /\ lastBlockCreationWave \in [Node -> 0..MaxWave]
  /\ DOMAIN task = Node
  /\ \A n \in Node : DOMAIN task[n] = {"at", "block", "todo"}
  /\ \A n \in Node : task[n].at = "creating" => mayPropose(n)

\* Blocks are from leaders, and made before they are sent.
BlockInv ==
  /\ made \subseteq LedBlock
  /\ references \in [BlockId -> SUBSET Hash]
  /\ DOMAIN transactions = BlockId
  /\ resigned \in [Node -> SUBSET made]
  /\ \A n \in Node : task[n].at \in Busy => task[n].block \in made

\* So are the blocks a validator keeps, handles and fetches.
EngineInv ==
  /\ dag \in [Node -> SUBSET LedHash]
  /\ proposals \in [Node -> SUBSET LedHash]
  /\ savedLeaderBlock \in [Node -> LedHash \cup {None}]
  /\ handlers \in [Node -> SUBSET Message]
  /\ syncs \in [Node -> [Node -> SUBSET LedHash]]

PoolTypes ==
  /\ mempool \in [Node -> [Tx -> {"absent", "pending", "included"}]]
  /\ workChan \in [Node -> [Tx -> Nat]]
  /\ submitted \in [Node -> [Tx -> Nat]]

\* A validator has made no block for a wave to come, and none for the current
\* wave unless it is sending it or has noted the wave.
Fresh(b) ==
  /\ b[3] <= life[b[1]]
  /\ b[3] = life[b[1]] =>
       /\ b[2] <= currentWave[b[1]]
       /\ b[2] = currentWave[b[1]] =>
            lastBlockCreationWave[b[1]] = currentWave[b[1]] \/ task[b[1]].at \in Busy
FreshInv == \A b \in made : Fresh(b)

Inv == LoopInv /\ BlockInv /\ EngineInv /\ PoolTypes /\ FreshInv /\ NoTransactionLost

-----------------------------------------------------------------------------
(* The operators *)

\* A new block has a name in BlockId.
LEMMA NewBlockId ==
  ASSUME LoopInv, NEW n \in Node
  PROVE  <<n, currentWave[n], life[n]>> \in BlockId
<1>1. life[n] \in 0..MaxRestarts[n] /\ currentWave[n] \in WaveNo
  BY Zenon DEF LoopInv
<1> QED BY <1>1, SMT DEF BlockId

\* It is from the leader of its wave.
LEMMA NewBlockLed ==
  ASSUME LoopInv, NEW n \in Node, CreateBlock(n)
  PROVE  <<n, currentWave[n], life[n]>> \in LedBlock
<1> DEFINE b == <<n, currentWave[n], life[n]>>
<1>1. leader(currentWave[n]) = n
  BY Zenon DEF CreateBlock, LoopInv, mayPropose
<1>2. b[1] = n /\ b[2] = currentWave[n]
  OBVIOUS
<1> QED BY NewBlockId, <1>1, <1>2, Zenon DEF LedBlock

\* The parts of a block's name.
LEMMA BlockIdParts ==
  ASSUME NEW b \in BlockId
  PROVE  b[1] \in Node /\ b[2] \in Nat /\ b[3] \in Nat
<1>1. PICK n \in Node : b \in {n} \X WaveNo \X (0..MaxRestarts[n])
  BY Zenon DEF BlockId
<1>2. MaxRestarts[n] \in Nat /\ MaxWave \in Nat
  BY Zenon, ConstantTypes
<1> QED BY <1>1, <1>2, SMT DEF WaveNo

\* AddBlock adds the block at most.
LEMMA AddBlockAdds ==
  ASSUME NEW n, NEW h, NEW D \in AddBlock(n, h)
  PROVE  D \subseteq dag[n] \cup {h}
BY Zenon DEF AddBlock, cleanupOldBlocks

\* What a validator shows of its DAG has the names of the blocks in it.
LEMMA RecentBlocks ==
  ASSUME NEW n, dag[n] \subseteq LedHash, NEW h \in GetRecentBlocks(n)
  PROVE  h \in LedHash
<1>1. PICK k \in dag[n] : h = hashOf(n, k)
  BY Zenon DEF GetRecentBlocks
<1>2. k \in LedHash
  BY <1>1, Zenon
<1>3. hashOf(n, k) \in LedHash
  <2>1. CASE k[1] \in resigned[n] /\ k[2] = "processor"
    BY <1>2, <2>1, SMT DEF hashOf, LedHash, Signature
  <2>2. CASE ~(k[1] \in resigned[n] /\ k[2] = "processor")
    BY <1>2, <2>2, Zenon DEF hashOf
  <2> QED BY <2>1, <2>2
<1> QED BY <1>1, <1>3

\* They are blocks and hashes.
LEMMA LedHashes == LedBlock \subseteq BlockId /\ LedHash \subseteq Hash
BY SMT DEF LedBlock, LedHash, Hash

-----------------------------------------------------------------------------
(* The loop of the wave manager *)

\* The loop of n only has moved.
LoopMoved(n) ==
  /\ DOMAIN task' = Node
  /\ \A m \in Node \ {n} : task'[m] = task[m]
  /\ DOMAIN task'[n] = {"at", "block", "todo"}

\* What the steps of the loop do to task, whatever else they do.
LEMMA TaskSteps ==
  ASSUME LoopInv, NEW n \in Node
  PROVE  /\ \A at : task' = [task EXCEPT ![n].at = at] =>
              LoopMoved(n) /\ task'[n].at = at /\ task'[n].block = task[n].block
         /\ \A at, todo : task' = [task EXCEPT ![n].at = at, ![n].todo = todo] =>
              LoopMoved(n) /\ task'[n].at = at /\ task'[n].block = task[n].block
         /\ \A todo : task' = [task EXCEPT ![n].todo = todo] =>
              LoopMoved(n) /\ task'[n].at = task[n].at /\ task'[n].block = task[n].block
         /\ task' = [task EXCEPT ![n] = idle] => LoopMoved(n) /\ task'[n].at = "loop"
         /\ \A b : task' = [task EXCEPT ![n] = [idle EXCEPT !.at = "created", !.block = b]] =>
              LoopMoved(n) /\ task'[n].at = "created" /\ task'[n].block = b
<1>1. DOMAIN task = Node /\ DOMAIN task[n] = {"at", "block", "todo"}
  BY Zenon DEF LoopInv
<1>2. ASSUME NEW r, task' = [task EXCEPT ![n] = r], DOMAIN r = {"at", "block", "todo"}
      PROVE  LoopMoved(n) /\ task'[n] = r
  BY <1>1, <1>2, SMT DEF LoopMoved
<1>3. ASSUME NEW at, task' = [task EXCEPT ![n].at = at]
      PROVE  LoopMoved(n) /\ task'[n].at = at /\ task'[n].block = task[n].block
  <2> DEFINE r == [task[n] EXCEPT !.at = at]
  <2>1. DOMAIN r = {"at", "block", "todo"} /\ r.at = at /\ r.block = task[n].block
    BY <1>1, SMT
  <2>2. task' = [task EXCEPT ![n] = r]
    BY <1>3
  <2> HIDE DEF r
  <2> QED BY <1>2, <2>1, <2>2, Zenon
<1>4. ASSUME NEW at, NEW todo, task' = [task EXCEPT ![n].at = at, ![n].todo = todo]
      PROVE  LoopMoved(n) /\ task'[n].at = at /\ task'[n].block = task[n].block
  <2> DEFINE r == [task[n] EXCEPT !.at = at, !.todo = todo]
  <2>1. DOMAIN r = {"at", "block", "todo"} /\ r.at = at /\ r.block = task[n].block
    BY <1>1, SMT
  <2>2. DOMAIN task' = Node /\ task'[n] = r
    BY <1>1, <1>4, SMT
  <2>3. ASSUME NEW m \in Node \ {n}
        PROVE  task'[m] = task[m]
    BY <1>1, <1>4, SMT
  <2> HIDE DEF r
  <2> QED BY <2>1, <2>2, <2>3, Zenon DEF LoopMoved
<1>5. ASSUME NEW todo, task' = [task EXCEPT ![n].todo = todo]
      PROVE  LoopMoved(n) /\ task'[n].at = task[n].at /\ task'[n].block = task[n].block
  <2> DEFINE r == [task[n] EXCEPT !.todo = todo]
  <2>1. DOMAIN r = {"at", "block", "todo"} /\ r.at = task[n].at /\ r.block = task[n].block
    BY <1>1, SMT
  <2>2. task' = [task EXCEPT ![n] = r]
    BY <1>5
  <2> HIDE DEF r
  <2> QED BY <1>2, <2>1, <2>2, Zenon
<1>6. ASSUME task' = [task EXCEPT ![n] = idle]
      PROVE  LoopMoved(n) /\ task'[n].at = "loop"
  <2>1. DOMAIN idle = {"at", "block", "todo"} /\ idle.at = "loop"
    BY SMT DEF idle
  <2> QED BY <1>2, <1>6, <2>1, Zenon
<1>7. ASSUME NEW b, task' = [task EXCEPT ![n] = [idle EXCEPT !.at = "created", !.block = b]]
      PROVE  LoopMoved(n) /\ task'[n].at = "created" /\ task'[n].block = b
  <2> DEFINE r == [idle EXCEPT !.at = "created", !.block = b]
  <2>1. DOMAIN r = {"at", "block", "todo"} /\ r.at = "created" /\ r.block = b
    BY SMT DEF idle
  <2>2. task' = [task EXCEPT ![n] = r]
    BY <1>7
  <2> HIDE DEF r
  <2> QED BY <1>2, <2>1, <2>2, Zenon
<1> QED BY <1>3, <1>4, <1>5, <1>6, <1>7, Zenon

\* Sending keeps the block.
LEMMA SendSteps ==
  ASSUME LoopInv, NEW n \in Node
  PROVE  /\ BroadcastBlock(n) =>
              LoopMoved(n) /\ task'[n].at = "sending" /\ task'[n].block = task[n].block
         /\ toNextValidator(n) =>
              LoopMoved(n) /\ task'[n].at = "sending" /\ task'[n].block = task[n].block
         /\ sendProposal(n) =>
              /\ LoopMoved(n) /\ task'[n].at \in {"sending", "waiting"}
              /\ task'[n].block = task[n].block
<1>1. ASSUME BroadcastBlock(n)
      PROVE  LoopMoved(n) /\ task'[n].at = "sending" /\ task'[n].block = task[n].block
  <2>1. PICK todo : task' = [task EXCEPT ![n].at = "sending", ![n].todo = todo]
    BY <1>1, Zenon DEF BroadcastBlock
  <2> QED BY <2>1, TaskSteps, Zenon
<1>2. ASSUME toNextValidator(n)
      PROVE  LoopMoved(n) /\ task'[n].at = "sending" /\ task'[n].block = task[n].block
  <2>1. PICK todo : task' = [task EXCEPT ![n].at = "sending", ![n].todo = todo]
    BY <1>2, Zenon DEF toNextValidator
  <2> QED BY <2>1, TaskSteps, Zenon
<1>3. ASSUME sendProposal(n)
      PROVE  /\ LoopMoved(n) /\ task'[n].at \in {"sending", "waiting"}
             /\ task'[n].block = task[n].block
  <2>1. CASE task' = [task EXCEPT ![n].at = "waiting"]
    BY <2>1, TaskSteps, Zenon
  <2>2. CASE task' = [task EXCEPT ![n].todo = Tail(@)]
    <3>1. task[n].at = "sending"
      BY <1>3, Zenon DEF sendProposal
    <3> QED BY <2>2, <3>1, TaskSteps, Zenon
  <2> QED BY <1>3, <2>1, <2>2, Zenon DEF sendProposal
<1> QED BY <1>1, <1>2, <1>3

\* Only the loop and a restart change the wave, the task and the life.
LEMMA LoopFrame ==
  ASSUME NEW n \in Node
  PROVE  /\ \A t \in Tx : AddTransaction(n, t) \/ worker(n, t) => UNCHANGED <<life, loop>>
         /\ handlerStep(n) => UNCHANGED <<life, loop>>
         /\ \A m \in Node : syncWithValidator(n, m) => UNCHANGED <<life, loop>>
         /\ \A m \in Node : \A h \in syncs[n][m] : syncBlock(n, m, h) => UNCHANGED <<life, loop>>
<1>1. \A t \in Tx : AddTransaction(n, t) \/ worker(n, t) => UNCHANGED <<life, loop>>
  BY Zenon DEF AddTransaction, worker
<1>2. handlerStep(n) => UNCHANGED <<life, loop>>
  BY Zenon DEF handlerStep, verifyProposal, storeProposal, processBlock
<1>3. \A m \in Node : syncWithValidator(n, m) => UNCHANGED <<life, loop>>
  BY Zenon DEF syncWithValidator
<1>4. \A m \in Node : \A h \in syncs[n][m] : syncBlock(n, m, h) => UNCHANGED <<life, loop>>
  BY Zenon DEF syncBlock
<1> QED BY <1>1, <1>2, <1>3, <1>4, Zenon

\* What a step does to the loops.
LEMMA LoopStep ==
  ASSUME Next
  PROVE  \/ UNCHANGED <<life, loop>>
         \/ \E n \in Node : ProcessTimeout(n) \/ handleWaveProposing(n) \/ restart(n)
BY LoopFrame, Zenon DEF Next

\* Only CreateBlock adds blocks.
LEMMA BlockStep ==
  ASSUME Next
  PROVE  UNCHANGED blocks \/ \E n \in Node : CreateBlock(n)
<1>1. ASSUME NEW n \in Node, handleWaveProposing(n)
      PROVE  UNCHANGED blocks \/ CreateBlock(n)
  BY <1>1, Zenon DEF handleWaveProposing, checkWave, createBlockFails, BroadcastBlock,
       sendProposal, readReply, readDeadline, toNextValidator, broadcastComplete
<1>2. ASSUME NEW n \in Node, ProcessTimeout(n) \/ restart(n)
      PROVE  UNCHANGED blocks
  BY <1>2, Zenon DEF ProcessTimeout, restart
<1>3. ASSUME NEW n \in Node, handlerStep(n)
      PROVE  UNCHANGED blocks
  BY <1>3, Zenon DEF handlerStep, verifyProposal, storeProposal, processBlock
<1>4. ASSUME NEW n \in Node, \/ \E t \in Tx : AddTransaction(n, t) \/ worker(n, t)
                             \/ \E m \in Node : \/ syncWithValidator(n, m)
                                               \/ \E h \in syncs[n][m] : syncBlock(n, m, h)
      PROVE  UNCHANGED blocks
  BY <1>4, Zenon DEF AddTransaction, worker, syncWithValidator, syncBlock
<1> QED BY <1>1, <1>2, <1>3, <1>4, Zenon DEF Next

-----------------------------------------------------------------------------
(* Types, and blocks from leaders *)

\* Between checkWave and CreateBlock neither the wave nor the note of the last
\* creation changes.
LEMMA LoopInvStep ==
  ASSUME LoopInv, [Next]_vars
  PROVE  LoopInv'
<1>0. CASE UNCHANGED <<life, loop>>
  BY <1>0, Zenon DEF LoopInv, loop, mayPropose
<1>1. ASSUME NEW n \in Node, ProcessTimeout(n)
      PROVE  LoopInv'
  <2>1. currentWave' \in [Node -> WaveNo]
    <3>1. currentWave[n] + 1 \in WaveNo
      <4>1. currentWave[n] \in WaveNo /\ currentWave[n] < MaxWave /\ MaxWave \in Nat
        BY <1>1, ConstantTypes, Zenon DEF LoopInv, ProcessTimeout
      <4> QED BY <4>1, SMT DEF WaveNo
    <3> QED BY <1>1, <3>1, SMT DEF LoopInv, ProcessTimeout
  <2>2. \A m \in Node : task'[m].at = "creating" => mayPropose(m)'
    <3>1. \A m \in Node \ {n} : currentWave'[m] = currentWave[m]
      BY <1>1, Zenon DEF LoopInv, ProcessTimeout
    <3>2. UNCHANGED <<task, lastBlockCreationWave>> /\ task[n].at = "loop"
      BY <1>1, Zenon DEF ProcessTimeout
    <3> QED BY <3>1, <3>2, Zenon DEF LoopInv, mayPropose
  <2> QED BY <1>1, <2>1, <2>2, Zenon DEF LoopInv, ProcessTimeout
<1>2. ASSUME NEW n \in Node, handleWaveProposing(n)
      PROVE  LoopInv'
  <2>1. UNCHANGED <<life, currentWave>>
    BY <1>2, Zenon DEF handleWaveProposing, checkWave, createBlockFails, CreateBlock,
         BroadcastBlock, sendProposal, readReply, readDeadline, toNextValidator, broadcastComplete
  <2>6. \/ UNCHANGED lastBlockCreationWave
        \/ lastBlockCreationWave' = [lastBlockCreationWave EXCEPT ![n] = currentWave[n]]
    BY <1>2, Zenon DEF handleWaveProposing, checkWave, createBlockFails, CreateBlock,
         BroadcastBlock, sendProposal, readReply, readDeadline, toNextValidator, broadcastComplete
  <2>2. lastBlockCreationWave' \in [Node -> 0..MaxWave]
    <3>1. currentWave[n] \in 0..MaxWave
      BY SMT DEF LoopInv, WaveNo
    <3> QED BY <2>6, <3>1, SMT DEF LoopInv
  <2>3. \/ UNCHANGED task /\ task[n].at = "loop"
        \/ LoopMoved(n) /\ (task'[n].at = "creating" => mayPropose(n) /\ UNCHANGED lastBlockCreationWave)
    <3>1. CASE checkWave(n)
      BY <3>1, TaskSteps, Zenon DEF checkWave
    <3>2. CASE createBlockFails(n)
      BY <3>2, TaskSteps, Zenon DEF createBlockFails
    <3>3. CASE CreateBlock(n)
      BY <3>3, TaskSteps, Zenon DEF CreateBlock
    <3>4. CASE BroadcastBlock(n) \/ toNextValidator(n)
      <4>1. LoopMoved(n) /\ task'[n].at = "sending"
        BY <3>4, SendSteps, Zenon
      <4> QED BY <4>1
    <3>5. CASE sendProposal(n)
      <4>1. LoopMoved(n) /\ task'[n].at \in {"sending", "waiting"}
        BY <3>5, SendSteps, Zenon
      <4> QED BY <4>1
    <3>7. CASE broadcastComplete(n)
      BY <3>7, TaskSteps, Zenon DEF broadcastComplete
    <3> QED BY <1>2, <3>1, <3>2, <3>3, <3>4, <3>5, <3>7, Zenon
             DEF handleWaveProposing, readReply, readDeadline
  <2>4. DOMAIN task' = Node /\ \A m \in Node : DOMAIN task'[m] = {"at", "block", "todo"}
    BY <2>3, Zenon DEF LoopMoved, LoopInv
  <2>5. \A m \in Node : task'[m].at = "creating" => mayPropose(m)'
    <3>1. \A m \in Node \ {n} : lastBlockCreationWave'[m] = lastBlockCreationWave[m]
      BY <2>6, Zenon DEF LoopInv
    <3>2. ASSUME NEW m \in Node \ {n}, task'[m].at = "creating"
          PROVE  mayPropose(m)'
      <4>1. task[m].at = "creating"
        BY <2>3, <3>2, Zenon DEF LoopMoved
      <4> QED BY <2>1, <3>1, <4>1, Zenon DEF LoopInv, mayPropose
    <3>3. ASSUME task'[n].at = "creating"
          PROVE  mayPropose(n)'
      BY <2>1, <2>3, <3>3, Zenon DEF mayPropose
    <3> QED BY <3>2, <3>3, Zenon
  <2> QED BY <2>1, <2>2, <2>4, <2>5, Zenon DEF LoopInv
<1>3. ASSUME NEW n \in Node, restart(n)
      PROVE  LoopInv'
  <2>1. life' \in [Node -> Nat] /\ \A m \in Node : life'[m] \in 0..MaxRestarts[m]
    <3>1. life[n] + 1 \in 0..MaxRestarts[n] /\ life[n] + 1 \in Nat
      <4>1. life[n] \in Nat /\ life[n] < MaxRestarts[n] /\ MaxRestarts[n] \in Nat
        BY <1>3, ConstantTypes, Zenon DEF LoopInv, restart
      <4> QED BY <4>1, SMT
    <3> QED BY <1>3, <3>1, SMT DEF LoopInv, restart
  <2>2. currentWave' \in [Node -> WaveNo]
    <3>1. startWave \in WaveNo
      BY ConstantTypes, SMT DEF startWave, WaveNo
    <3> QED BY <1>3, <3>1, Zenon DEF LoopInv, restart
  <2>3. lastBlockCreationWave' \in [Node -> 0..MaxWave]
    <3>1. 0 \in 0..MaxWave
      BY ConstantTypes, SMT
    <3> QED BY <1>3, <3>1, SMT DEF LoopInv, restart
  <2>4. LoopMoved(n) /\ task'[n].at = "loop"
    BY <1>3, TaskSteps, Zenon DEF restart
  <2>5. DOMAIN task' = Node /\ \A m \in Node : DOMAIN task'[m] = {"at", "block", "todo"}
    BY <2>4, Zenon DEF LoopMoved, LoopInv
  <2>6. \A m \in Node : task'[m].at = "creating" => mayPropose(m)'
    <3>1. \A m \in Node \ {n} : /\ currentWave'[m] = currentWave[m]
                                 /\ lastBlockCreationWave'[m] = lastBlockCreationWave[m]
      BY <1>3, Zenon DEF LoopInv, restart
    <3> QED BY <2>4, <3>1, Zenon DEF LoopInv, LoopMoved, mayPropose
  <2> QED BY <2>1, <2>2, <2>3, <2>5, <2>6, Zenon DEF LoopInv
<1>4. CASE Next
  BY <1>0, <1>1, <1>2, <1>3, <1>4, LoopStep, Zenon
<1>5. CASE UNCHANGED vars
  BY <1>0, <1>5, Zenon DEF vars
<1> QED BY <1>4, <1>5, Zenon

\* CreateBlock adds blocks of the leader; the loop sends what it has made.
LEMMA BlockInvStep ==
  ASSUME LoopInv, BlockInv, EngineInv, [Next]_vars
  PROVE  BlockInv'
<1> DEFINE Same == UNCHANGED <<made, references, transactions, resigned>>
<1>a. ASSUME Same, NEW n \in Node, LoopMoved(n), task'[n].at \in Busy => task'[n].block \in made
      PROVE  BlockInv'
  <2>1. \A m \in Node : task'[m].at \in Busy => task'[m].block \in made
    BY <1>a, Zenon DEF LoopMoved, BlockInv
  <2> QED BY <1>a, <2>1, Zenon DEF BlockInv
<1>b. ASSUME Same, UNCHANGED task
      PROVE  BlockInv'
  BY <1>b, Zenon DEF BlockInv
<1>1. ASSUME NEW n \in Node, ProcessTimeout(n)
      PROVE  BlockInv'
  BY <1>1, <1>b, Zenon DEF ProcessTimeout, blocks
<1>2. ASSUME NEW n \in Node, checkWave(n)
      PROVE  BlockInv'
  <2>1. Same
    BY <1>2, Zenon DEF checkWave, blocks
  <2>2. CASE UNCHANGED task
    BY <2>1, <2>2, <1>b
  <2>3. CASE task' = [task EXCEPT ![n].at = "creating"]
    <3>1. LoopMoved(n) /\ task'[n].at = "creating"
      BY <2>3, TaskSteps, Zenon
    <3>2. task'[n].at \notin Busy
      BY <3>1, Zenon DEF Busy
    <3> QED BY <2>1, <3>1, <3>2, <1>a, Zenon
  <2> QED BY <1>2, <2>2, <2>3, Zenon DEF checkWave
<1>3. ASSUME NEW n \in Node, Same, task' = [task EXCEPT ![n] = idle]
      PROVE  BlockInv'
  <2>1. LoopMoved(n) /\ task'[n].at = "loop"
    BY <1>3, TaskSteps, Zenon
  <2>2. task'[n].at \notin Busy
    BY <2>1, Zenon DEF Busy
  <2> QED BY <1>3, <2>1, <2>2, <1>a, Zenon
<1>4. ASSUME NEW n \in Node, CreateBlock(n)
      PROVE  BlockInv'
  <2> DEFINE b == <<n, currentWave[n], life[n]>>
  <2>1. b \in LedBlock
    BY <1>4, NewBlockLed
  <2>2. made' = made \cup {b} /\ UNCHANGED resigned
    BY <1>4, Zenon DEF CreateBlock
  <2>3. references' \in [BlockId -> SUBSET Hash]
    <3>1. previousWave(n) \in SUBSET Hash
      <4>1. dag[n] \subseteq LedHash
        BY Zenon DEF EngineInv
      <4> QED BY <4>1, RecentBlocks, LedHashes, Zenon DEF previousWave
    <3>2. references' = [references EXCEPT ![b] = previousWave(n)]
      BY <1>4, Zenon DEF CreateBlock
    <3> HIDE DEF b
    <3> QED BY <3>1, <3>2, Zenon DEF BlockInv
  <2>4. DOMAIN transactions' = BlockId
    <3>1. PICK q : transactions' = [transactions EXCEPT ![b] = q]
      BY <1>4, Zenon DEF CreateBlock
    <3> HIDE DEF b
    <3> QED BY <3>1, Zenon DEF BlockInv
  <2>5. LoopMoved(n) /\ task'[n].block = b
    BY <1>4, TaskSteps, Zenon DEF CreateBlock
  <2> HIDE DEF b
  <2>6. \A m \in Node : task'[m].at \in Busy => task'[m].block \in made'
    BY <2>2, <2>5, Zenon DEF LoopMoved, BlockInv
  <2>7. made' \subseteq LedBlock /\ resigned' \in [Node -> SUBSET made']
    BY <2>1, <2>2, SMT DEF BlockInv
  <2> QED BY <2>3, <2>4, <2>6, <2>7, Zenon DEF BlockInv
<1>5. ASSUME NEW n \in Node, BroadcastBlock(n)
      PROVE  BlockInv'
  <2>1. UNCHANGED <<made, references, transactions>>
    BY <1>5, Zenon DEF BroadcastBlock, blocks
  <2>2. task[n].block \in made
    BY <1>5, Zenon DEF BroadcastBlock, BlockInv, Busy
  <2>3. resigned' \in [Node -> SUBSET made]
    <3>1. PICK R : R \in {resigned[n], resigned[n] \cup {task[n].block}}
                   /\ resigned' = [resigned EXCEPT ![n] = R]
      BY <1>5, Zenon DEF BroadcastBlock
    <3>2. R \in SUBSET made
      BY <2>2, <3>1, Zenon DEF BlockInv
    <3> QED BY <3>1, <3>2, Zenon DEF BlockInv
  <2>4. LoopMoved(n) /\ task'[n].block = task[n].block
    BY <1>5, SendSteps, Zenon
  <2>5. \A m \in Node : task'[m].at \in Busy => task'[m].block \in made
    BY <2>2, <2>4, Zenon DEF LoopMoved, BlockInv
  <2> QED BY <2>1, <2>3, <2>5, Zenon DEF BlockInv
<1>6. ASSUME NEW n \in Node, sendProposal(n) \/ toNextValidator(n)
      PROVE  BlockInv'
  <2>1. Same
    BY <1>6, Zenon DEF sendProposal, toNextValidator, blocks
  <2>2. task[n].block \in made
    BY <1>6, Zenon DEF sendProposal, toNextValidator, BlockInv, Busy
  <2>3. LoopMoved(n) /\ task'[n].block = task[n].block
    BY <1>6, SendSteps, Zenon
  <2> QED BY <2>1, <2>2, <2>3, <1>a, Zenon
<1>7. ASSUME NEW n \in Node, restart(n)
      PROVE  BlockInv'
  <2>1. UNCHANGED <<made, references, transactions>> /\ resigned' \in [Node -> SUBSET made]
    BY <1>7, Zenon DEF restart, blocks, BlockInv
  <2>2. LoopMoved(n) /\ task'[n].at = "loop"
    BY <1>7, TaskSteps, Zenon DEF restart
  <2>3. \A m \in Node : task'[m].at \in Busy => task'[m].block \in made
    BY <2>2, Zenon DEF LoopMoved, BlockInv, Busy
  <2> QED BY <2>1, <2>3, Zenon DEF BlockInv
<1>8. ASSUME NEW n \in Node, handleWaveProposing(n)
      PROVE  BlockInv'
  <2>1. createBlockFails(n) \/ broadcastComplete(n) => Same /\ task' = [task EXCEPT ![n] = idle]
    BY Zenon DEF createBlockFails, broadcastComplete, blocks
  <2> QED BY <1>2, <1>3, <1>4, <1>5, <1>6, <1>8, <2>1, Zenon
           DEF handleWaveProposing, readReply, readDeadline
<1>9. ASSUME NEW n \in Node, handlerStep(n)
      PROVE  BlockInv'
  <2>1. Same /\ UNCHANGED task
    BY <1>9, Zenon DEF handlerStep, verifyProposal, storeProposal, processBlock, blocks, loop
  <2> QED BY <2>1, <1>b
<1>10. ASSUME NEW n \in Node, NEW t \in Tx, AddTransaction(n, t) \/ worker(n, t)
       PROVE  BlockInv'
  BY <1>10, <1>b, Zenon DEF AddTransaction, worker, blocks, loop
<1>11. ASSUME NEW n \in Node, NEW m \in Node,
              syncWithValidator(n, m) \/ \E h \in syncs[n][m] : syncBlock(n, m, h)
       PROVE  BlockInv'
  BY <1>11, <1>b, Zenon DEF syncWithValidator, syncBlock, blocks, loop
<1>12. CASE Next
  BY <1>1, <1>7, <1>8, <1>9, <1>10, <1>11, <1>12, Zenon DEF Next
<1>13. CASE UNCHANGED vars
  BY <1>b, <1>13, Zenon DEF vars, blocks, loop
<1> QED BY <1>12, <1>13, Zenon

\* A DAG grows by blocks made here, received or fetched.
LEMMA EngineInvStep ==
  ASSUME LoopInv, BlockInv, EngineInv, [Next]_vars
  PROVE  EngineInv'
<1> DEFINE Rest == UNCHANGED <<proposals, savedLeaderBlock, handlers, syncs>>
<1>a. ASSUME NEW n \in Node, NEW h \in LedHash, \E D \in AddBlock(n, h) : dag' = [dag EXCEPT ![n] = D]
      PROVE  dag' \in [Node -> SUBSET LedHash]
  <2>1. PICK D \in AddBlock(n, h) : dag' = [dag EXCEPT ![n] = D]
    BY <1>a, Zenon
  <2>2. D \subseteq dag[n] \cup {h}
    BY <2>1, AddBlockAdds, Zenon
  <2>3. dag[n] \subseteq LedHash
    BY Zenon DEF EngineInv
  <2>4. D \in SUBSET LedHash
    BY <2>2, <2>3, Zenon
  <2> QED BY <2>1, <2>4, Zenon DEF EngineInv
<1>b. ASSUME NEW b \in LedBlock, NEW s \in Signature
      PROVE  <<b, s>> \in LedHash
  BY SMT DEF LedHash
<1>c. "processor" \in Signature /\ "engine" \in Signature
  BY Zenon DEF Signature
<1>d. ASSUME Rest, UNCHANGED dag
      PROVE  EngineInv'
  BY <1>d, Zenon DEF EngineInv
<1>1. ASSUME NEW n \in Node, CreateBlock(n)
      PROVE  EngineInv'
  <2> DEFINE b == <<n, currentWave[n], life[n]>>
  <2>1. b \in LedBlock
    BY <1>1, NewBlockLed
  <2>2. Rest /\ \E D \in AddBlock(n, <<b, "processor">>) : dag' = [dag EXCEPT ![n] = D]
    BY <1>1, Zenon DEF CreateBlock, engine
  <2> HIDE DEF b
  <2>3. dag' \in [Node -> SUBSET LedHash]
    BY <2>1, <2>2, <1>a, <1>b, <1>c, Zenon
  <2> QED BY <2>2, <2>3, Zenon DEF EngineInv
<1>2. ASSUME NEW n \in Node, BroadcastBlock(n)
      PROVE  EngineInv'
  <2>1. task[n].block \in LedBlock
    BY <1>2, Zenon DEF BroadcastBlock, BlockInv, Busy
  <2>2. <<task[n].block, "engine">> \in LedHash
    BY <2>1, <1>b, <1>c, Zenon
  <2>3. proposals' \in [Node -> SUBSET LedHash]
    <3> DEFINE h == <<task[n].block, "engine">>
    <3>1. proposals' = [proposals EXCEPT ![n] = @ \cup {h}] /\ h \in LedHash
      BY <1>2, <2>2, Zenon DEF BroadcastBlock
    <3> HIDE DEF h
    <3> QED BY <3>1, SMT DEF EngineInv
  <2> QED BY <1>2, <2>3, Zenon DEF BroadcastBlock, EngineInv
<1>3. ASSUME NEW n \in Node, sendProposal(n)
      PROVE  EngineInv'
  <2>1. task[n].block \in LedBlock
    BY <1>3, Zenon DEF sendProposal, BlockInv, Busy
  <2>2. <<task[n].block, "engine">> \in LedHash
    BY <2>1, <1>b, <1>c, Zenon
  <2> DEFINE p == [hash |-> <<task[n].block, "engine">>, at |-> "received"]
  <2>3. p \in Message
    BY <2>2, SMT DEF Message
  <2>4. \/ UNCHANGED handlers
        \/ handlers' = [handlers EXCEPT ![Head(task[n].todo)] = @ \cup {p}]
    BY <1>3, Zenon DEF sendProposal
  <2> HIDE DEF p
  <2>5. handlers' \in [Node -> SUBSET Message]
    BY <2>3, <2>4, SMT DEF EngineInv
  <2> QED BY <1>3, <2>5, Zenon DEF sendProposal, EngineInv
<1>4. ASSUME NEW n \in Node, NEW p \in handlers[n], NEW section \in {"verified", "stored"},
             handlers' = moved(n, p, section)
      PROVE  handlers' \in [Node -> SUBSET Message]
  <2>1. p \in Message
    BY Zenon DEF EngineInv
  <2>2. [p EXCEPT !.at = section] \in Message
    BY <2>1, SMT DEF Message
  <2> DEFINE H == (handlers[n] \ {p}) \cup {[p EXCEPT !.at = section]}
  <2>3. H \in SUBSET Message
    BY <2>2, Zenon DEF EngineInv
  <2>4. handlers' = [handlers EXCEPT ![n] = H]
    BY <1>4, Zenon DEF moved
  <2> QED BY <2>3, <2>4, Zenon DEF EngineInv
<1>e. ASSUME NEW n \in Node, NEW p \in handlers[n]
      PROVE  p.hash \in LedHash
  <2>1. p \in Message
    BY Zenon DEF EngineInv
  <2> QED BY <2>1, SMT DEF Message
<1>5. ASSUME NEW n \in Node, NEW p \in handlers[n], verifyProposal(n, p)
      PROVE  EngineInv'
  <2>1. p.hash \in LedHash
    BY <1>e
  <2>2. dag' \in [Node -> SUBSET LedHash]
    BY <1>5, <1>a, <2>1, Zenon DEF verifyProposal
  <2>3. handlers' \in [Node -> SUBSET Message]
    BY <1>5, <1>4, Zenon DEF verifyProposal
  <2> QED BY <1>5, <2>2, <2>3, Zenon DEF verifyProposal, EngineInv
<1>6. ASSUME NEW n \in Node, NEW p \in handlers[n], storeProposal(n, p)
      PROVE  EngineInv'
  <2>1. p.hash \in LedHash
    BY <1>e
  <2>2. savedLeaderBlock' \in [Node -> LedHash \cup {None}]
    <3>1. PICK x \in {p.hash, savedLeaderBlock[n]} :
            savedLeaderBlock' = [savedLeaderBlock EXCEPT ![n] = x]
      BY <1>6, Zenon DEF storeProposal
    <3>2. x \in LedHash \cup {None}
      BY <2>1, <3>1, Zenon DEF EngineInv
    <3> QED BY <3>1, <3>2, Zenon DEF EngineInv
  <2>3. proposals' \in [Node -> SUBSET LedHash]
    <3>1. proposals' = [proposals EXCEPT ![n] = @ \cup {p.hash}]
      BY <1>6, Zenon DEF storeProposal
    <3> QED BY <2>1, <3>1, SMT DEF EngineInv
  <2>4. handlers' \in [Node -> SUBSET Message]
    BY <1>6, <1>4, Zenon DEF storeProposal
  <2> QED BY <1>6, <2>2, <2>3, <2>4, Zenon DEF storeProposal, EngineInv
<1>7. ASSUME NEW n \in Node, NEW p \in handlers[n], processBlock(n, p)
      PROVE  EngineInv'
  <2>1. p.hash \in LedHash
    BY <1>e
  <2>2. dag' \in [Node -> SUBSET LedHash]
    <3>1. UNCHANGED dag \/ \E D \in AddBlock(n, p.hash) : dag' = [dag EXCEPT ![n] = D]
      BY <1>7, Zenon DEF processBlock
    <3>2. CASE UNCHANGED dag
      BY <3>2, Zenon DEF EngineInv
    <3> QED BY <1>a, <2>1, <3>1, <3>2, Zenon
  <2>3. handlers' \in [Node -> SUBSET Message]
    <3>1. handlers' = [handlers EXCEPT ![n] = @ \ {p}]
      BY <1>7, Zenon DEF processBlock
    <3> QED BY <3>1, SMT DEF EngineInv
  <2>4. UNCHANGED <<proposals, savedLeaderBlock, syncs>>
    BY <1>7, Zenon DEF processBlock
  <2> QED BY <2>2, <2>3, <2>4, Zenon DEF EngineInv
<1>8. ASSUME NEW n \in Node, NEW m \in Node, syncWithValidator(n, m)
      PROVE  EngineInv'
  <2>1. missingBlocks(n, m) \in SUBSET LedHash
    <3>1. dag[m] \subseteq LedHash
      BY Zenon DEF EngineInv
    <3> QED BY <3>1, RecentBlocks, Zenon DEF missingBlocks
  <2>2. syncs' = [syncs EXCEPT ![n][m] = missingBlocks(n, m)]
    BY <1>8, Zenon DEF syncWithValidator
  <2>3. syncs' \in [Node -> [Node -> SUBSET LedHash]]
    BY <2>1, <2>2, SMT DEF EngineInv
  <2> QED BY <1>8, <2>3, Zenon DEF syncWithValidator, engine, EngineInv
<1>9. ASSUME NEW n \in Node, NEW m \in Node, NEW h \in syncs[n][m], syncBlock(n, m, h)
      PROVE  EngineInv'
  <2>1. h \in LedHash
    BY SMT DEF EngineInv
  <2>2. dag' \in [Node -> SUBSET LedHash]
    BY <1>9, <1>a, <2>1, Zenon DEF syncBlock
  <2>3. syncs' = [syncs EXCEPT ![n][m] = @ \ {h}]
    BY <1>9, Zenon DEF syncBlock
  <2>4. syncs' \in [Node -> [Node -> SUBSET LedHash]]
    BY <2>3, SMT DEF EngineInv
  <2> QED BY <1>9, <2>2, <2>4, Zenon DEF syncBlock, engine, EngineInv
<1>10. ASSUME NEW n \in Node, restart(n)
       PROVE  EngineInv'
  <2>1. dag' \in [Node -> SUBSET LedHash]
    <3>1. NewBlockProcessor.dag = {}
      BY SMT DEF NewBlockProcessor, NewDAG
    <3> QED BY <1>10, <3>1, Zenon DEF restart, EngineInv
  <2>2. proposals' \in [Node -> SUBSET LedHash] /\ savedLeaderBlock' \in [Node -> LedHash \cup {None}]
    BY <1>10, Zenon DEF restart, EngineInv
  <2>3. handlers' \in [Node -> SUBSET Message]
    BY <1>10, Zenon DEF restart, EngineInv
  <2>4. syncs' \in [Node -> [Node -> SUBSET LedHash]]
    <3>1. NewBlockSynchronizer \in [Node -> SUBSET LedHash]
      BY Zenon DEF NewBlockSynchronizer
    <3> QED BY <1>10, <3>1, Zenon DEF restart, EngineInv
  <2> QED BY <2>1, <2>2, <2>3, <2>4, Zenon DEF EngineInv
<1>11. ASSUME NEW n \in Node, \/ ProcessTimeout(n) \/ checkWave(n) \/ createBlockFails(n)
                              \/ toNextValidator(n) \/ broadcastComplete(n)
                              \/ \E t \in Tx : AddTransaction(n, t) \/ worker(n, t)
       PROVE  EngineInv'
  <2>1. Rest /\ UNCHANGED dag
    BY <1>11, Zenon DEF ProcessTimeout, checkWave, createBlockFails, toNextValidator,
         broadcastComplete, AddTransaction, worker, engine
  <2> QED BY <2>1, <1>d
<1>12. CASE Next
  <2>1. ASSUME NEW n \in Node, handlerStep(n)
        PROVE  EngineInv'
    BY <1>5, <1>6, <1>7, <2>1, Zenon DEF handlerStep
  <2>2. ASSUME NEW n \in Node, handleWaveProposing(n)
        PROVE  EngineInv'
    BY <1>1, <1>2, <1>3, <1>11, <2>2, Zenon DEF handleWaveProposing, readReply, readDeadline
  <2> QED BY <1>8, <1>9, <1>10, <1>11, <1>12, <2>1, <2>2, Zenon DEF Next
<1>13. CASE UNCHANGED vars
  BY <1>d, <1>13, Zenon DEF vars, engine
<1> QED BY <1>12, <1>13, Zenon

\* The mempool and its channel keep their types.
LEMMA PoolTypesStep ==
  ASSUME PoolTypes, [Next]_vars
  PROVE  PoolTypes'
<1> DEFINE State == {"absent", "pending", "included"}
<1>a. ASSUME UNCHANGED pool
      PROVE  PoolTypes'
  BY <1>a, Zenon DEF PoolTypes, pool
<1>1. ASSUME NEW n \in Node, NEW q, NEW state \in State
      PROVE  marked(n, q, state) \in [Tx -> State]
  <2>1. \A t \in Tx : mempool[n][t] \in State
    BY Zenon DEF PoolTypes
  <2> QED BY <2>1, Zenon DEF marked
<1>2. ASSUME NEW n \in Node, createBlockFails(n) \/ CreateBlock(n)
      PROVE  PoolTypes'
  <2>1. ASSUME createBlockFails(n)
        PROVE  mempool' \in [Node -> [Tx -> State]]
    <3>1. PICK q : mempool' = [mempool EXCEPT ![n] = marked(n, q, "included")]
      BY <2>1, Zenon DEF createBlockFails
    <3> QED BY <1>1, <3>1, Zenon DEF PoolTypes
  <2>2. ASSUME CreateBlock(n)
        PROVE  mempool' \in [Node -> [Tx -> State]]
    <3>1. PICK q : mempool' = [mempool EXCEPT ![n] = marked(n, q, "absent")]
      BY <2>2, Zenon DEF CreateBlock, RemoveTransactions
    <3> QED BY <1>1, <3>1, Zenon DEF PoolTypes
  <2>3. UNCHANGED <<workChan, submitted>>
    BY <1>2, Zenon DEF createBlockFails, CreateBlock
  <2> QED BY <1>2, <2>1, <2>2, <2>3, Zenon DEF PoolTypes
<1>3. ASSUME NEW n \in Node, NEW t \in Tx, AddTransaction(n, t)
      PROVE  PoolTypes'
  <2>1. workChan' = [workChan EXCEPT ![n][t] = @ + 1]
    BY <1>3, Zenon DEF AddTransaction
  <2>2. workChan' \in [Node -> [Tx -> Nat]]
    BY <2>1, SMT DEF PoolTypes
  <2>3. submitted' = [submitted EXCEPT ![n][t] = @ + 1]
    BY <1>3, Zenon DEF AddTransaction
  <2>4. submitted' \in [Node -> [Tx -> Nat]]
    BY <2>3, SMT DEF PoolTypes
  <2> QED BY <1>3, <2>2, <2>4, Zenon DEF AddTransaction, PoolTypes
<1>4. ASSUME NEW n \in Node, NEW t \in Tx, worker(n, t)
      PROVE  PoolTypes'
  <2>1. workChan' = [workChan EXCEPT ![n][t] = @ - 1] /\ workChan[n][t] > 0
    BY <1>4, Zenon DEF worker
  <2>2. workChan' \in [Node -> [Tx -> Nat]]
    BY <2>1, SMT DEF PoolTypes
  <2>3. mempool' = [mempool EXCEPT ![n][t] = "pending"]
    BY <1>4, Zenon DEF worker
  <2>4. mempool' \in [Node -> [Tx -> State]]
    BY <2>3, SMT DEF PoolTypes
  <2> QED BY <1>4, <2>2, <2>4, Zenon DEF worker, PoolTypes
<1>5. ASSUME NEW n \in Node, NEW p \in handlers[n], processBlock(n, p)
      PROVE  PoolTypes'
  <2>1. CASE UNCHANGED <<workChan, mempool>>
    BY <1>5, <2>1, <1>a, Zenon DEF processBlock, pool
  <2>2. ASSUME NEW q, backToMempool(n, q)
        PROVE  PoolTypes'
    <3> DEFINE W == [t \in Tx |-> IF t \in Range(q) /\ mempool[n][t] = "absent"
                                  THEN workChan[n][t] + 1 ELSE workChan[n][t]]
               M == [t \in Tx |-> IF t \in Range(q) /\ mempool[n][t] # "absent"
                                  THEN "pending" ELSE mempool[n][t]]
    <3>1. workChan' = [workChan EXCEPT ![n] = W] /\ mempool' = [mempool EXCEPT ![n] = M]
      BY <2>2, Zenon DEF backToMempool
    <3>2. W \in [Tx -> Nat]
      BY SMT DEF PoolTypes
    <3>3. M \in [Tx -> State]
      BY SMT DEF PoolTypes
    <3> HIDE DEF W, M
    <3>4. workChan' \in [Node -> [Tx -> Nat]] /\ mempool' \in [Node -> [Tx -> State]]
      BY <3>1, <3>2, <3>3, Zenon DEF PoolTypes
    <3>5. UNCHANGED submitted
      BY <1>5, Zenon DEF processBlock
    <3> QED BY <3>4, <3>5, Zenon DEF PoolTypes
  <2> QED BY <1>5, <2>1, <2>2, Zenon DEF processBlock
<1>6. ASSUME NEW n \in Node, restart(n)
      PROVE  PoolTypes'
  <2>1. [t \in Tx |-> 0] \in [Tx -> Nat]
    BY SMT
  <2>2. NewBlockProcessor.mempool \in [Tx -> State]
    BY SMT DEF NewBlockProcessor, NewMempool
  <2>3. workChan' \in [Node -> [Tx -> Nat]] /\ submitted' \in [Node -> [Tx -> Nat]]
    BY <1>6, <2>1, Zenon DEF restart, PoolTypes
  <2>4. mempool' \in [Node -> [Tx -> State]]
    BY <1>6, <2>2, Zenon DEF restart, PoolTypes
  <2> QED BY <2>3, <2>4, Zenon DEF PoolTypes
<1>7. ASSUME NEW n \in Node,
             \/ ProcessTimeout(n) \/ checkWave(n) \/ BroadcastBlock(n) \/ sendProposal(n)
             \/ toNextValidator(n) \/ broadcastComplete(n)
             \/ \E p \in handlers[n] : verifyProposal(n, p) \/ storeProposal(n, p)
             \/ \E m \in Node : syncWithValidator(n, m) \/ \E h \in syncs[n][m] : syncBlock(n, m, h)
      PROVE  PoolTypes'
  <2>1. UNCHANGED pool
    BY <1>7, Zenon DEF ProcessTimeout, checkWave, BroadcastBlock, sendProposal, toNextValidator,
         broadcastComplete, verifyProposal, storeProposal, syncWithValidator, syncBlock
  <2> QED BY <2>1, <1>a
<1>8. CASE Next
  <2>1. ASSUME NEW n \in Node, handlerStep(n)
        PROVE  PoolTypes'
    BY <1>5, <1>7, <2>1, Zenon DEF handlerStep
  <2>2. ASSUME NEW n \in Node, handleWaveProposing(n)
        PROVE  PoolTypes'
    BY <1>2, <1>7, <2>2, Zenon DEF handleWaveProposing, readReply, readDeadline
  <2> QED BY <1>3, <1>4, <1>6, <1>7, <1>8, <2>1, <2>2, Zenon DEF Next
<1>9. CASE UNCHANGED vars
  BY <1>a, <1>9, Zenon DEF vars
<1> QED BY <1>8, <1>9, Zenon

-----------------------------------------------------------------------------
(* Blocks are made once *)

\* CreateBlock never makes a block a second time.
LEMMA NewBlockIsNew ==
  ASSUME LoopInv, FreshInv, NEW n \in Node, CreateBlock(n)
  PROVE  <<n, currentWave[n], life[n]>> \notin made
<1> DEFINE b == <<n, currentWave[n], life[n]>>
<1>1. b[1] = n /\ b[2] = currentWave[n] /\ b[3] = life[n]
  OBVIOUS
<1>2. task[n].at = "creating" /\ mayPropose(n)
  BY Zenon DEF CreateBlock, LoopInv
<1>3. task[n].at \notin Busy
  BY <1>2, Zenon DEF Busy
<1>4. lastBlockCreationWave[n] # currentWave[n]
  BY <1>2, SMT DEF mayPropose, LoopInv, WaveNo
<1> HIDE DEF b
<1>5. ~Fresh(b)
  BY <1>1, <1>3, <1>4, Zenon DEF Fresh
<1>6. b \notin made
  BY <1>5, Zenon DEF FreshInv
<1> QED BY <1>6 DEF b

\* The wave moves on after the broadcast only, and a new life has no blocks.
LEMMA FreshInvStep ==
  ASSUME LoopInv, BlockInv, FreshInv, [Next]_vars
  PROVE  FreshInv'
<1>a. ASSUME UNCHANGED <<life, loop, made>>
      PROVE  FreshInv'
  BY <1>a, Zenon DEF FreshInv, Fresh, loop
<1>b. ASSUME NEW b \in made
      PROVE  b[1] \in Node /\ b[2] \in Nat /\ b[3] \in Nat /\ Fresh(b)
  BY LedHashes, BlockIdParts, Zenon DEF BlockInv, FreshInv
<1>c. ASSUME NEW n \in Node, LoopMoved(n), UNCHANGED <<life, currentWave>>,
             \A m \in Node \ {n} : lastBlockCreationWave'[m] = lastBlockCreationWave[m],
             \/ lastBlockCreationWave'[n] = currentWave[n]
             \/ task'[n].at \in Busy
             \/ lastBlockCreationWave'[n] = lastBlockCreationWave[n] /\ task[n].at \notin Busy,
             NEW b \in made
      PROVE  Fresh(b)'
  <2>1. b[1] \in Node /\ Fresh(b)
    BY <1>b
  <2>2. CASE b[1] = n
    BY <1>c, <2>1, <2>2, Zenon DEF Fresh
  <2>3. CASE b[1] # n
    BY <1>c, <2>1, <2>3, Zenon DEF Fresh, LoopMoved
  <2> QED BY <2>2, <2>3
<1>1. ASSUME NEW n \in Node, ProcessTimeout(n)
      PROVE  FreshInv'
  <2>1. UNCHANGED <<life, lastBlockCreationWave, task, made>>
    BY <1>1, Zenon DEF ProcessTimeout, blocks
  <2>2. currentWave'[n] = currentWave[n] + 1 /\ \A m \in Node \ {n} : currentWave'[m] = currentWave[m]
    BY <1>1, Zenon DEF ProcessTimeout, LoopInv
  <2>3. currentWave[n] \in Nat
    BY ConstantTypes, SMT DEF LoopInv, WaveNo
  <2>4. ASSUME NEW b \in made
        PROVE  Fresh(b)'
    <3>1. b[1] \in Node /\ b[2] \in Nat /\ b[3] \in Nat /\ Fresh(b)
      BY <1>b
    <3>2. CASE b[1] = n
      <4>1. b[3] <= life'[n]
        BY <2>1, <3>1, <3>2, Zenon DEF Fresh
      <4>2. b[3] = life[n] => b[2] <= currentWave[n]
        BY <3>1, <3>2, Zenon DEF Fresh
      <4>3. b[3] = life[n] => b[2] <= currentWave'[n] /\ b[2] # currentWave'[n]
        BY <2>2, <2>3, <3>1, <4>2, SMT
      <4> QED BY <2>1, <3>2, <4>1, <4>3, Zenon DEF Fresh
    <3>3. CASE b[1] # n
      BY <2>1, <2>2, <3>1, <3>3, Zenon DEF Fresh
    <3> QED BY <3>2, <3>3
  <2> QED BY <2>1, <2>4, Zenon DEF FreshInv
<1>2. ASSUME NEW n \in Node, checkWave(n)
      PROVE  FreshInv'
  <2>1. UNCHANGED <<life, currentWave, made>> /\ task[n].at = "loop"
    BY <1>2, Zenon DEF checkWave, blocks
  <2>2. task[n].at \notin Busy
    BY <2>1, Zenon DEF Busy
  <2>3. CASE task' = [task EXCEPT ![n].at = "creating"] /\ UNCHANGED lastBlockCreationWave
    <3>1. LoopMoved(n)
      BY <2>3, TaskSteps, Zenon
    <3> QED BY <1>c, <2>1, <2>2, <2>3, <3>1, Zenon DEF FreshInv
  <2>4. CASE /\ lastBlockCreationWave' = [lastBlockCreationWave EXCEPT ![n] = currentWave[n]]
             /\ UNCHANGED task
    <3>1. LoopMoved(n)
      BY <2>4, Zenon DEF LoopMoved, LoopInv
    <3>2. /\ lastBlockCreationWave'[n] = currentWave[n]
          /\ \A m \in Node \ {n} : lastBlockCreationWave'[m] = lastBlockCreationWave[m]
      BY <2>4, Zenon DEF LoopInv
    <3> QED BY <1>c, <2>1, <3>1, <3>2, Zenon DEF FreshInv
  <2> QED BY <1>2, <2>3, <2>4, Zenon DEF checkWave
<1>3. ASSUME NEW n \in Node, createBlockFails(n)
      PROVE  FreshInv'
  <2>1. UNCHANGED <<life, currentWave, lastBlockCreationWave, made>> /\ task[n].at = "creating"
    BY <1>3, Zenon DEF createBlockFails, blocks
  <2>2. task[n].at \notin Busy
    BY <2>1, Zenon DEF Busy
  <2>3. LoopMoved(n)
    BY <1>3, TaskSteps, Zenon DEF createBlockFails
  <2> QED BY <1>c, <2>1, <2>2, <2>3, Zenon DEF FreshInv
<1>4. ASSUME NEW n \in Node, CreateBlock(n)
      PROVE  FreshInv'
  <2>0. PICK b : b = <<n, currentWave[n], life[n]>>
    BY Zenon
  <2>1. UNCHANGED <<life, currentWave, lastBlockCreationWave>> /\ made' = made \cup {b}
    BY <1>4, <2>0, Zenon DEF CreateBlock
  <2>2. LoopMoved(n) /\ task'[n].at = "created"
    BY <1>4, TaskSteps, Zenon DEF CreateBlock
  <2>3. task'[n].at \in Busy
    BY <2>2, Zenon DEF Busy
  <2>4. b[1] = n /\ b[2] = currentWave[n] /\ b[3] = life[n]
    BY <2>0
  <2>5. Fresh(b)'
    <3>1. life[n] <= life[n] /\ currentWave[n] <= currentWave[n]
      BY SMT DEF LoopInv, WaveNo
    <3> QED BY <2>1, <2>3, <2>4, <3>1, Zenon DEF Fresh
  <2>6. \A c \in made : Fresh(c)'
    BY <1>c, <2>1, <2>2, <2>3, Zenon
  <2> QED BY <2>1, <2>5, <2>6, Zenon DEF FreshInv
<1>5. ASSUME NEW n \in Node, BroadcastBlock(n) \/ sendProposal(n) \/ toNextValidator(n)
      PROVE  FreshInv'
  <2>1. UNCHANGED <<life, currentWave, lastBlockCreationWave, made>>
    BY <1>5, Zenon DEF BroadcastBlock, sendProposal, toNextValidator, blocks
  <2>2. LoopMoved(n) /\ task'[n].at \in {"sending", "waiting"}
    BY <1>5, SendSteps, Zenon
  <2>3. task'[n].at \in Busy
    BY <2>2, Zenon DEF Busy
  <2> QED BY <1>c, <2>1, <2>2, <2>3, Zenon DEF FreshInv
<1>6. ASSUME NEW n \in Node, broadcastComplete(n)
      PROVE  FreshInv'
  <2>1. UNCHANGED <<life, currentWave, made>>
    BY <1>6, Zenon DEF broadcastComplete, blocks
  <2>2. /\ lastBlockCreationWave'[n] = currentWave[n]
        /\ \A m \in Node \ {n} : lastBlockCreationWave'[m] = lastBlockCreationWave[m]
    BY <1>6, Zenon DEF broadcastComplete, LoopInv
  <2>3. LoopMoved(n)
    BY <1>6, TaskSteps, Zenon DEF broadcastComplete
  <2> QED BY <1>c, <2>1, <2>2, <2>3, Zenon DEF FreshInv
<1>7. ASSUME NEW n \in Node, restart(n)
      PROVE  FreshInv'
  <2>1. UNCHANGED made
    BY <1>7, Zenon DEF restart, blocks
  <2>2. /\ life'[n] = life[n] + 1
        /\ \A m \in Node \ {n} : /\ life'[m] = life[m] /\ currentWave'[m] = currentWave[m]
                                 /\ lastBlockCreationWave'[m] = lastBlockCreationWave[m]
    BY <1>7, Zenon DEF restart, LoopInv
  <2>3. LoopMoved(n)
    BY <1>7, TaskSteps, Zenon DEF restart
  <2>4. ASSUME NEW b \in made
        PROVE  Fresh(b)'
    <3>1. b[1] \in Node /\ b[3] \in Nat /\ Fresh(b)
      BY <1>b
    <3>2. CASE b[1] = n
      <4>1. b[3] <= life[n] /\ life[n] \in Nat
        BY <3>1, <3>2, Zenon DEF Fresh, LoopInv
      <4>2. b[3] <= life'[n] /\ b[3] # life'[n]
        BY <2>2, <3>1, <4>1, SMT
      <4> QED BY <3>2, <4>2, Zenon DEF Fresh
    <3>3. CASE b[1] # n
      BY <2>2, <2>3, <3>1, <3>3, Zenon DEF Fresh, LoopMoved
    <3> QED BY <3>2, <3>3
  <2> QED BY <2>1, <2>4, Zenon DEF FreshInv
<1>8. ASSUME NEW n \in Node, handleWaveProposing(n)
      PROVE  FreshInv'
  BY <1>2, <1>3, <1>4, <1>5, <1>6, <1>8, Zenon DEF handleWaveProposing, readReply, readDeadline
<1>9. CASE Next
  <2>1. \/ UNCHANGED <<life, loop, made>>
        \/ \E n \in Node : ProcessTimeout(n) \/ handleWaveProposing(n) \/ restart(n)
    <3>1. ASSUME NEW n \in Node, CreateBlock(n)
          PROVE  handleWaveProposing(n)
      BY <3>1, Zenon DEF handleWaveProposing
    <3>2. UNCHANGED blocks => UNCHANGED made
      BY SMT DEF blocks
    <3>3. UNCHANGED <<life, loop>> => UNCHANGED life /\ UNCHANGED loop
      BY Zenon
    <3> QED BY <1>9, <3>1, <3>2, <3>3, LoopStep, BlockStep, Zenon
  <2> QED BY <1>1, <1>7, <1>8, <1>a, <2>1, Zenon
<1>10. CASE UNCHANGED vars
  BY <1>a, <1>10, Zenon DEF vars, blocks
<1> QED BY <1>9, <1>10, Zenon

-----------------------------------------------------------------------------
(* Transactions *)

\* A block of this life of n has transaction t.
InBlock(n, t) == \E b \in made : b[1] = n /\ b[3] = life[n] /\ t \in Range(transactions[b])
Kept(n, t) == workChan[n][t] > 0 \/ mempool[n][t] # "absent" \/ InBlock(n, t)
LostNone(n) == \A t \in Tx : submitted[n][t] > 0 => Kept(n, t)

\* A block keeps its transactions.
LEMMA InBlockStays ==
  ASSUME LoopInv, BlockInv, FreshInv, [Next]_vars, NEW n \in Node, NEW t \in Tx,
         life'[n] = life[n], InBlock(n, t)
  PROVE  InBlock(n, t)'
<1>1. ASSUME UNCHANGED blocks
      PROVE  InBlock(n, t)'
  <2>1. UNCHANGED <<made, transactions>>
    BY <1>1, SMT DEF blocks
  <2> QED BY <2>1, Zenon DEF InBlock
<1>2. ASSUME NEW m \in Node, CreateBlock(m)
      PROVE  InBlock(n, t)'
  <2>0. PICK b : b = <<m, currentWave[m], life[m]>>
    BY Zenon
  <2>1. b \notin made /\ made' = made \cup {b}
    BY <1>2, <2>0, NewBlockIsNew, Zenon DEF CreateBlock
  <2>2. PICK q : transactions' = [transactions EXCEPT ![b] = q]
    BY <1>2, <2>0, Zenon DEF CreateBlock
  <2>3. PICK c \in made : c[1] = n /\ c[3] = life[n] /\ t \in Range(transactions[c])
    BY Zenon DEF InBlock
  <2>4. c # b /\ c \in BlockId
    BY <2>1, <2>3, LedHashes, Zenon DEF BlockInv
  <2>5. transactions'[c] = transactions[c]
    BY <2>2, <2>4, Zenon DEF BlockInv
  <2> QED BY <2>1, <2>3, <2>5, Zenon DEF InBlock
<1>3. CASE UNCHANGED vars
  BY <1>1, <1>3, Zenon DEF vars
<1> QED BY <1>1, <1>2, <1>3, BlockStep, Zenon

\* Each step that takes a transaction from the mempool puts it in a block.
LEMMA LostStep ==
  ASSUME LoopInv, BlockInv, PoolTypes, FreshInv, NoTransactionLost, [Next]_vars
  PROVE  NoTransactionLost'
<1>a. \A n \in Node : LostNone(n)
  BY Zenon DEF NoTransactionLost, LostNone, Kept, InBlock
<1>b. ASSUME \A n \in Node : LostNone(n)'
      PROVE  NoTransactionLost'
  <2>1. ASSUME NEW n \in Node, NEW t \in Tx, submitted'[n][t] > 0
        PROVE  \/ workChan'[n][t] > 0
               \/ mempool'[n][t] # "absent"
               \/ InBlock(n, t)'
    BY <1>b, <2>1, Zenon DEF LostNone, Kept
  <2> QED BY <2>1, Zenon DEF NoTransactionLost, InBlock
<1>c. ASSUME NEW n \in Node, life'[n] = life[n], workChan'[n] = workChan[n],
             mempool'[n] = mempool[n], submitted'[n] = submitted[n]
      PROVE  LostNone(n)'
  <2>1. ASSUME NEW t \in Tx, submitted'[n][t] > 0
        PROVE  Kept(n, t)'
    <3>1. Kept(n, t)
      BY <1>a, <1>c, <2>1, Zenon DEF LostNone
    <3>2. InBlock(n, t) => InBlock(n, t)'
      BY <1>c, InBlockStays, Zenon
    <3> QED BY <1>c, <3>1, <3>2, Zenon DEF Kept
  <2> QED BY <2>1, Zenon DEF LostNone
<1>d. ASSUME UNCHANGED <<life, pool>>
      PROVE  NoTransactionLost'
  <2>1. UNCHANGED <<life, workChan, mempool, submitted>>
    BY <1>d, SMT DEF pool
  <2> QED BY <1>b, <1>c, <2>1, Zenon
<1>1. ASSUME NEW n \in Node, createBlockFails(n)
      PROVE  NoTransactionLost'
  <2>1. UNCHANGED <<life, workChan, submitted>>
    BY <1>1, Zenon DEF createBlockFails
  <2>2. PICK q : mempool' = [mempool EXCEPT ![n] = marked(n, q, "included")]
    BY <1>1, Zenon DEF createBlockFails
  <2>3. mempool'[n] = marked(n, q, "included") /\ \A m \in Node \ {n} : mempool'[m] = mempool[m]
    BY <2>2, Zenon DEF PoolTypes
  <2>4. \A t \in Tx : mempool[n][t] # "absent" => mempool'[n][t] # "absent"
    BY <2>3, Zenon DEF marked
  <2>5. LostNone(n)'
    BY <1>a, <2>1, <2>4, InBlockStays, Zenon DEF LostNone, Kept
  <2> QED BY <1>b, <1>c, <2>1, <2>3, <2>5, Zenon
<1>2. ASSUME NEW n \in Node, CreateBlock(n)
      PROVE  NoTransactionLost'
  <2>0. PICK b : b = <<n, currentWave[n], life[n]>>
    BY Zenon
  <2>1. UNCHANGED <<life, workChan, submitted>> /\ made' = made \cup {b}
    BY <1>2, <2>0, Zenon DEF CreateBlock
  <2>2. PICK q : /\ transactions' = [transactions EXCEPT ![b] = q]
                 /\ mempool' = [mempool EXCEPT ![n] = marked(n, q, "absent")]
    BY <1>2, <2>0, Zenon DEF CreateBlock, RemoveTransactions
  <2>3. mempool'[n] = marked(n, q, "absent") /\ \A m \in Node \ {n} : mempool'[m] = mempool[m]
    BY <2>2, Zenon DEF PoolTypes
  <2>4. b[1] = n /\ b[3] = life[n] /\ b \in BlockId
    BY <2>0, NewBlockId
  <2>5. transactions'[b] = q
    BY <2>2, <2>4, Zenon DEF BlockInv
  <2>6. ASSUME NEW t \in Tx, submitted[n][t] > 0
        PROVE  Kept(n, t)'
    <3>1. CASE t \in Range(q)
      <4>1. InBlock(n, t)'
        BY <2>1, <2>4, <2>5, <3>1, Zenon DEF InBlock
      <4> QED BY <4>1, Zenon DEF Kept
    <3>2. CASE t \notin Range(q)
      <4>1. mempool'[n][t] = mempool[n][t]
        BY <2>3, <3>2, Zenon DEF marked
      <4> QED BY <1>a, <2>1, <2>6, <4>1, InBlockStays, Zenon DEF LostNone, Kept
    <3> QED BY <3>1, <3>2
  <2>7. LostNone(n)'
    BY <2>1, <2>6, Zenon DEF LostNone
  <2> QED BY <1>b, <1>c, <2>1, <2>3, <2>7, Zenon
<1>3. ASSUME NEW n \in Node, NEW t \in Tx, AddTransaction(n, t)
      PROVE  NoTransactionLost'
  <2>1. UNCHANGED <<life, mempool>>
    BY <1>3, Zenon DEF AddTransaction, loop
  <2>2. /\ workChan' = [workChan EXCEPT ![n][t] = @ + 1]
        /\ submitted' = [submitted EXCEPT ![n][t] = @ + 1]
    BY <1>3, Zenon DEF AddTransaction
  <2>3. /\ \A m \in Node \ {n} : workChan'[m] = workChan[m] /\ submitted'[m] = submitted[m]
        /\ \A u \in Tx \ {t} : workChan'[n][u] = workChan[n][u] /\ submitted'[n][u] = submitted[n][u]
    BY <2>2, SMT DEF PoolTypes
  <2>4. workChan'[n][t] > 0
    BY <2>2, SMT DEF PoolTypes
  <2>5. LostNone(n)'
    BY <1>a, <2>1, <2>3, <2>4, InBlockStays, Zenon DEF LostNone, Kept
  <2> QED BY <1>b, <1>c, <2>1, <2>3, <2>5, Zenon
<1>4. ASSUME NEW n \in Node, NEW t \in Tx, worker(n, t)
      PROVE  NoTransactionLost'
  <2>1. UNCHANGED <<life, submitted>>
    BY <1>4, Zenon DEF worker, loop
  <2>2. /\ workChan' = [workChan EXCEPT ![n][t] = @ - 1]
        /\ mempool' = [mempool EXCEPT ![n][t] = "pending"]
    BY <1>4, Zenon DEF worker
  <2>3. /\ \A m \in Node \ {n} : workChan'[m] = workChan[m] /\ mempool'[m] = mempool[m]
        /\ \A u \in Tx \ {t} : workChan'[n][u] = workChan[n][u] /\ mempool'[n][u] = mempool[n][u]
        /\ mempool'[n][t] = "pending"
    BY <2>2, SMT DEF PoolTypes
  <2>4. mempool'[n][t] # "absent"
    BY <2>3, Zenon
  <2>5. LostNone(n)'
    BY <1>a, <2>1, <2>3, <2>4, InBlockStays, Zenon DEF LostNone, Kept
  <2> QED BY <1>b, <1>c, <2>1, <2>3, <2>5, Zenon
<1>5. ASSUME NEW n \in Node, NEW p \in handlers[n], processBlock(n, p)
      PROVE  NoTransactionLost'
  <2>1. UNCHANGED <<life, submitted>>
    BY <1>5, Zenon DEF processBlock
  <2>2. CASE UNCHANGED <<workChan, mempool>>
    BY <1>d, <2>1, <2>2, Zenon DEF pool
  <2>3. ASSUME NEW q, backToMempool(n, q)
        PROVE  NoTransactionLost'
    <3>1. \A m \in Node \ {n} : workChan'[m] = workChan[m] /\ mempool'[m] = mempool[m]
      BY <2>3, Zenon DEF backToMempool, PoolTypes
    <3>2. ASSUME NEW t \in Tx
          PROVE  /\ workChan[n][t] > 0 => workChan'[n][t] > 0
                 /\ mempool[n][t] # "absent" => mempool'[n][t] # "absent"
      <4>1. workChan'[n][t] = IF t \in Range(q) /\ mempool[n][t] = "absent"
                              THEN workChan[n][t] + 1 ELSE workChan[n][t]
        BY <2>3, Zenon DEF backToMempool, PoolTypes
      <4>2. mempool'[n][t] = IF t \in Range(q) /\ mempool[n][t] # "absent"
                             THEN "pending" ELSE mempool[n][t]
        BY <2>3, Zenon DEF backToMempool, PoolTypes
      <4>3. workChan[n][t] \in Nat
        BY Zenon DEF PoolTypes
      <4>4. workChan[n][t] > 0 => workChan'[n][t] > 0
        BY <4>1, <4>3, SMT
      <4>5. mempool[n][t] # "absent" => mempool'[n][t] # "absent"
        BY <4>2, Zenon
      <4> QED BY <4>4, <4>5
    <3>3. LostNone(n)'
      BY <1>a, <2>1, <3>2, InBlockStays, Zenon DEF LostNone, Kept
    <3> QED BY <1>b, <1>c, <2>1, <3>1, <3>3, Zenon
  <2> QED BY <1>5, <2>2, <2>3, Zenon DEF processBlock
<1>6. ASSUME NEW n \in Node, restart(n)
      PROVE  NoTransactionLost'
  <2>1. \A m \in Node \ {n} : /\ life'[m] = life[m] /\ workChan'[m] = workChan[m]
                              /\ mempool'[m] = mempool[m] /\ submitted'[m] = submitted[m]
    BY <1>6, Zenon DEF restart, LoopInv, PoolTypes
  <2>2. \A t \in Tx : submitted'[n][t] = 0
    BY <1>6, Zenon DEF restart, PoolTypes
  <2>3. ~(0 > 0)
    BY SMT
  <2>4. LostNone(n)'
    BY <2>2, <2>3, Zenon DEF LostNone
  <2> QED BY <1>b, <1>c, <2>1, <2>4, Zenon
<1>7. ASSUME NEW n \in Node,
             \/ ProcessTimeout(n) \/ checkWave(n) \/ BroadcastBlock(n) \/ sendProposal(n)
             \/ toNextValidator(n) \/ broadcastComplete(n)
             \/ \E p \in handlers[n] : verifyProposal(n, p) \/ storeProposal(n, p)
             \/ \E m \in Node : syncWithValidator(n, m) \/ \E h \in syncs[n][m] : syncBlock(n, m, h)
      PROVE  NoTransactionLost'
  <2>1. UNCHANGED <<life, pool>>
    BY <1>7, Zenon DEF ProcessTimeout, checkWave, BroadcastBlock, sendProposal, toNextValidator,
         broadcastComplete, verifyProposal, storeProposal, syncWithValidator, syncBlock
  <2> QED BY <2>1, <1>d
<1>8. CASE Next
  <2>1. ASSUME NEW n \in Node, handlerStep(n)
        PROVE  NoTransactionLost'
    BY <1>5, <1>7, <2>1, Zenon DEF handlerStep
  <2>2. ASSUME NEW n \in Node, handleWaveProposing(n)
        PROVE  NoTransactionLost'
    BY <1>1, <1>2, <1>7, <2>2, Zenon DEF handleWaveProposing, readReply, readDeadline
  <2> QED BY <1>3, <1>4, <1>6, <1>7, <1>8, <2>1, <2>2, Zenon DEF Next
<1>9. CASE UNCHANGED vars
  BY <1>d, <1>9, Zenon DEF vars
<1> QED BY <1>8, <1>9, Zenon

-----------------------------------------------------------------------------
(* Theorems *)

\* The invariant holds at the start.
LEMMA InvInit == Init => Inv
<1> SUFFICES ASSUME Init PROVE Inv
  OBVIOUS
<1>1. LoopInv
  <2>1. 0 \in Nat /\ 0 \in 0..MaxWave /\ startWave \in WaveNo /\ \A n \in Node : 0 \in 0..MaxRestarts[n]
    BY ConstantTypes, SMT DEF startWave, WaveNo
  <2>2. DOMAIN idle = {"at", "block", "todo"} /\ idle.at # "creating"
    BY SMT DEF idle
  <2>3. /\ life \in [Node -> Nat] /\ \A n \in Node : life[n] \in 0..MaxRestarts[n]
        /\ currentWave \in [Node -> WaveNo]
        /\ lastBlockCreationWave \in [Node -> 0..MaxWave]
    BY <2>1, Zenon DEF Init
  <2>4. DOMAIN task = Node /\ \A n \in Node : task[n] = idle
    BY Zenon DEF Init
  <2> QED BY <2>2, <2>3, <2>4, Zenon DEF LoopInv
<1>2. BlockInv
  <2>1. idle.at \notin Busy
    BY SMT DEF idle, Busy
  <2>2. \A n \in Node : task[n] = idle
    BY Zenon DEF Init
  <2>3. /\ made = {} /\ references \in [BlockId -> SUBSET Hash] /\ DOMAIN transactions = BlockId
        /\ resigned \in [Node -> SUBSET made]
    BY Zenon DEF Init
  <2> QED BY <2>1, <2>2, <2>3, Zenon DEF BlockInv
<1>3. EngineInv
  <2>1. NewBlockProcessor.dag = {} /\ NewBlockSynchronizer \in [Node -> SUBSET LedHash]
    BY SMT DEF NewBlockProcessor, NewDAG, NewBlockSynchronizer
  <2> QED BY <2>1, Zenon DEF Init, EngineInv
<1>4. PoolTypes
  <2>1. NewBlockProcessor.mempool \in [Tx -> {"absent", "pending", "included"}]
    BY SMT DEF NewBlockProcessor, NewMempool
  <2>2. [t \in Tx |-> 0] \in [Tx -> Nat]
    BY SMT
  <2> QED BY <2>1, <2>2, Zenon DEF Init, PoolTypes
<1>5. FreshInv
  BY Zenon DEF Init, FreshInv
<1>6. NoTransactionLost
  <2>1. \A n \in Node : \A t \in Tx : submitted[n][t] = 0
    BY Zenon DEF Init
  <2>2. ~(0 > 0)
    BY SMT
  <2> QED BY <2>1, <2>2, Zenon DEF NoTransactionLost
<1> QED BY <1>1, <1>2, <1>3, <1>4, <1>5, <1>6, Zenon DEF Inv

\* The inductive invariant: each of its parts is kept by every step.
THEOREM InvAlways == Spec => []Inv
<1>1. Inv /\ [Next]_vars => Inv'
  BY LoopInvStep, BlockInvStep, EngineInvStep, PoolTypesStep, FreshInvStep, LostStep, Zenon DEF Inv
<1> QED BY InvInit, <1>1, PTL DEF Spec

\* The variables of the validators of cmd/api keep their types.
THEOREM TypeCorrect == Spec => []TypeOK
<1>1. Inv => TypeOK
  <2> SUFFICES ASSUME Inv PROVE TypeOK
    OBVIOUS
  <2>1. made \subseteq BlockId
    BY LedHashes, Zenon DEF Inv, BlockInv
  <2>2. /\ dag \in [Node -> SUBSET Hash] /\ proposals \in [Node -> SUBSET Hash]
        /\ savedLeaderBlock \in [Node -> Hash \cup {None}]
    BY LedHashes, SMT DEF Inv, EngineInv
  <2>3. ASSUME NEW n \in Node, NEW p \in handlers[n]
        PROVE  p.hash \in Hash /\ p.at \in {"received", "verified", "stored"}
    <3>1. p \in Message
      BY Zenon DEF Inv, EngineInv
    <3> QED BY <3>1, LedHashes, SMT DEF Message
  <2> QED BY <2>1, <2>2, <2>3, Zenon DEF Inv, LoopInv, BlockInv, PoolTypes, TypeOK
<1> QED BY <1>1, InvAlways, PTL

\* Blocks in a DAG, and the saved leader block, are from the leader of their
\* wave, whatever a validator receives, fetches or forgets in a restart.
THEOREM BlocksAlwaysFromLeaders == Spec => []BlocksFromLeaders
<1>1. Inv => BlocksFromLeaders
  <2> SUFFICES ASSUME Inv PROVE BlocksFromLeaders
    OBVIOUS
  <2>1. ASSUME NEW h \in LedHash
        PROVE  validatorOf(h) = leader(waveOf(h))
    <3>1. h[1] \in LedBlock
      BY SMT DEF LedHash
    <3> QED BY <3>1, Zenon DEF LedBlock, validatorOf, waveOf
  <2>2. \A n \in Node : dag[n] \subseteq LedHash /\ savedLeaderBlock[n] \in LedHash \cup {None}
    BY Zenon DEF Inv, EngineInv
  <2> QED BY <2>1, <2>2, Zenon DEF BlocksFromLeaders
<1> QED BY <1>1, InvAlways, PTL

\* A transaction handed to AddTransaction stays with the validator until a block
\* of it has the transaction, however often blocks fail, come in or are made.
THEOREM NoTransactionEverLost == Spec => []NoTransactionLost
<1>1. Inv => NoTransactionLost
  BY Zenon DEF Inv
<1> QED BY <1>1, InvAlways, PTL

-----------------------------------------------------------------------------
(* The accounts: one transaction *)

\* The contents of sm.accounts.
isLedger(acc) == IsFiniteSet(DOMAIN acc) /\ acc \in [DOMAIN acc -> Account]

\* The nonce of the sender is past that of t: t cannot be applied any more.
spent(acc, t) == t.from \in DOMAIN acc /\ t.nonce < acc[t.from].nonce

\* Nonces do not go back.
noEarlier(acc, new) ==
  DOMAIN acc \subseteq DOMAIN new /\ \A a \in DOMAIN acc : acc[a].nonce <= new[a].nonce

\* paid is acc once the sender of t has paid and used its nonce.
hasPaid(acc, t, paid) ==
  /\ isLedger(paid) /\ DOMAIN paid = DOMAIN acc
  /\ paid[t.from].nonce = t.nonce + 1
  /\ \A a \in DOMAIN acc \ {t.from} : paid[a] = acc[a]
  /\ total(balances(paid)) = total(balances(acc)) - t.value

\* new is acc once a has got v.
hasGot(acc, a, v, new) ==
  /\ isLedger(new) /\ DOMAIN new = DOMAIN acc \cup {a}
  /\ \A x \in DOMAIN acc : new[x].nonce = acc[x].nonce
  /\ total(balances(new)) = total(balances(acc)) + v

\* new is acc once t was applied.
hasExecuted(acc, t, new) ==
  /\ isLedger(new) /\ noEarlier(acc, new) /\ spent(new, t)
  /\ total(balances(new)) = total(balances(acc))

\* The parts of an account.
LEMMA AccountParts ==
  ASSUME NEW acc, isLedger(acc), NEW a \in DOMAIN acc
  PROVE  /\ acc[a] \in Account /\ acc[a].balance \in Nat /\ acc[a].nonce \in Nat
         /\ acc[a].balance \in Int
<1>1. acc[a] \in Account
  BY Zenon DEF isLedger
<1> QED BY <1>1, SMT DEF Account

\* The balances, as a function.
LEMMA BalanceParts ==
  ASSUME NEW acc, isLedger(acc), NEW f, f = balances(acc)
  PROVE  /\ DOMAIN f = DOMAIN acc /\ IsFiniteSet(DOMAIN f)
         /\ \A a \in DOMAIN f : f[a] = acc[a].balance /\ f[a] \in Int
<1>1. DOMAIN f = DOMAIN acc /\ \A a \in DOMAIN acc : f[a] = acc[a].balance
  BY Zenon DEF balances
<1>2. \A a \in DOMAIN acc : acc[a].balance \in Int
  BY AccountParts, Zenon
<1> QED BY <1>1, <1>2, Zenon DEF isLedger

\* The sender pays and uses a nonce.
LEMMA PaidParts ==
  ASSUME NEW acc, isLedger(acc), NEW t \in Tx, executable(acc, t),
         NEW paid,
         paid = [acc EXCEPT ![t.from] = [balance |-> @.balance - t.value, nonce |-> @.nonce + 1]]
  PROVE  hasPaid(acc, t, paid)
<1>1. /\ t.from \in DOMAIN acc /\ acc[t.from].balance >= t.value /\ acc[t.from].nonce = t.nonce
      /\ t.value \in Nat /\ t.nonce \in Nat
  BY ConstantTypes, Zenon DEF executable
<1>2. PICK old : old = acc[t.from]
  BY Zenon
<1>3. old \in Account /\ old.balance \in Nat /\ old.nonce \in Nat
  BY <1>1, <1>2, AccountParts, Zenon
<1>4. PICK new : new = [balance |-> old.balance - t.value, nonce |-> old.nonce + 1]
  BY Zenon
<1>5. new \in Account /\ new.balance = old.balance - t.value /\ new.nonce = t.nonce + 1
  BY <1>1, <1>2, <1>3, <1>4, SMTT(30) DEF Account
<1>6. paid = [acc EXCEPT ![t.from] = new]
  BY <1>2, <1>4, Zenon
<1>7. DOMAIN paid = DOMAIN acc /\ paid[t.from] = new /\ \A a \in DOMAIN acc \ {t.from} : paid[a] = acc[a]
  BY <1>1, <1>6, Zenon
<1>8. isLedger(paid)
  BY <1>1, <1>5, <1>6, <1>7, Zenon DEF isLedger
<1>9. total(balances(paid)) = total(balances(acc)) - t.value
  <2>1. PICK f : f = balances(acc)
    BY Zenon
  <2>2. PICK g : g = balances(paid)
    BY Zenon
  <2>3. /\ DOMAIN f = DOMAIN acc /\ IsFiniteSet(DOMAIN f)
        /\ \A a \in DOMAIN f : f[a] = acc[a].balance /\ f[a] \in Int
    BY <2>1, BalanceParts
  <2>4. /\ DOMAIN g = DOMAIN paid /\ IsFiniteSet(DOMAIN g)
        /\ \A a \in DOMAIN g : g[a] = paid[a].balance /\ g[a] \in Int
    <3>1. PICK p : p = paid
      BY Zenon
    <3>2. isLedger(p) /\ g = balances(p)
      BY <3>1, <2>2, <1>8, Zenon
    <3>3. /\ DOMAIN g = DOMAIN p /\ IsFiniteSet(DOMAIN g)
          /\ \A a \in DOMAIN g : g[a] = p[a].balance /\ g[a] \in Int
      BY <3>2, BalanceParts
    <3> QED BY <3>1, <3>3, Zenon
  <2>5. PICK D : D = DOMAIN acc
    BY Zenon
  <2>6. /\ IsFiniteSet(D) /\ DOMAIN f = D /\ DOMAIN g = D /\ t.from \in D
        /\ \A a \in D : f[a] \in Int /\ g[a] \in Int
        /\ \A a \in D \ {t.from} : g[a] = f[a]
    BY <2>3, <2>4, <2>5, <1>1, <1>7, Zenon
  <2>7. total(g) = total(f) + g[t.from] - f[t.from]
    BY <2>6, TotalChange
  <2>8. f[t.from] = old.balance /\ g[t.from] = old.balance - t.value
    BY <2>3, <2>4, <1>1, <1>2, <1>5, <1>7, Zenon
  <2>9. total(f) \in Int
    BY <2>3, TotalType, Zenon
  <2>10. total(g) = total(f) - t.value
    BY <2>7, <2>8, <2>9, <1>1, <1>3, SMTT(30)
  <2> QED BY <2>1, <2>2, <2>10, Zenon
<1> QED BY <1>5, <1>7, <1>8, <1>9, Zenon DEF hasPaid

\* The receiver gets the value, in an account that is made for it if need be.
LEMMA CreditedParts ==
  ASSUME NEW acc, isLedger(acc), NEW a, NEW v \in Nat, NEW new, new = credited(acc, a, v)
  PROVE  hasGot(acc, a, v, new)
<1>1. PICK f : f = balances(acc)
  BY Zenon
<1>2. PICK g : g = balances(new)
  BY Zenon
<1>3. PICK D : D = DOMAIN acc
  BY Zenon
<1>4. DOMAIN f = D /\ IsFiniteSet(D) /\ \A x \in D : f[x] = acc[x].balance /\ f[x] \in Int
  <2>1. /\ DOMAIN f = DOMAIN acc /\ IsFiniteSet(DOMAIN f)
        /\ \A x \in DOMAIN f : f[x] = acc[x].balance /\ f[x] \in Int
    BY <1>1, BalanceParts
  <2> QED BY <2>1, <1>3, Zenon
<1>5. total(f) \in Int
  BY <1>4, TotalType, Zenon
<1>6. ASSUME isLedger(new)
      PROVE  /\ DOMAIN g = DOMAIN new
             /\ \A x \in DOMAIN g : g[x] = new[x].balance /\ g[x] \in Int
  <2>1. /\ DOMAIN g = DOMAIN new /\ IsFiniteSet(DOMAIN g)
        /\ \A x \in DOMAIN g : g[x] = new[x].balance /\ g[x] \in Int
    BY <1>2, <1>6, BalanceParts
  <2> QED BY <2>1, Zenon
<1>7. CASE a \in D
  <2>1. PICK r : r = [balance |-> acc[a].balance + v, nonce |-> acc[a].nonce]
    BY Zenon
  <2>2. acc[a] \in Account /\ acc[a].balance \in Nat /\ acc[a].nonce \in Nat
    BY <1>3, <1>7, AccountParts, Zenon
  <2>3. r \in Account /\ r.balance = acc[a].balance + v /\ r.nonce = acc[a].nonce
    BY <2>1, <2>2, SMT DEF Account
  <2>4. new = [acc EXCEPT ![a] = r]
    BY <2>1, <1>3, <1>7, Zenon DEF credited
  <2>5. DOMAIN new = D /\ new[a] = r /\ \A x \in D \ {a} : new[x] = acc[x]
    BY <2>4, <1>3, <1>7, Zenon
  <2>6. isLedger(new)
    <3>1. acc \in [D -> Account]
      BY <1>3, Zenon DEF isLedger
    <3>2. new \in [D -> Account]
      BY <3>1, <2>3, <2>4, Zenon
    <3> QED BY <3>2, <2>5, <1>4, Zenon DEF isLedger
  <2>7. DOMAIN g = D /\ (\A x \in D : g[x] = new[x].balance /\ g[x] \in Int)
    BY <2>5, <2>6, <1>6, Zenon
  <2>8. \A x \in D \ {a} : g[x] = f[x]
    BY <2>5, <2>7, <1>4, Zenon
  <2>9. total(g) = total(f) + g[a] - f[a]
    BY <2>7, <2>8, <1>4, <1>7, TotalChange
  <2>10. f[a] = acc[a].balance /\ g[a] = acc[a].balance + v
    BY <2>3, <2>5, <2>7, <1>4, <1>7, ZenonT(40)
  <2>11. total(g) = total(f) + v
    BY <2>2, <2>9, <2>10, <1>5, SMTT(30)
  <2>12. \A x \in D : new[x].nonce = acc[x].nonce
    BY <2>3, <2>5, Zenon
  <2>13. D \cup {a} = D
    BY <1>7, Zenon
  <2> QED BY <2>5, <2>6, <2>11, <2>12, <2>13, <1>1, <1>2, <1>3, Zenon DEF hasGot
<1>8. CASE a \notin D
  <2>1. PICK r : r = [balance |-> v, nonce |-> 0]
    BY Zenon
  <2>2. r \in Account /\ r.balance = v
    BY <2>1, SMT DEF Account
  <2>3. new = [x \in D \cup {a} |-> IF x = a THEN r ELSE acc[x]]
    BY <2>1, <1>3, <1>8, Zenon DEF credited
  <2>4. DOMAIN new = D \cup {a} /\ new[a] = r /\ \A x \in D : new[x] = acc[x]
    BY <2>3, <1>8, Zenon
  <2>5. isLedger(new)
    <3>1. acc \in [D -> Account]
      BY <1>3, Zenon DEF isLedger
    <3>2. new \in [D \cup {a} -> Account]
      BY <3>1, <2>2, <2>3, Zenon
    <3>3. IsFiniteSet(D \cup {a})
      BY <1>4, FS_AddElement, Zenon
    <3> QED BY <3>2, <3>3, <2>4, Zenon DEF isLedger
  <2>6. /\ DOMAIN g = D \cup {a} /\ g[a] = v /\ \A x \in D : g[x] = f[x]
        /\ g[a] \in Int
    <3>1. DOMAIN g = D \cup {a} /\ \A x \in D \cup {a} : g[x] = new[x].balance /\ g[x] \in Int
      BY <2>4, <2>5, <1>6, Zenon
    <3>2. g[a] = v /\ g[a] \in Int
      BY <3>1, <2>2, <2>4, Zenon
    <3>3. \A x \in D : g[x] = acc[x].balance
      BY <3>1, <2>4, Zenon
    <3>4. \A x \in D : f[x] = acc[x].balance
      BY <1>4, Zenon
    <3> QED BY <3>1, <3>2, <3>3, <3>4, Zenon
  <2>7. total(g) = total(f) + g[a]
    BY <2>6, <1>4, <1>8, TotalAdd
  <2> QED BY <2>4, <2>5, <2>6, <2>7, <1>1, <1>2, <1>3, Zenon DEF hasGot
<1> QED BY <1>7, <1>8, Zenon

\* A transaction that is applied keeps the total and uses up its nonce; it may
\* be a payment of an account to itself.
LEMMA ExecuteParts ==
  ASSUME NEW acc, isLedger(acc), NEW t \in Tx, executable(acc, t), NEW new, new = execute(acc, t)
  PROVE  hasExecuted(acc, t, new)
<1>1. PICK paid : paid = [acc EXCEPT ![t.from] = [balance |-> @.balance - t.value, nonce |-> @.nonce + 1]]
  BY Zenon
<1>2. /\ isLedger(paid) /\ DOMAIN paid = DOMAIN acc
      /\ paid[t.from].nonce = t.nonce + 1
      /\ \A a \in DOMAIN acc \ {t.from} : paid[a] = acc[a]
      /\ total(balances(paid)) = total(balances(acc)) - t.value
  <2>1. hasPaid(acc, t, paid)
    BY <1>1, PaidParts, Zenon
  <2> QED BY <2>1, Zenon DEF hasPaid
<1>3. new = credited(paid, t.to, t.value)
  BY <1>1, Zenon DEF execute
<1>4. t.value \in Nat /\ t.nonce \in Nat
  BY ConstantTypes, Zenon
<1>5. /\ isLedger(new) /\ DOMAIN new = DOMAIN paid \cup {t.to}
      /\ \A x \in DOMAIN paid : new[x].nonce = paid[x].nonce
      /\ total(balances(new)) = total(balances(paid)) + t.value
  <2>1. hasGot(paid, t.to, t.value, new)
    BY <1>2, <1>3, <1>4, CreditedParts, Zenon
  <2> QED BY <2>1, Zenon DEF hasGot
<1>6. t.from \in DOMAIN acc /\ acc[t.from].nonce = t.nonce
  BY Zenon DEF executable
<1>7. \A a \in DOMAIN acc : acc[a].nonce <= new[a].nonce
  <2>1. ASSUME NEW a \in DOMAIN acc
        PROVE  acc[a].nonce <= new[a].nonce
    <3>1. acc[a].nonce \in Nat /\ new[a].nonce = paid[a].nonce
      BY <1>2, <1>5, AccountParts, Zenon
    <3>2. CASE a = t.from
      BY <3>1, <3>2, <1>2, <1>4, <1>6, SMTT(30)
    <3>3. CASE a # t.from
      <4>1. new[a].nonce = acc[a].nonce
        BY <3>1, <3>3, <1>2, Zenon
      <4> QED BY <4>1, <3>1, SMT
    <3> QED BY <3>2, <3>3, Zenon
  <2> QED BY <2>1, Zenon
<1>8. noEarlier(acc, new)
  BY <1>2, <1>5, <1>7, Zenon DEF noEarlier
<1>9. spent(new, t)
  <2>1. t.from \in DOMAIN new /\ new[t.from].nonce = t.nonce + 1
    BY <1>2, <1>5, <1>6, Zenon
  <2>2. t.nonce < t.nonce + 1
    BY <1>4, SMT
  <2> QED BY <2>1, <2>2, Zenon DEF spent
<1>10. total(balances(acc)) \in Int
  <2>1. PICK f : f = balances(acc)
    BY Zenon
  <2>2. /\ DOMAIN f = DOMAIN acc /\ IsFiniteSet(DOMAIN f)
        /\ \A x \in DOMAIN f : f[x] = acc[x].balance /\ f[x] \in Int
    BY <2>1, BalanceParts, SMTT(30)
  <2> QED BY <2>1, <2>2, TotalType, Zenon
<1>11. total(balances(new)) = total(balances(acc))
  BY <1>2, <1>4, <1>5, <1>10, SMTT(30)
<1> QED BY <1>5, <1>8, <1>9, <1>11, Zenon DEF hasExecuted

-----------------------------------------------------------------------------
(* The accounts: what the transactions applied make of them *)

\* The account of a, which may not be there yet.
accountIn(acc, a) == IF a \in DOMAIN acc THEN acc[a] ELSE [balance |-> 0, nonce |-> 0]

\* What transaction t adds to the nonce of account a.
step(a, t) == IF t.from = a THEN 1 ELSE 0

\* new is acc with the change and the step of t in every account.
hasMoved(acc, t, new) ==
  new = [a \in DOMAIN acc \cup {t.to} |->
           [balance |-> accountIn(acc, a).balance + change(a, t),
            nonce |-> accountIn(acc, a).nonce + step(a, t)]]

\* new is acc with v more in account a.
hasMore(acc, a, v, new) ==
  new = [x \in DOMAIN acc \cup {a} |->
           IF x = a THEN [balance |-> accountIn(acc, a).balance + v, nonce |-> accountIn(acc, a).nonce]
           ELSE acc[x]]

\* Changes and steps are numbers.
LEMMA ChangeType ==
  ASSUME NEW a, NEW t \in Tx
  PROVE  change(a, t) \in Int /\ step(a, t) \in Nat
<1>1. t.value \in Nat
  BY ConstantTypes, Zenon
<1> QED BY <1>1, SMT DEF change, step

\* The account a validator starts with.
LEMMA InitialParts ==
  ASSUME NEW a
  PROVE  initialAccount(a) \in Account /\ initialAccount(a).balance \in Nat /\ initialAccount(a).nonce \in Nat
<1>1. initialAccount(a) \in Account
  <2>1. CASE a \in DOMAIN InitialAccounts
    <3>1. InitialAccounts[a] \in Account
      BY <2>1, ConstantTypes, Zenon
    <3> QED BY <2>1, <3>1, Zenon DEF initialAccount
  <2>2. CASE a \notin DOMAIN InitialAccounts
    <3>1. [balance |-> 0, nonce |-> 0] \in Account
      BY SMT DEF Account
    <3> QED BY <2>2, <3>1, Zenon DEF initialAccount
  <2> QED BY <2>1, <2>2, Zenon
<1> QED BY <1>1, SMT DEF Account

\* One more transaction.
LEMMA AfterOneMore ==
  ASSUME NEW S \in SUBSET Tx, NEW t \in Tx, t \notin S, NEW a
  PROVE  /\ balanceAfter(a, S) \in Int /\ nonceAfter(a, S) \in Nat
         /\ balanceAfter(a, S \cup {t}) = balanceAfter(a, S) + change(a, t)
         /\ nonceAfter(a, S \cup {t}) = nonceAfter(a, S) + step(a, t)
<1>1. IsFiniteSet(S)
  BY ConstantTypes, FS_Subset, Zenon
<1>2. PICK b, c : b = initialAccount(a).balance /\ c = initialAccount(a).nonce
  BY Zenon
<1>3. b \in Nat /\ c \in Nat
  BY <1>2, InitialParts, Zenon
<1>4. PICK f : f = [u \in S |-> change(a, u)]
  BY Zenon
<1>5. PICK g : g = [u \in S \cup {t} |-> change(a, u)]
  BY Zenon
<1>6. DOMAIN f = S /\ \A u \in S : f[u] \in Int
  BY <1>4, ChangeType, Zenon
<1>7. /\ DOMAIN g = S \cup {t} /\ g[t] = change(a, t) /\ g[t] \in Int
      /\ \A u \in S : g[u] = f[u]
  BY <1>4, <1>5, ChangeType, Zenon
<1>8. total(f) \in Int
  BY <1>1, <1>6, TotalType, Zenon
<1>9. total(g) = total(f) + change(a, t)
  BY <1>1, <1>6, <1>7, TotalAdd
<1>10. PICK F, G : F = {u \in S : u.from = a} /\ G = {u \in S \cup {t} : u.from = a}
  BY Zenon
<1>11. IsFiniteSet(F) /\ Cardinality(F) \in Nat
  BY <1>1, <1>10, FS_Subset, FS_CardinalityType, Zenon
<1>12. Cardinality(G) = Cardinality(F) + step(a, t)
  <2>1. CASE t.from = a
    <3>1. G = F \cup {t} /\ t \notin F
      BY <2>1, <1>10, Zenon
    <3>2. Cardinality(G) = Cardinality(F) + 1
      BY <3>1, <1>11, FS_AddElement, Zenon
    <3> QED BY <2>1, <3>2, Zenon DEF step
  <2>2. CASE t.from # a
    <3>1. G = F
      BY <2>2, <1>10, Zenon
    <3>2. step(a, t) = 0
      BY <2>2, Zenon DEF step
    <3> QED BY <3>1, <3>2, <1>11, SMT
  <2> QED BY <2>1, <2>2, Zenon
<1>13. balanceAfter(a, S) = b + total(f) /\ balanceAfter(a, S \cup {t}) = b + total(g)
  BY <1>2, <1>4, <1>5, Zenon DEF balanceAfter
<1>14. nonceAfter(a, S) = c + Cardinality(F) /\ nonceAfter(a, S \cup {t}) = c + Cardinality(G)
  BY <1>2, <1>10, Zenon DEF nonceAfter
<1>15. change(a, t) \in Int /\ step(a, t) \in Nat
  BY ChangeType, Zenon
<1>16. balanceAfter(a, S) \in Int /\ balanceAfter(a, S \cup {t}) = balanceAfter(a, S) + change(a, t)
  BY <1>3, <1>8, <1>9, <1>13, <1>15, SMTT(30)
<1>17. nonceAfter(a, S) \in Nat /\ nonceAfter(a, S \cup {t}) = nonceAfter(a, S) + step(a, t)
  BY <1>3, <1>11, <1>12, <1>14, <1>15, SMTT(30)
<1> QED BY <1>16, <1>17, Zenon

\* An account that no transaction of S names is as it was at the start.
LEMMA AfterOthers ==
  ASSUME NEW S \in SUBSET Tx, NEW a, \A u \in S : u.to # a /\ u.from # a
  PROVE  /\ balanceAfter(a, S) = initialAccount(a).balance
         /\ nonceAfter(a, S) = initialAccount(a).nonce
<1>1. IsFiniteSet(S)
  BY ConstantTypes, FS_Subset, Zenon
<1>2. PICK b, c : b = initialAccount(a).balance /\ c = initialAccount(a).nonce
  BY Zenon
<1>3. b \in Nat /\ c \in Nat
  BY <1>2, InitialParts, Zenon
<1>4. PICK f : f = [u \in S |-> change(a, u)]
  BY Zenon
<1>5. \A u \in S : change(a, u) = 0
  BY SMT DEF change
<1>6. f \in [S -> {0}]
  BY <1>4, <1>5, Zenon
<1>7. total(f) = 0
  BY <1>1, <1>6, TotalZero, Zenon
<1>8. {u \in S : u.from = a} = {} /\ Cardinality({}) = 0
  BY FS_EmptySet, Zenon
<1>9. balanceAfter(a, S) = b + 0 /\ nonceAfter(a, S) = c + 0
  BY <1>2, <1>4, <1>7, <1>8, Zenon DEF balanceAfter, nonceAfter
<1>10. b + 0 = b /\ c + 0 = c
  BY <1>3, SMT
<1> QED BY <1>2, <1>9, <1>10, Zenon

\* credited, for every account at once.
LEMMA CreditedAccounts ==
  ASSUME NEW acc, isLedger(acc), NEW a, NEW v \in Nat, NEW new, new = credited(acc, a, v)
  PROVE  hasMore(acc, a, v, new)
<1>1. CASE a \in DOMAIN acc
  <2>1. new = [acc EXCEPT ![a] = [balance |-> acc[a].balance + v, nonce |-> acc[a].nonce]]
    BY <1>1, Zenon DEF credited
  <2>2. DOMAIN acc \cup {a} = DOMAIN acc /\ accountIn(acc, a) = acc[a]
    BY <1>1, Zenon DEF accountIn
  <2> QED BY <2>1, <2>2, <1>1, Zenon DEF isLedger, hasMore
<1>2. CASE a \notin DOMAIN acc
  <2>1. new = [x \in DOMAIN acc \cup {a} |-> IF x = a THEN [balance |-> v, nonce |-> 0] ELSE acc[x]]
    BY <1>2, Zenon DEF credited
  <2>2. accountIn(acc, a).balance + v = v /\ accountIn(acc, a).nonce = 0
    BY <1>2, SMT DEF accountIn
  <2> QED BY <2>1, <2>2, ZenonT(40) DEF hasMore
<1> QED BY <1>1, <1>2, Zenon

\* execute, for every account at once.
LEMMA ExecuteMoves ==
  ASSUME NEW acc, isLedger(acc), NEW t \in Tx, executable(acc, t), NEW new, new = execute(acc, t)
  PROVE  hasMoved(acc, t, new)
<1>1. t.from \in DOMAIN acc /\ t.value \in Nat
  BY ConstantTypes, Zenon DEF executable
<1>2. PICK paid : paid = [acc EXCEPT ![t.from] =
                            [balance |-> @.balance - t.value, nonce |-> @.nonce + 1]]
  BY Zenon
<1>3. isLedger(paid) /\ DOMAIN paid = DOMAIN acc
  <2>1. hasPaid(acc, t, paid)
    BY <1>2, PaidParts, Zenon
  <2> QED BY <2>1, Zenon DEF hasPaid
<1>4. PICK rest : rest = [balance |-> acc[t.from].balance - t.value, nonce |-> acc[t.from].nonce + 1]
  BY Zenon
<1>5. paid[t.from] = rest /\ \A a \in DOMAIN acc \ {t.from} : paid[a] = acc[a]
  BY <1>1, <1>2, <1>4, Zenon
<1>6. new = credited(paid, t.to, t.value)
  BY <1>2, Zenon DEF execute
<1>7. new = [x \in DOMAIN acc \cup {t.to} |->
               IF x = t.to THEN [balance |-> accountIn(paid, t.to).balance + t.value,
                                 nonce |-> accountIn(paid, t.to).nonce]
               ELSE paid[x]]
  <2>1. hasMore(paid, t.to, t.value, new)
    BY <1>1, <1>3, <1>6, CreditedAccounts, ZenonT(40)
  <2> QED BY <2>1, <1>3, Zenon DEF hasMore
<1>8. ASSUME NEW a \in DOMAIN acc \cup {t.to}
      PROVE  new[a] = [balance |-> accountIn(acc, a).balance + change(a, t),
                       nonce |-> accountIn(acc, a).nonce + step(a, t)]
  <2>1. PICK old : old = accountIn(acc, a)
    BY Zenon
  <2>2. old \in Account
    <3>1. [balance |-> 0, nonce |-> 0] \in Account
      BY SMT DEF Account
    <3>2. a \in DOMAIN acc => acc[a] \in Account
      BY AccountParts, Zenon
    <3> QED BY <2>1, <3>1, <3>2, Zenon DEF accountIn
  <2>3. PICK mid : mid = accountIn(paid, a)
    BY Zenon
  <2>4. mid = [balance |-> old.balance - (IF t.from = a THEN t.value ELSE 0),
               nonce |-> old.nonce + step(a, t)]
    <3>1. CASE t.from = a
      <4>1. old = acc[t.from] /\ mid = rest
        BY <3>1, <1>1, <1>3, <1>5, <2>1, <2>3, ZenonT(40) DEF accountIn
      <4> QED BY <4>1, <1>4, <3>1, Zenon DEF step
    <3>2. CASE t.from # a
      <4>1. mid = old
        BY <3>2, <1>3, <1>5, <2>1, <2>3, ZenonT(40) DEF accountIn
      <4>2. old = [balance |-> old.balance - 0, nonce |-> old.nonce + 0]
        BY <2>2, SMT DEF Account
      <4> QED BY <4>1, <4>2, <3>2, Zenon DEF step
    <3> QED BY <3>1, <3>2, Zenon
  <2>5. new[a] = [balance |-> mid.balance + (IF t.to = a THEN t.value ELSE 0), nonce |-> mid.nonce]
    <3>1. CASE a = t.to
      BY <3>1, <1>7, <2>3, Zenon
    <3>2. CASE a # t.to
      <4>1. new[a] = mid
        BY <3>2, <1>3, <1>7, <2>3, Zenon DEF accountIn
      <4>2. mid = [balance |-> mid.balance + 0, nonce |-> mid.nonce]
        <5>1. mid \in Account
          BY <3>2, <1>3, <2>3, AccountParts, Zenon DEF accountIn
        <5> QED BY <5>1, SMT DEF Account
      <4> QED BY <4>1, <4>2, <3>2, Zenon
    <3> QED BY <3>1, <3>2, Zenon
  <2>6. old.balance \in Int /\ old.nonce \in Int
    BY <2>2, SMTT(30) DEF Account
  <2>7. mid.balance + (IF t.to = a THEN t.value ELSE 0) = old.balance + change(a, t)
    BY <2>4, <2>6, <1>1, SMTT(30) DEF change
  <2>8. mid.nonce = old.nonce + step(a, t)
    BY <2>4, SMT
  <2> QED BY <2>1, <2>5, <2>7, <2>8, Zenon
<1>9. DOMAIN new = DOMAIN acc \cup {t.to} /\ new = [a \in DOMAIN new |-> new[a]]
  BY <1>7, Zenon
<1> QED BY <1>8, <1>9, Zenon DEF hasMoved

\* A transaction applied to the accounts S makes leads to those it makes with S.
LEMMA ExecuteFollows ==
  ASSUME NEW S \in SUBSET Tx, NEW acc, isLedger(acc), acc = ledgerAfter(S),
         \A u \in S : spent(acc, u),
         NEW t \in Tx, executable(acc, t), NEW new, new = execute(acc, t)
  PROVE  new = ledgerAfter(S \cup {t})
<1>1. t \notin S
  <2> SUFFICES ASSUME t \in S PROVE FALSE
    BY Zenon
  <2>1. t.from \in DOMAIN acc /\ t.nonce < acc[t.from].nonce /\ acc[t.from].nonce = t.nonce
    BY Zenon DEF spent, executable
  <2>2. t.nonce \in Nat
    BY ConstantTypes, Zenon
  <2> QED BY <2>1, <2>2, SMT
<1>2. PICK T : T = S \cup {t}
  BY Zenon
<1>3. DOMAIN acc = DOMAIN InitialAccounts \cup {u.to : u \in S}
  BY Zenon DEF ledgerAfter
<1>4. DOMAIN acc \cup {t.to} = DOMAIN InitialAccounts \cup {u.to : u \in T}
  BY <1>2, <1>3, Zenon
<1>5. ASSUME NEW a \in DOMAIN acc \cup {t.to}
      PROVE  accountIn(acc, a).balance = balanceAfter(a, S) /\ accountIn(acc, a).nonce = nonceAfter(a, S)
  <2>1. CASE a \in DOMAIN acc
    <3>1. accountIn(acc, a) = [balance |-> balanceAfter(a, S), nonce |-> nonceAfter(a, S)]
      BY <2>1, <1>3, Zenon DEF accountIn, ledgerAfter
    <3> QED BY <3>1, SMT
  <2>2. CASE a \notin DOMAIN acc
    <3>1. \A u \in S : u.to # a /\ u.from # a
      BY <2>2, <1>3, Zenon DEF spent
    <3>2. accountIn(acc, a) = initialAccount(a)
      BY <2>2, <1>3, Zenon DEF accountIn, initialAccount
    <3> QED BY <3>1, <3>2, AfterOthers, Zenon
  <2> QED BY <2>1, <2>2, Zenon
<1>6. ASSUME NEW a \in DOMAIN acc \cup {t.to}
      PROVE  /\ accountIn(acc, a).balance + change(a, t) = balanceAfter(a, T)
             /\ accountIn(acc, a).nonce + step(a, t) = nonceAfter(a, T)
  <2>1. /\ balanceAfter(a, S \cup {t}) = balanceAfter(a, S) + change(a, t)
        /\ nonceAfter(a, S \cup {t}) = nonceAfter(a, S) + step(a, t)
    BY <1>1, AfterOneMore
  <2> QED BY <2>1, <1>2, <1>5, ZenonT(40)
<1>7. new = [a \in DOMAIN acc \cup {t.to} |->
               [balance |-> accountIn(acc, a).balance + change(a, t),
                nonce |-> accountIn(acc, a).nonce + step(a, t)]]
  <2>1. hasMoved(acc, t, new)
    BY ExecuteMoves, Zenon
  <2> QED BY <2>1, Zenon DEF hasMoved
<1>8. new = [a \in DOMAIN acc \cup {t.to} |->
               [balance |-> balanceAfter(a, T), nonce |-> nonceAfter(a, T)]]
  BY <1>6, <1>7, Zenon
<1> QED BY <1>2, <1>4, <1>8, Zenon DEF ledgerAfter

-----------------------------------------------------------------------------
(* The accounts: nonces *)

\* The transactions in S of each sender were applied in turn: they have the
\* nonces from that of the start to the present one, and each nonce once.
inTurn(acc, S) ==
  /\ DOMAIN InitialAccounts \subseteq DOMAIN acc
  /\ \A t \in S : t.from \in DOMAIN acc
  /\ \A a \in DOMAIN acc :
       /\ initialAccount(a).nonce <= acc[a].nonce
       /\ noncesOf(S, a) = initialAccount(a).nonce..(acc[a].nonce - 1)
  /\ \A t, u \in S : t.from = u.from /\ t.nonce = u.nonce => t = u

\* A transaction that can be applied is the next of its sender.
LEMMA ExecuteInTurn ==
  ASSUME NEW S \in SUBSET Tx, NEW acc, isLedger(acc), inTurn(acc, S),
         NEW t \in Tx, executable(acc, t), NEW new, new = execute(acc, t)
  PROVE  inTurn(new, S \cup {t})
<1>1. /\ DOMAIN InitialAccounts \subseteq DOMAIN acc
      /\ \A u \in S : u.from \in DOMAIN acc
      /\ \A a \in DOMAIN acc :
           /\ initialAccount(a).nonce <= acc[a].nonce
           /\ noncesOf(S, a) = initialAccount(a).nonce..(acc[a].nonce - 1)
      /\ \A u, v \in S : u.from = v.from /\ u.nonce = v.nonce => u = v
  BY Zenon DEF inTurn
<1>2. t.from \in DOMAIN acc /\ acc[t.from].nonce = t.nonce
  BY Zenon DEF executable
<1>3. PICK T : T = S \cup {t}
  BY Zenon
<1>4. new = [a \in DOMAIN acc \cup {t.to} |->
               [balance |-> accountIn(acc, a).balance + change(a, t),
                nonce |-> accountIn(acc, a).nonce + step(a, t)]]
  <2>1. hasMoved(acc, t, new)
    BY ExecuteMoves, Zenon
  <2> QED BY <2>1, Zenon DEF hasMoved
<1>5. DOMAIN new = DOMAIN acc \cup {t.to}
  BY <1>4, Zenon
<1>6. ASSUME NEW a \in DOMAIN new
      PROVE  new[a].nonce = accountIn(acc, a).nonce + step(a, t)
  <2>1. PICK b, k : b = accountIn(acc, a).balance + change(a, t)
                    /\ k = accountIn(acc, a).nonce + step(a, t)
    BY Zenon
  <2>2. new[a] = [balance |-> b, nonce |-> k]
    BY <2>1, <1>4, <1>5, Zenon
  <2> QED BY <2>1, <2>2
<1>7. ASSUME NEW a \in DOMAIN new
      PROVE  /\ initialAccount(a).nonce <= new[a].nonce
             /\ noncesOf(T, a) = initialAccount(a).nonce..(new[a].nonce - 1)
  <2>1. PICK i : i = initialAccount(a).nonce
    BY Zenon
  <2>2. i \in Nat
    BY <2>1, InitialParts, Zenon
  <2>3. CASE a = t.from
    <3>1. PICK k \in Nat : k = acc[a].nonce
      BY <2>3, <1>2, AccountParts, Zenon
    <3>2. i <= k /\ noncesOf(S, a) = i..(k - 1) /\ t.nonce = k
      BY <2>1, <2>3, <3>1, <1>1, <1>2, ZenonT(40)
    <3>3. new[a].nonce = k + 1
      BY <2>3, <3>1, <1>2, <1>6, ZenonT(40) DEF accountIn, step
    <3>4. noncesOf(T, a) = noncesOf(S, a) \cup {k}
      BY <2>3, <3>2, <1>3, ZenonT(40) DEF noncesOf
    <3>5. noncesOf(T, a) = i..((k + 1) - 1) /\ i <= k + 1
      BY <2>2, <3>1, <3>2, <3>4, SMTT(30)
    <3> QED BY <2>1, <3>3, <3>5, Zenon
  <2>4. CASE a # t.from /\ a \in DOMAIN acc
    <3>1. PICK k \in Nat : k = acc[a].nonce
      BY <2>4, AccountParts, ZenonT(40)
    <3>2. k + 0 = k
      BY <3>1
    <3>3. new[a].nonce = k
      BY <2>4, <3>1, <3>2, <1>6, ZenonT(40) DEF accountIn, step
    <3>4. noncesOf(T, a) = noncesOf(S, a)
      BY <2>4, <1>3, ZenonT(40) DEF noncesOf
    <3> QED BY <2>4, <3>1, <3>3, <3>4, <1>1, ZenonT(40)
  <2>5. CASE a \notin DOMAIN acc
    <3>1. a # t.from /\ a \notin DOMAIN InitialAccounts
      BY <2>5, <1>1, <1>2, ZenonT(40)
    <3>2. i = 0
      BY <2>1, <3>1 DEF initialAccount
    <3>3. accountIn(acc, a).nonce + step(a, t) = 0
      BY <2>5, <3>1 DEF accountIn, step
    <3>4. new[a].nonce = 0
      BY <3>3, <1>6, Zenon
    <3>5. noncesOf(T, a) = {}
      <4>1. \A u \in T : u.from # a
        BY <2>5, <3>1, <1>1, <1>3, Zenon
      <4>2. {u \in T : u.from = a} = {}
        BY <4>1, Zenon
      <4> QED BY <4>2, Zenon DEF noncesOf
    <3>6. 0..(0 - 1) = {} /\ 0 <= 0
      OBVIOUS
    <3> QED BY <2>1, <3>2, <3>4, <3>5, <3>6, ZenonT(40)
  <2> QED BY <2>3, <2>4, <2>5, Zenon
<1>8. ASSUME NEW u \in S, u.from = t.from
      PROVE  u.nonce # t.nonce
  <2>1. PICK k \in Nat : k = acc[t.from].nonce
    BY <1>2, AccountParts, Zenon
  <2>2. PICK i \in Nat : i = initialAccount(t.from).nonce
    BY InitialParts, Zenon
  <2>3. u.nonce \in i..(k - 1)
    <3>1. u.nonce \in noncesOf(S, t.from)
      BY <1>8, Zenon DEF noncesOf
    <3> QED BY <3>1, <2>1, <2>2, <1>1, <1>2, Zenon
  <2>4. t.nonce = k
    BY <2>1, <1>2, Zenon
  <2> QED BY <2>1, <2>2, <2>3, <2>4
<1>9. \A u, v \in T : u.from = v.from /\ u.nonce = v.nonce => u = v
  BY <1>1, <1>3, <1>8, Zenon
<1>10. DOMAIN InitialAccounts \subseteq DOMAIN new /\ \A u \in T : u.from \in DOMAIN new
  BY <1>1, <1>2, <1>3, <1>5, Zenon
<1>11. inTurn(new, T)
  BY <1>7, <1>9, <1>10, Zenon DEF inTurn
<1> QED BY <1>3, <1>11, Zenon

-----------------------------------------------------------------------------
(* The accounts: a block *)

\* What CommitBlock has made of acc at any point of a block: the total is as
\* it was, and the transactions applied could be applied and no longer can.
keepsLedger(acc, s) ==
  /\ isLedger(s.acc) /\ noEarlier(acc, s.acc)
  /\ total(balances(s.acc)) = total(balances(acc))
  /\ \A t \in s.done : t \in Tx /\ spent(s.acc, t) /\ ~spent(acc, t)

\* The next transaction of the block, applied or not.
LEMMA CommitNextKeeps ==
  ASSUME NEW acc, isLedger(acc), NEW s, keepsLedger(acc, s), NEW t \in Tx,
         NEW r, r = commitNext(s, t)
  PROVE  keepsLedger(acc, r)
<1>1. /\ isLedger(s.acc) /\ noEarlier(acc, s.acc)
      /\ total(balances(s.acc)) = total(balances(acc))
      /\ \A u \in s.done : u \in Tx /\ spent(s.acc, u) /\ ~spent(acc, u)
  BY Zenon DEF keepsLedger
<1>2. CASE s.failed \/ ~executable(s.acc, t)
  <2>1. r = [failed |-> TRUE, acc |-> s.acc, done |-> s.done]
    BY <1>2, Zenon DEF commitNext
  <2>2. r.acc = s.acc /\ r.done = s.done
    BY <2>1
  <2> QED BY <2>2, <1>1, Zenon DEF keepsLedger
<1>3. CASE ~s.failed /\ executable(s.acc, t)
  <2>1. PICK new : new = execute(s.acc, t)
    BY Zenon
  <2>2. r = [failed |-> FALSE, acc |-> new, done |-> s.done \cup {t}]
    BY <2>1, <1>3, Zenon DEF commitNext
  <2>3. r.acc = new /\ r.done = s.done \cup {t}
    BY <2>2
  <2>4. hasExecuted(s.acc, t, new)
    <3>1. PICK old : old = s.acc
      BY Zenon
    <3>2. hasExecuted(old, t, new)
      BY <3>1, <2>1, <1>1, <1>3, ExecuteParts, Zenon
    <3> QED BY <3>1, <3>2, Zenon
  <2>5. /\ isLedger(new) /\ noEarlier(s.acc, new) /\ spent(new, t)
        /\ total(balances(new)) = total(balances(s.acc))
    BY <2>4, Zenon DEF hasExecuted
  <2>6. ASSUME NEW a \in DOMAIN acc
        PROVE  /\ a \in DOMAIN s.acc /\ a \in DOMAIN new
               /\ acc[a].nonce <= s.acc[a].nonce /\ acc[a].nonce <= new[a].nonce
               /\ acc[a].nonce \in Nat /\ s.acc[a].nonce \in Nat
    <3>1. a \in DOMAIN s.acc /\ acc[a].nonce <= s.acc[a].nonce
      BY <1>1, Zenon DEF noEarlier
    <3>2. a \in DOMAIN new /\ s.acc[a].nonce <= new[a].nonce
      BY <3>1, <2>5, Zenon DEF noEarlier
    <3>3. acc[a].nonce \in Nat
      BY AccountParts, Zenon
    <3>4. s.acc[a].nonce \in Nat
      BY <3>1, <1>1, AccountParts, Zenon
    <3>5. new[a].nonce \in Nat
      BY <3>2, <2>5, AccountParts, Zenon
    <3>6. acc[a].nonce <= new[a].nonce
      BY <3>1, <3>2, <3>3, <3>4, <3>5, SMTT(30)
    <3> QED BY <3>1, <3>2, <3>3, <3>4, <3>6, Zenon
  <2>7. noEarlier(acc, new)
    BY <2>6, Zenon DEF noEarlier
  <2>8. ~spent(acc, t)
    <3> SUFFICES ASSUME t.from \in DOMAIN acc, t.nonce < acc[t.from].nonce
                 PROVE  FALSE
      BY Zenon DEF spent
    <3>1. s.acc[t.from].nonce = t.nonce
      BY <1>3, Zenon DEF executable
    <3>2. acc[t.from].nonce <= t.nonce /\ acc[t.from].nonce \in Nat /\ t.nonce \in Nat
      BY <3>1, <2>6, Zenon
    <3> QED BY <3>2, SMT
  <2>9. ASSUME NEW u \in s.done
        PROVE  spent(new, u)
    <3>1. u \in Tx /\ u.from \in DOMAIN s.acc /\ u.nonce < s.acc[u.from].nonce
      BY <1>1, Zenon DEF spent
    <3>2. u.from \in DOMAIN new /\ s.acc[u.from].nonce <= new[u.from].nonce
      BY <3>1, <2>5, Zenon DEF noEarlier
    <3>3. u.nonce \in Nat
      BY <3>1, ConstantTypes, Zenon
    <3>4. s.acc[u.from].nonce \in Nat
      BY <3>1, <1>1, AccountParts, Zenon
    <3>5. new[u.from].nonce \in Nat
      BY <3>2, <2>5, AccountParts, ZenonT(40)
    <3>6. u.nonce < new[u.from].nonce
      BY <3>1, <3>2, <3>3, <3>4, <3>5, SMTT(30)
    <3> QED BY <3>2, <3>6, Zenon DEF spent
  <2>10. \A u \in r.done : u \in Tx /\ spent(new, u) /\ ~spent(acc, u)
    BY <2>3, <2>5, <2>8, <2>9, <1>1, Zenon
  <2> QED BY <2>3, <2>5, <2>7, <2>10, <1>1, Zenon DEF keepsLedger
<1> QED BY <1>2, <1>3, Zenon

\* A transaction that is spent stays so.
LEMMA SpentStays ==
  ASSUME NEW acc, isLedger(acc), NEW new, isLedger(new), noEarlier(acc, new),
         NEW t \in Tx, spent(acc, t)
  PROVE  spent(new, t)
<1>1. t.from \in DOMAIN acc /\ t.nonce < acc[t.from].nonce
  BY Zenon DEF spent
<1>2. t.from \in DOMAIN new /\ acc[t.from].nonce <= new[t.from].nonce
  BY <1>1, Zenon DEF noEarlier
<1>3. t.nonce \in Nat
  BY ConstantTypes, Zenon
<1>4. acc[t.from].nonce \in Nat
  BY <1>1, AccountParts, Zenon
<1>5. new[t.from].nonce \in Nat
  BY <1>2, AccountParts, Zenon
<1>6. t.nonce < new[t.from].nonce
  BY <1>1, <1>2, <1>3, <1>4, <1>5, SMT
<1> QED BY <1>2, <1>6, Zenon DEF spent

\* What CommitBlock has made of acc is what the transactions behind acc and
\* those it has applied so far make together.
followsApplied(acc, s) ==
  \A S \in SUBSET Tx :
    acc = ledgerAfter(S) /\ (\A u \in S : spent(acc, u)) => s.acc = ledgerAfter(S \cup s.done)

\* This, too, the next transaction of the block keeps.
LEMMA CommitNextFollows ==
  ASSUME NEW acc, isLedger(acc), NEW s, keepsLedger(acc, s), followsApplied(acc, s),
         NEW t \in Tx, NEW r, r = commitNext(s, t)
  PROVE  followsApplied(acc, r)
<1>1. CASE s.failed \/ ~executable(s.acc, t)
  <2>1. r = [failed |-> TRUE, acc |-> s.acc, done |-> s.done]
    BY <1>1, Zenon DEF commitNext
  <2>2. r.acc = s.acc /\ r.done = s.done
    BY <2>1
  <2> QED BY <2>2, Zenon DEF followsApplied
<1>2. CASE ~s.failed /\ executable(s.acc, t)
  <2>1. PICK old, new : old = s.acc /\ new = execute(old, t)
    BY Zenon
  <2>2. r = [failed |-> FALSE, acc |-> new, done |-> s.done \cup {t}]
    BY <2>1, <1>2, Zenon DEF commitNext
  <2>3. r.acc = new /\ r.done = s.done \cup {t}
    BY <2>2
  <2>4. /\ isLedger(old) /\ noEarlier(acc, old)
        /\ \A u \in s.done : u \in Tx /\ spent(old, u)
    BY <2>1, Zenon DEF keepsLedger
  <2>5. ASSUME NEW S \in SUBSET Tx, acc = ledgerAfter(S), \A u \in S : spent(acc, u)
        PROVE  new = ledgerAfter(S \cup (s.done \cup {t}))
    <3>1. PICK T : T = S \cup s.done
      BY Zenon
    <3>2. T \in SUBSET Tx
      BY <3>1, <2>4, Zenon
    <3>3. old = ledgerAfter(T)
      BY <3>1, <2>1, <2>5, Zenon DEF followsApplied
    <3>4. \A u \in T : spent(old, u)
      <4>1. ASSUME NEW u \in S
            PROVE  spent(old, u)
        <5>1. u \in Tx /\ spent(acc, u)
          BY <2>5, Zenon
        <5> QED BY <5>1, <2>4, SpentStays, Zenon
      <4> QED BY <4>1, <3>1, <2>4, Zenon
    <3>5. executable(old, t)
      BY <2>1, <1>2, Zenon
    <3>6. new = ledgerAfter(T \cup {t})
      BY <3>2, <3>3, <3>4, <3>5, <2>1, <2>4, ExecuteFollows, ZenonT(40)
    <3>7. T \cup {t} = S \cup (s.done \cup {t})
      BY <3>1, Zenon
    <3> QED BY <3>6, <3>7, Zenon
  <2> QED BY <2>3, <2>5, Zenon DEF followsApplied
<1> QED BY <1>1, <1>2, Zenon

\* CommitBlock applies the transactions of each sender in turn.
keepsTurn(acc, s) == \A S \in SUBSET Tx : inTurn(acc, S) => inTurn(s.acc, S \cup s.done)

\* The next transaction of the block is applied in its turn or not at all.
LEMMA CommitNextInTurn ==
  ASSUME NEW acc, NEW s, keepsLedger(acc, s), keepsTurn(acc, s),
         NEW t \in Tx, NEW r, r = commitNext(s, t)
  PROVE  keepsTurn(acc, r)
<1>1. CASE s.failed \/ ~executable(s.acc, t)
  <2>1. r = [failed |-> TRUE, acc |-> s.acc, done |-> s.done]
    BY <1>1, Zenon DEF commitNext
  <2>2. r.acc = s.acc /\ r.done = s.done
    BY <2>1
  <2> QED BY <2>2, Zenon DEF keepsTurn
<1>2. CASE ~s.failed /\ executable(s.acc, t)
  <2>1. PICK old, new : old = s.acc /\ new = execute(old, t)
    BY Zenon
  <2>2. r = [failed |-> FALSE, acc |-> new, done |-> s.done \cup {t}]
    BY <2>1, <1>2, Zenon DEF commitNext
  <2>3. r.acc = new /\ r.done = s.done \cup {t}
    BY <2>2
  <2>4. isLedger(old) /\ s.done \in SUBSET Tx /\ executable(old, t)
    BY <2>1, <1>2, Zenon DEF keepsLedger
  <2>5. ASSUME NEW S \in SUBSET Tx, inTurn(acc, S)
        PROVE  inTurn(new, S \cup (s.done \cup {t}))
    <3>1. PICK T \in SUBSET Tx : T = S \cup s.done
      BY <2>4, Zenon
    <3>2. inTurn(old, T)
      BY <3>1, <2>1, <2>5, Zenon DEF keepsTurn
    <3>3. inTurn(new, T \cup {t})
      BY <3>2, <2>1, <2>4, ExecuteInTurn, Zenon
    <3>4. T \cup {t} = S \cup (s.done \cup {t})
      BY <3>1, Zenon
    <3> QED BY <3>3, <3>4, Zenon
  <2> QED BY <2>3, <2>5, Zenon DEF keepsTurn
<1> QED BY <1>1, <1>2, Zenon

\* A set of positions of a sequence has a last one.
LEMMA LastPosition ==
  ASSUME NEW k \in Nat, NEW u \in SUBSET (1..k), u # {}
  PROVE  Max(u) \in u
<1>1. PICK D : D = 1..k
  BY Zenon
<1> DEFINE P == {s \in SUBSET D : s # {} => \E m \in s : \A y \in s : m >= y}
<1>2. IsFiniteSet(D)
  BY <1>1, FS_Interval
<1>3. {} \in P
  BY Zenon
<1>4. ASSUME NEW s \in SUBSET D, s # {}, \A y \in s : s \ {y} \in P
      PROVE  s \in P
  <2>1. PICK x \in s : TRUE
    BY <1>4, Zenon
  <2>2. \A y \in s : y \in Int
    BY <1>1, SMT
  <2>3. \E m \in s : \A y \in s : m >= y
    <3>1. CASE s \ {x} = {}
      <4>1. \A y \in s : y = x
        BY <3>1, Zenon
      <4>2. \A y \in s : x >= y
        BY <4>1, <2>2, SMT
      <4> QED BY <4>2, Zenon
    <3>2. CASE s \ {x} # {}
      <4>1. PICK m \in s \ {x} : \A y \in s \ {x} : m >= y
        BY <3>2, <1>4, Zenon
      <4>2. CASE m >= x
        <5>1. \A y \in s : m >= y
          BY <4>1, <4>2, Zenon
        <5> QED BY <5>1, Zenon
      <4>3. CASE ~(m >= x)
        <5>1. \A y \in s : x >= y
          BY <4>1, <4>3, <2>2, SMTT(30)
        <5> QED BY <5>1, Zenon
      <4> QED BY <4>2, <4>3, Zenon
    <3> QED BY <3>1, <3>2, Zenon
  <2> QED BY <2>3, Zenon
<1>5. \A s \in SUBSET D : s \in P
  <2> HIDE DEF P
  <2> QED BY <1>2, <1>3, <1>4, SubsetInduction, Zenon
<1>6. \E m \in u : \A y \in u : m >= y
  BY <1>1, <1>5, Zenon
<1> QED BY <1>6, Zenon DEF Max

\* g is the outcome of the loop of CommitBlock for the positions in each
\* member of Q.
committed(g, acc, q, Q) ==
  g = [s \in Q |-> IF s = {} THEN [failed |-> FALSE, acc |-> acc, done |-> {}]
                   ELSE commitNext(g[s \ {Max(s)}], q[Max(s)])]

outcomes(acc, q) == CHOOSE g : committed(g, acc, q, SUBSET DOMAIN q)

\* The outcome of CommitBlock is that for all positions.
LEMMA CommitIsOutcome ==
  ASSUME NEW acc, NEW q
  PROVE  CommitBlock(acc, q) = outcomes(acc, q)[DOMAIN q]
  BY DEF CommitBlock, MapThenFoldSet, outcomes, committed

\* The loop has an outcome for every block.
LEMMA OutcomesExist ==
  ASSUME NEW acc, NEW q \in Seq(Tx)
  PROVE  committed(outcomes(acc, q), acc, q, SUBSET DOMAIN q)
<1>0. PICK D : D = DOMAIN q
  BY Zenon
<1> DEFINE small(k) == {s \in SUBSET D : Cardinality(s) <= k}
           good == {k \in Nat : \E g : committed(g, acc, q, small(k))}
           start == [failed |-> FALSE, acc |-> acc, done |-> {}]
<1>1. PICK n \in Nat : D = 1..n
  BY <1>0
<1>2. IsFiniteSet(D)
  BY <1>1, FS_Interval
<1>3. \A s \in SUBSET D : IsFiniteSet(s) /\ Cardinality(s) \in Nat
  BY <1>2, FS_Subset, FS_CardinalityType, Zenon
<1>4. ASSUME NEW s \in SUBSET D, s # {}
      PROVE  /\ Max(s) \in s /\ s \ {Max(s)} \in SUBSET D
             /\ Cardinality(s \ {Max(s)}) = Cardinality(s) - 1
  <2>1. Max(s) \in s
    BY <1>1, <1>4, LastPosition, Zenon
  <2> QED BY <2>1, <1>3, FS_RemoveElement, Zenon
<1>5. 0 \in good
  <2> DEFINE g == [s \in small(0) |-> start]
  <2>1. ASSUME NEW s \in small(0)
        PROVE  s = {}
    <3>1. Cardinality(s) = 0
      BY <1>3
    <3> QED BY <3>1, <1>3, FS_EmptySet, Zenon
  <2>2. committed(g, acc, q, small(0))
    <3> HIDE DEF small
    <3> QED BY <2>1 DEF committed
  <2> QED BY <2>2, Zenon
<1>6. ASSUME NEW k \in Nat, k \in good
      PROVE  k + 1 \in good
  <2>1. PICK g : committed(g, acc, q, small(k))
    BY <1>6, Zenon
  <2> DEFINE h == [s \in small(k + 1) |->
                     IF s \in small(k) THEN g[s] ELSE commitNext(g[s \ {Max(s)}], q[Max(s)])]
  <2>2. \A s \in small(k) : s \in small(k + 1)
    BY <1>3
  <2>3. ASSUME NEW s \in small(k + 1), s # {}
        PROVE  s \ {Max(s)} \in small(k)
    <3>1. /\ Cardinality(s) \in Nat /\ Cardinality(s) <= k + 1
          /\ Cardinality(s \ {Max(s)}) = Cardinality(s) - 1
          /\ s \ {Max(s)} \in SUBSET D
      BY <2>3, <1>3, <1>4, Zenon
    <3>2. Cardinality(s \ {Max(s)}) <= k
      BY <3>1
    <3> QED BY <3>1, <3>2, Zenon
  <2>4. {} \in small(k)
    <3>1. Cardinality({}) <= k
      BY FS_EmptySet
    <3> QED BY <3>1, Zenon
  <2>5. \A s \in small(k) :
          g[s] = IF s = {} THEN start ELSE commitNext(g[s \ {Max(s)}], q[Max(s)])
    <3> HIDE DEF small
    <3> QED BY <2>1, Zenon DEF committed
  <2>6. ASSUME NEW s \in small(k + 1)
        PROVE  h[s] = IF s = {} THEN start ELSE commitNext(h[s \ {Max(s)}], q[Max(s)])
    <3> HIDE DEF small, start
    <3>1. CASE s = {}
      BY <2>4, <2>5, <3>1, Zenon
    <3>2. CASE s # {}
      <4>1. s \ {Max(s)} \in small(k) /\ s \ {Max(s)} \in small(k + 1)
        BY <2>2, <2>3, <3>2, Zenon
      <4>2. h[s \ {Max(s)}] = g[s \ {Max(s)}]
        BY <4>1, Zenon
      <4>3. h[s] = commitNext(g[s \ {Max(s)}], q[Max(s)])
        BY <2>5, <3>2, Zenon
      <4> QED BY <3>2, <4>2, <4>3, Zenon
    <3> QED BY <3>1, <3>2, Zenon
  <2>7. committed(h, acc, q, small(k + 1))
    <3>1. DOMAIN h = small(k + 1) /\ h = [s \in DOMAIN h |-> h[s]]
      BY Zenon
    <3> HIDE DEF h, small
    <3> QED BY <2>6, <3>1, Zenon DEF committed
  <2>8. k + 1 \in Nat
    OBVIOUS
  <2> QED BY <2>7, <2>8, Zenon
<1>7. Cardinality(D) \in good
  <2>1. \A k \in Nat : k \in good
    <3> HIDE DEF good
    <3> QED BY <1>5, <1>6, NumberInduction, Zenon
  <2> QED BY <1>3, <2>1, Zenon
<1>8. small(Cardinality(D)) = SUBSET D
  <2>1. \A s \in SUBSET D : Cardinality(s) <= Cardinality(D)
    BY <1>2, FS_Subset, Zenon
  <2> QED BY <2>1, Zenon
<1>9. \E g : committed(g, acc, q, SUBSET D)
  BY <1>7, <1>8, Zenon
<1> QED BY <1>0, <1>9, Zenon DEF outcomes

\* CommitBlock keeps the total of the balances wherever it stops, applies
\* transactions that could be applied before and cannot be applied again, and
\* leaves the accounts these transactions make; it applies them in turn.
LEMMA CommitKeeps ==
  ASSUME NEW acc, isLedger(acc), NEW q \in Seq(Tx)
  PROVE  /\ keepsLedger(acc, CommitBlock(acc, q)) /\ followsApplied(acc, CommitBlock(acc, q))
         /\ keepsTurn(acc, CommitBlock(acc, q))
<1>1. PICK g : g = outcomes(acc, q)
  BY Zenon
<1>2. PICK D : D = DOMAIN q
  BY Zenon
<1>3. PICK n \in Nat : D = 1..n
  BY <1>2
<1>4. IsFiniteSet(D)
  BY <1>3, FS_Interval
<1>5. \A s \in SUBSET D : g[s] = IF s = {} THEN [failed |-> FALSE, acc |-> acc, done |-> {}]
                                 ELSE commitNext(g[s \ {Max(s)}], q[Max(s)])
  <2>1. committed(g, acc, q, SUBSET D)
    BY <1>1, <1>2, OutcomesExist, Zenon
  <2> QED BY <2>1, Zenon DEF committed
<1> DEFINE P == {s \in SUBSET D : /\ keepsLedger(acc, g[s]) /\ followsApplied(acc, g[s])
                                  /\ keepsTurn(acc, g[s])}
<1>6. {} \in P
  <2>1. g[{}].acc = acc /\ g[{}].done = {}
    <3>1. g[{}] = [failed |-> FALSE, acc |-> acc, done |-> {}]
      BY <1>5, Zenon
    <3> QED BY <3>1
  <2>2. noEarlier(acc, acc)
    <3>1. \A a \in DOMAIN acc : acc[a].nonce \in Nat
      BY AccountParts, Zenon
    <3>2. \A a \in DOMAIN acc : acc[a].nonce <= acc[a].nonce
      BY <3>1, SMT
    <3> QED BY <3>2, Zenon DEF noEarlier
  <2>3. keepsLedger(acc, g[{}])
    BY <2>1, <2>2, Zenon DEF keepsLedger
  <2>4. followsApplied(acc, g[{}]) /\ keepsTurn(acc, g[{}])
    <3>1. \A S \in SUBSET Tx : S \cup {} = S
      BY Zenon
    <3> QED BY <2>1, <3>1, Zenon DEF followsApplied, keepsTurn
  <2> QED BY <2>3, <2>4, ZenonT(40)
<1>7. ASSUME NEW s \in SUBSET D, s # {}, \A y \in s : s \ {y} \in P
      PROVE  s \in P
  <2>1. PICK x \in s : x = Max(s)
    BY <1>3, <1>7, LastPosition, Zenon
  <2>2. q[x] \in Tx
    BY <1>2
  <2>3. PICK o : o = g[s \ {x}]
    BY Zenon
  <2>4. PICK r : r = g[s]
    BY Zenon
  <2>5. r = commitNext(o, q[x])
    BY <2>1, <2>3, <2>4, <1>5, <1>7, Zenon
  <2>6. keepsLedger(acc, o) /\ followsApplied(acc, o) /\ keepsTurn(acc, o)
    BY <2>3, <1>7, Zenon
  <2>7. keepsLedger(acc, r)
    BY <2>2, <2>5, <2>6, CommitNextKeeps, Zenon
  <2>8. followsApplied(acc, r)
    BY <2>2, <2>5, <2>6, CommitNextFollows, Zenon
  <2>9. keepsTurn(acc, r)
    BY <2>2, <2>5, <2>6, CommitNextInTurn, Zenon
  <2> QED BY <2>4, <2>7, <2>8, <2>9, Zenon
<1>8. \A s \in SUBSET D : s \in P
  <2> HIDE DEF P
  <2> QED BY <1>4, <1>6, <1>7, SubsetInduction, Zenon
<1>9. keepsLedger(acc, g[D]) /\ followsApplied(acc, g[D]) /\ keepsTurn(acc, g[D])
  BY <1>8, Zenon
<1>10. CommitBlock(acc, q) = g[D]
  BY <1>1, <1>2, CommitIsOutcome, Zenon
<1> QED BY <1>9, <1>10, ZenonT(40)

-----------------------------------------------------------------------------
(* The accounts of the validators *)

\* Blocks hold transactions, and a transaction that was applied is spent.
LedgerInv ==
  /\ transactions \in [BlockId -> Seq(Tx)]
  /\ DOMAIN accounts = Node
  /\ \A n \in Node : isLedger(accounts[n])
  /\ BalanceConserved
  /\ applied \in [Node -> [Tx -> Nat]]
  /\ \A n \in Node : \A t \in Tx :
       applied[n][t] = 0 \/ (applied[n][t] = 1 /\ spent(accounts[n], t))

\* A block gets a sequence of transactions.
LEMMA SelectedTxs ==
  ASSUME NEW n, NEW q \in selectedTxs(n)
  PROVE  q \in Seq(Tx)
<1>1. PICK S \in SUBSET Tx : q \in listings(S)
  <2>1. pendingTxs(n) \in SUBSET Tx
    BY Zenon DEF pendingTxs
  <2> QED BY <2>1, Zenon DEF selectedTxs, GetTopTransactions, kSubset
<1>2. Cardinality(S) \in Nat
  BY <1>1, ConstantTypes, FS_Subset, FS_CardinalityType, Zenon
<1>3. PICK k \in Nat : q \in [1..k -> Tx]
  <2>1. q \in [1..Cardinality(S) -> S]
    BY <1>1, Zenon DEF listings, Injection
  <2>2. q \in [1..Cardinality(S) -> Tx]
    BY <2>1, <1>1, Zenon
  <2> QED BY <2>2, <1>2, Zenon
<1> QED BY <1>3, SMT

\* processBlock applies a block to the accounts of one validator.
LEMMA ProcessLedger ==
  ASSUME LedgerInv, EngineInv, NEW n \in Node, NEW p \in handlers[n], processBlock(n, p)
  PROVE  LedgerInv'
<1>1. UNCHANGED transactions
  BY Zenon DEF processBlock, blocks
<1>2. CASE UNCHANGED <<accounts, applied>>
  BY <1>1, <1>2, Zenon DEF LedgerInv, BalanceConserved
<1>3. CASE verifyBlock(n, p.hash)
  <2>1. PICK q : q = transactions[p.hash[1]]
    BY Zenon
  <2>2. PICK acc : acc = accounts[n]
    BY Zenon
  <2>3. PICK c : c = CommitBlock(acc, q)
    BY Zenon
  <2>4. /\ accounts' = [accounts EXCEPT ![n] = c.acc]
        /\ applied' = [applied EXCEPT ![n] = [t \in Tx |->
             IF t \in c.done THEN applied[n][t] + 1 ELSE applied[n][t]]]
    BY <2>1, <2>2, <2>3, <1>3, Zenon DEF processBlock
  <2>5. q \in Seq(Tx)
    <3>1. p \in Message
      BY Zenon DEF EngineInv
    <3>2. p.hash \in LedHash
      BY <3>1, SMT DEF Message
    <3>3. p.hash[1] \in BlockId
      BY <3>2, LedHashes, SMT DEF LedHash
    <3> QED BY <3>3, <2>1, Zenon DEF LedgerInv
  <2>6. isLedger(acc)
    BY <2>2, Zenon DEF LedgerInv
  <2>7. keepsLedger(acc, c)
    BY <2>3, <2>5, <2>6, CommitKeeps, Zenon
  <2>8. /\ isLedger(c.acc) /\ noEarlier(acc, c.acc) /\ total(balances(c.acc)) = total(balances(acc))
        /\ \A t \in c.done : t \in Tx /\ spent(c.acc, t) /\ ~spent(acc, t)
    BY <2>7, Zenon DEF keepsLedger
  <2>9. /\ DOMAIN accounts = Node /\ applied \in [Node -> [Tx -> Nat]]
        /\ \A m \in Node : isLedger(accounts[m])
        /\ \A m \in Node : total(balances(accounts[m])) = total(balances(InitialAccounts))
        /\ \A m \in Node : \A t \in Tx :
             applied[m][t] = 0 \/ (applied[m][t] = 1 /\ spent(accounts[m], t))
    BY Zenon DEF LedgerInv, BalanceConserved
  <2>10. /\ DOMAIN accounts' = Node /\ accounts'[n] = c.acc
         /\ \A m \in Node : m # n => accounts'[m] = accounts[m]
    BY <2>4, <2>9, Zenon
  <2>11. (\A m \in Node : isLedger(accounts'[m])) /\ BalanceConserved'
    BY <2>2, <2>8, <2>9, <2>10, Zenon DEF BalanceConserved
  <2>12. PICK new : new = [t \in Tx |-> IF t \in c.done THEN applied[n][t] + 1 ELSE applied[n][t]]
    BY Zenon
  <2>13. applied' = [applied EXCEPT ![n] = new]
    BY <2>4, <2>12, Zenon
  <2>14. applied'[n] = new /\ \A m \in Node : m # n => applied'[m] = applied[m]
    BY <2>9, <2>13, Zenon
  <2>15. ASSUME NEW t \in Tx
         PROVE  new[t] \in Nat /\ (new[t] = 0 \/ (new[t] = 1 /\ spent(c.acc, t)))
    <3>1. applied[n][t] \in Nat /\ (applied[n][t] = 0 \/ (applied[n][t] = 1 /\ spent(acc, t)))
      BY <2>2, <2>9, Zenon
    <3>2. CASE t \in c.done
      <4>1. new[t] = applied[n][t] + 1
        BY <3>2, <2>12, Zenon
      <4>2. applied[n][t] = 0
        BY <3>1, <3>2, <2>8, ZenonT(40)
      <4>3. new[t] = 1
        BY <4>1, <4>2, SMTT(30)
      <4>4. 1 \in Nat
        OBVIOUS
      <4> QED BY <4>3, <4>4, <3>2, <2>8, Zenon
    <3>3. CASE t \notin c.done
      <4>1. new[t] = applied[n][t]
        BY <3>3, <2>12, Zenon
      <4>2. spent(acc, t) => spent(c.acc, t)
        <5> SUFFICES ASSUME t.from \in DOMAIN acc, t.nonce < acc[t.from].nonce
                     PROVE  spent(c.acc, t)
          BY Zenon DEF spent
        <5>1. t.from \in DOMAIN c.acc /\ acc[t.from].nonce <= c.acc[t.from].nonce
          BY <2>8, Zenon DEF noEarlier
        <5>2. acc[t.from].nonce \in Nat /\ t.nonce \in Nat
          BY <2>6, AccountParts, ConstantTypes, Zenon
        <5>3. c.acc[t.from].nonce \in Nat
          BY <5>1, <2>8, AccountParts, ZenonT(40)
        <5>4. t.nonce < c.acc[t.from].nonce
          BY <5>1, <5>2, <5>3, SMTT(30)
        <5> QED BY <5>1, <5>4, Zenon DEF spent
      <4> QED BY <4>1, <4>2, <3>1, Zenon
    <3> QED BY <3>2, <3>3, Zenon
  <2>16. new \in [Tx -> Nat]
    BY <2>12, <2>15, Zenon
  <2>17. applied' \in [Node -> [Tx -> Nat]]
    BY <2>9, <2>13, <2>16, Zenon
  <2>18. \A m \in Node : \A t \in Tx :
           applied'[m][t] = 0 \/ (applied'[m][t] = 1 /\ spent(accounts'[m], t))
    <3>1. ASSUME NEW m \in Node, NEW t \in Tx
          PROVE  applied'[m][t] = 0 \/ (applied'[m][t] = 1 /\ spent(accounts'[m], t))
      <4>1. CASE m = n
        BY <4>1, <2>10, <2>14, <2>15, Zenon
      <4>2. CASE m # n
        <5>1. accounts'[m] = accounts[m] /\ applied'[m] = applied[m]
          BY <4>2, <2>10, <2>14, Zenon
        <5>2. applied[m][t] = 0 \/ (applied[m][t] = 1 /\ spent(accounts[m], t))
          BY <2>9, Zenon
        <5> QED BY <5>1, <5>2, Zenon
      <4> QED BY <4>1, <4>2, Zenon
    <3> QED BY <3>1, Zenon
  <2>19. transactions' \in [BlockId -> Seq(Tx)]
    BY <1>1, Zenon DEF LedgerInv
  <2> QED BY <2>10, <2>11, <2>17, <2>18, <2>19, Zenon DEF LedgerInv, spent
<1> QED BY <1>2, <1>3, Zenon DEF processBlock

\* A validator that restarts has the accounts it started with.
LEMMA RestartLedger ==
  ASSUME LedgerInv, NEW n \in Node, restart(n)
  PROVE  LedgerInv'
<1>1. /\ UNCHANGED transactions
      /\ accounts' = [accounts EXCEPT ![n] = InitialAccounts]
      /\ applied' = [applied EXCEPT ![n] = [t \in Tx |-> 0]]
  BY Zenon DEF restart, blocks, NewStateManager
<1>2. /\ DOMAIN accounts = Node /\ applied \in [Node -> [Tx -> Nat]]
      /\ \A m \in Node : isLedger(accounts[m])
      /\ \A m \in Node : total(balances(accounts[m])) = total(balances(InitialAccounts))
      /\ \A m \in Node : \A t \in Tx :
           applied[m][t] = 0 \/ (applied[m][t] = 1 /\ spent(accounts[m], t))
  BY Zenon DEF LedgerInv, BalanceConserved
<1>3. isLedger(InitialAccounts)
  BY ConstantTypes, Zenon DEF isLedger
<1>4. /\ DOMAIN accounts' = Node /\ accounts'[n] = InitialAccounts
      /\ \A m \in Node : m # n => accounts'[m] = accounts[m] /\ applied'[m] = applied[m]
      /\ \A t \in Tx : applied'[n][t] = 0
  <2>1. DOMAIN accounts' = Node /\ accounts'[n] = InitialAccounts
    BY <1>1, <1>2, Zenon
  <2>2. applied'[n] = [t \in Tx |-> 0]
    BY <1>1, <1>2, Zenon
  <2>3. \A m \in Node : m # n => accounts'[m] = accounts[m]
    BY <1>1, <1>2, Zenon
  <2>4. \A m \in Node : m # n => applied'[m] = applied[m]
    BY <1>1, <1>2, Zenon
  <2> QED BY <2>1, <2>2, <2>3, <2>4, Zenon
<1>5. (\A m \in Node : isLedger(accounts'[m])) /\ BalanceConserved'
  BY <1>2, <1>3, <1>4, Zenon DEF BalanceConserved
<1>6. applied' \in [Node -> [Tx -> Nat]]
  <2>1. [t \in Tx |-> 0] \in [Tx -> Nat]
    BY SMT
  <2> QED BY <2>1, <1>1, <1>2, Zenon
<1>7. \A m \in Node : \A t \in Tx :
        applied'[m][t] = 0 \/ (applied'[m][t] = 1 /\ spent(accounts'[m], t))
  <2>1. ASSUME NEW m \in Node, NEW t \in Tx
        PROVE  applied'[m][t] = 0 \/ (applied'[m][t] = 1 /\ spent(accounts'[m], t))
    <3>1. CASE m = n
      BY <3>1, <1>4, Zenon
    <3>2. CASE m # n
      <4>1. accounts'[m] = accounts[m] /\ applied'[m] = applied[m]
        BY <3>2, <1>4, Zenon
      <4>2. applied[m][t] = 0 \/ (applied[m][t] = 1 /\ spent(accounts[m], t))
        BY <1>2, Zenon
      <4> QED BY <4>1, <4>2, Zenon
    <3> QED BY <3>1, <3>2, Zenon
  <2> QED BY <2>1, Zenon
<1>8. transactions' \in [BlockId -> Seq(Tx)]
  BY <1>1, Zenon DEF LedgerInv
<1> QED BY <1>4, <1>5, <1>6, <1>7, <1>8, ZenonT(40) DEF LedgerInv, spent

\* CreateBlock files transactions and applies none.
LEMMA CreateLedger ==
  ASSUME LedgerInv, NEW n \in Node, CreateBlock(n)
  PROVE  LedgerInv'
<1>1. UNCHANGED <<accounts, applied>>
  BY Zenon DEF CreateBlock, ledger
<1>2. PICK q \in selectedTxs(n) :
        transactions' = [transactions EXCEPT ![<<n, currentWave[n], life[n]>>] = q]
  BY Zenon DEF CreateBlock
<1>3. q \in Seq(Tx)
  BY SelectedTxs, Zenon
<1>4. transactions' \in [BlockId -> Seq(Tx)]
  BY <1>2, <1>3, Zenon DEF LedgerInv
<1> QED BY <1>1, <1>4, Zenon DEF LedgerInv, BalanceConserved, spent

\* Every step keeps the accounts in order.
LEMMA StepLedger ==
  ASSUME LedgerInv, EngineInv, [Next]_vars
  PROVE  LedgerInv'
<1>1. CASE UNCHANGED <<transactions, accounts, applied>>
  BY <1>1, Zenon DEF LedgerInv, BalanceConserved, spent
<1>2. ASSUME NEW n \in Node, handleWaveProposing(n)
      PROVE  LedgerInv'
  <2>1. CreateBlock(n) \/ UNCHANGED <<transactions, accounts, applied>>
    BY <1>2, Zenon DEF handleWaveProposing, checkWave, createBlockFails, BroadcastBlock,
         sendProposal, readReply, readDeadline, toNextValidator, broadcastComplete, blocks, ledger
  <2> QED BY <2>1, <1>1, CreateLedger, Zenon
<1>3. ASSUME NEW n \in Node, handlerStep(n)
      PROVE  LedgerInv'
  <2>1. \/ \E p \in handlers[n] : processBlock(n, p)
        \/ UNCHANGED <<transactions, accounts, applied>>
    BY <1>3, Zenon DEF handlerStep, verifyProposal, storeProposal, blocks, ledger
  <2> QED BY <2>1, <1>1, ProcessLedger, Zenon
<1>4. ASSUME NEW n \in Node,
             \/ ProcessTimeout(n)
             \/ \E t \in Tx : AddTransaction(n, t) \/ worker(n, t)
             \/ \E m \in Node : \/ syncWithValidator(n, m)
                               \/ \E h \in syncs[n][m] : syncBlock(n, m, h)
      PROVE  UNCHANGED <<transactions, accounts, applied>>
  BY <1>4, Zenon DEF ProcessTimeout, AddTransaction, worker, syncWithValidator, syncBlock,
       blocks, ledger
<1>5. CASE UNCHANGED vars
  BY <1>1, <1>5, Zenon DEF vars, blocks, ledger
<1> QED BY <1>1, <1>2, <1>3, <1>4, <1>5, RestartLedger, ZenonT(40) DEF Next

\* A validator starts with the accounts it is given.
LEMMA InitLedger == Init => LedgerInv
<1> SUFFICES ASSUME Init
             PROVE  LedgerInv
  OBVIOUS
<1>1. /\ transactions = [b \in BlockId |-> <<>>]
      /\ accounts = [n \in Node |-> InitialAccounts]
      /\ applied = [n \in Node |-> [t \in Tx |-> 0]]
  BY Zenon DEF Init, NewStateManager
<1>2. transactions \in [BlockId -> Seq(Tx)]
  <2>1. <<>> \in Seq(Tx)
    BY SMT
  <2> QED BY <2>1, <1>1, Zenon
<1>3. DOMAIN accounts = Node /\ \A n \in Node : accounts[n] = InitialAccounts
  BY <1>1, Zenon
<1>4. isLedger(InitialAccounts)
  BY ConstantTypes, Zenon DEF isLedger
<1>5. (\A n \in Node : isLedger(accounts[n])) /\ BalanceConserved
  BY <1>3, <1>4, Zenon DEF BalanceConserved
<1>6. applied \in [Node -> [Tx -> Nat]]
  BY <1>1, SMT
<1>7. \A n \in Node : \A t \in Tx : applied[n][t] = 0
  BY <1>1, Zenon
<1> QED BY <1>2, <1>3, <1>5, <1>6, <1>7, Zenon DEF LedgerInv

\* The accounts are in order in every reachable state.
LEMMA LedgerAlways == Spec => []LedgerInv
<1>1. Inv => EngineInv
  BY Zenon DEF Inv
<1> QED BY <1>1, InitLedger, StepLedger, InvAlways, PTL DEF Spec

-----------------------------------------------------------------------------
(* The accounts are those the transactions applied make *)

\* Before anything is applied, the accounts are those of the start.
LEMMA AfterNothing == ledgerAfter({}) = InitialAccounts
<1>1. ASSUME NEW a \in DOMAIN InitialAccounts
      PROVE  InitialAccounts[a] = [balance |-> balanceAfter(a, {}), nonce |-> nonceAfter(a, {})]
  <2>1. PICK c : c = InitialAccounts[a]
    BY Zenon
  <2>2. c \in Account
    BY <2>1, ConstantTypes, Zenon
  <2>3. initialAccount(a) = c
    BY <2>1, Zenon DEF initialAccount
  <2>4. balanceAfter(a, {}) = c.balance /\ nonceAfter(a, {}) = c.nonce
    BY <2>3, AfterOthers, Zenon
  <2>5. c = [balance |-> c.balance, nonce |-> c.nonce]
    BY <2>2, SMT DEF Account
  <2> QED BY <2>1, <2>4, <2>5, Zenon
<1>2. DOMAIN InitialAccounts \cup {t.to : t \in {}} = DOMAIN InitialAccounts
  BY Zenon
<1>3. InitialAccounts = [a \in DOMAIN InitialAccounts |-> InitialAccounts[a]]
  BY ConstantTypes, Zenon
<1> QED BY <1>1, <1>2, <1>3, Zenon DEF ledgerAfter

\* processBlock: validator n has the accounts CommitBlock made of its own, and
\* what was applied is added to what was applied before.
hasCommitted(n, c) ==
  /\ keepsLedger(accounts[n], c) /\ followsApplied(accounts[n], c) /\ keepsTurn(accounts[n], c)
  /\ accounts'[n] = c.acc /\ appliedTxs(n)' = appliedTxs(n) \cup c.done
  /\ \A m \in Node : m # n => accounts'[m] = accounts[m] /\ appliedTxs(m)' = appliedTxs(m)

\* processBlock applies the block, unless it does not get to CommitBlock.
LEMMA ProcessCommits ==
  ASSUME LedgerInv, EngineInv, NEW n \in Node, NEW p \in handlers[n], processBlock(n, p)
  PROVE  UNCHANGED <<accounts, applied>> \/ \E c : hasCommitted(n, c)
<1>1. CASE verifyBlock(n, p.hash)
  <2>1. PICK q, acc : q = transactions[p.hash[1]] /\ acc = accounts[n]
    BY Zenon
  <2>2. PICK c : c = CommitBlock(acc, q)
    BY Zenon
  <2>3. /\ accounts' = [accounts EXCEPT ![n] = c.acc]
        /\ applied' = [applied EXCEPT ![n] = [t \in Tx |->
             IF t \in c.done THEN applied[n][t] + 1 ELSE applied[n][t]]]
    BY <2>1, <2>2, <1>1, Zenon DEF processBlock
  <2>4. q \in Seq(Tx)
    <3>1. p \in Message
      BY Zenon DEF EngineInv
    <3>2. p.hash \in LedHash
      BY <3>1, SMT DEF Message
    <3>3. p.hash[1] \in BlockId
      BY <3>2, LedHashes, SMT DEF LedHash
    <3> QED BY <3>3, <2>1, ZenonT(40) DEF LedgerInv
  <2>5. isLedger(acc)
    BY <2>1, Zenon DEF LedgerInv
  <2>6. keepsLedger(acc, c) /\ followsApplied(acc, c) /\ keepsTurn(acc, c)
    BY <2>2, <2>4, <2>5, CommitKeeps, Zenon
  <2>7. DOMAIN accounts = Node /\ applied \in [Node -> [Tx -> Nat]]
    BY Zenon DEF LedgerInv
  <2>8. appliedTxs(n)' = appliedTxs(n) \cup c.done
    <3>1. \A t \in Tx : applied'[n][t] = IF t \in c.done THEN applied[n][t] + 1 ELSE applied[n][t]
      BY <2>3, <2>7, Zenon
    <3>2. \A t \in c.done : t \in Tx
      BY <2>6, Zenon DEF keepsLedger
    <3>3. ASSUME NEW t \in Tx
          PROVE  applied'[n][t] > 0 <=> applied[n][t] > 0 \/ t \in c.done
      <4>1. applied[n][t] \in Nat
        BY <2>7, Zenon
      <4> QED BY <4>1, <3>1, SMT
    <3> QED BY <3>2, <3>3, Zenon DEF appliedTxs
  <2>9. accounts'[n] = c.acc
    BY <2>3, <2>7, Zenon
  <2>10. \A m \in Node : m # n => accounts'[m] = accounts[m] /\ appliedTxs(m)' = appliedTxs(m)
    BY <2>3, <2>7, Zenon DEF appliedTxs
  <2>11. hasCommitted(n, c)
    BY <2>1, <2>6, <2>8, <2>9, <2>10, Zenon DEF hasCommitted
  <2> QED BY <2>11, Zenon
<1>2. CASE ~verifyBlock(n, p.hash)
  BY <1>2, Zenon DEF processBlock
<1> QED BY <1>1, <1>2, Zenon

\* What CommitBlock applies of a block is added to what was applied before.
LEMMA ProcessFollows ==
  ASSUME LedgerInv, EngineInv, AccountsFollowApplied,
         NEW n \in Node, NEW p \in handlers[n], processBlock(n, p)
  PROVE  AccountsFollowApplied'
<1>1. CASE UNCHANGED <<accounts, applied>>
  BY <1>1, Zenon DEF AccountsFollowApplied, appliedTxs
<1>2. ASSUME NEW c, hasCommitted(n, c) PROVE AccountsFollowApplied'
  <2>1. /\ followsApplied(accounts[n], c)
        /\ accounts'[n] = c.acc /\ appliedTxs(n)' = appliedTxs(n) \cup c.done
        /\ \A m \in Node : m # n => accounts'[m] = accounts[m] /\ appliedTxs(m)' = appliedTxs(m)
    BY <1>2, Zenon DEF hasCommitted
  <2>2. PICK S \in SUBSET Tx : S = appliedTxs(n)
    BY Zenon DEF appliedTxs
  <2>3. \A t \in Tx : applied[n][t] = 0 \/ (applied[n][t] = 1 /\ spent(accounts[n], t))
    BY Zenon DEF LedgerInv
  <2>4. \A t \in S : spent(accounts[n], t)
    <3>1. ~(0 > 0)
      BY SMT
    <3> QED BY <3>1, <2>2, <2>3, Zenon DEF appliedTxs
  <2>5. c.acc = ledgerAfter(S \cup c.done)
    <3>1. accounts[n] = ledgerAfter(S)
      BY <2>2, Zenon DEF AccountsFollowApplied
    <3> QED BY <3>1, <2>1, <2>4, Zenon DEF followsApplied
  <2>6. ASSUME NEW m \in Node, m # n
        PROVE  accounts'[m] = ledgerAfter(appliedTxs(m)')
    BY <2>1, <2>6, Zenon DEF AccountsFollowApplied
  <2>7. \A m \in Node : accounts'[m] = ledgerAfter(appliedTxs(m)')
    BY <2>1, <2>2, <2>5, <2>6, Zenon
  <2> QED BY <2>7, Zenon DEF AccountsFollowApplied, ledgerAfter, balanceAfter, nonceAfter
<1> QED BY <1>1, <1>2, ProcessCommits, Zenon

\* A validator that restarts has applied nothing.
LEMMA RestartFollows ==
  ASSUME LedgerInv, AccountsFollowApplied, NEW n \in Node, restart(n)
  PROVE  AccountsFollowApplied'
<1>1. /\ accounts' = [accounts EXCEPT ![n] = InitialAccounts]
      /\ applied' = [applied EXCEPT ![n] = [t \in Tx |-> 0]]
  BY Zenon DEF restart, NewStateManager
<1>2. DOMAIN accounts = Node /\ applied \in [Node -> [Tx -> Nat]]
  BY Zenon DEF LedgerInv
<1>3. accounts'[n] = InitialAccounts /\ appliedTxs(n)' = {}
  <2>1. ~(0 > 0)
    BY SMT
  <2>2. \A t \in Tx : applied'[n][t] = 0
    BY <1>1, <1>2, Zenon
  <2>3. accounts'[n] = InitialAccounts
    BY <1>1, <1>2, Zenon
  <2> QED BY <2>1, <2>2, <2>3, Zenon DEF appliedTxs
<1>4. ASSUME NEW m \in Node, m # n
      PROVE  accounts'[m] = ledgerAfter(appliedTxs(m)')
  <2>1. accounts'[m] = accounts[m] /\ applied'[m] = applied[m]
    BY <1>4, <1>1, <1>2, Zenon
  <2> QED BY <2>1, Zenon DEF AccountsFollowApplied, appliedTxs
<1>5. \A m \in Node : accounts'[m] = ledgerAfter(appliedTxs(m)')
  BY <1>3, <1>4, AfterNothing, Zenon
<1> QED BY <1>5, Zenon DEF AccountsFollowApplied, ledgerAfter, balanceAfter, nonceAfter

\* Only processBlock and a restart change accounts and what was applied.
LEMMA LedgerSteps ==
  ASSUME [Next]_vars
  PROVE  \/ UNCHANGED ledger
         \/ \E n \in Node : restart(n) \/ \E p \in handlers[n] : processBlock(n, p)
<1>1. ASSUME NEW n \in Node, handleWaveProposing(n)
      PROVE  UNCHANGED ledger
  BY <1>1, Zenon DEF handleWaveProposing, checkWave, createBlockFails, CreateBlock,
       BroadcastBlock, sendProposal, readReply, readDeadline, toNextValidator, broadcastComplete
<1>2. ASSUME NEW n \in Node, handlerStep(n)
      PROVE  UNCHANGED ledger \/ \E p \in handlers[n] : processBlock(n, p)
  BY <1>2, Zenon DEF handlerStep, verifyProposal, storeProposal
<1>3. ASSUME NEW n \in Node,
             \/ ProcessTimeout(n)
             \/ \E t \in Tx : AddTransaction(n, t) \/ worker(n, t)
             \/ \E m \in Node : \/ syncWithValidator(n, m)
                               \/ \E h \in syncs[n][m] : syncBlock(n, m, h)
      PROVE  UNCHANGED ledger
  BY <1>3, Zenon DEF ProcessTimeout, AddTransaction, worker, syncWithValidator, syncBlock
<1>4. CASE UNCHANGED vars
  BY <1>4, Zenon DEF vars
<1> QED BY <1>1, <1>2, <1>3, <1>4, ZenonT(40) DEF Next

\* The accounts of a validator are determined by the set of transactions it
\* has applied: not by the blocks that brought them, nor by their order, nor by
\* where CommitBlock gave up.
THEOREM AccountsAlwaysFollowApplied == Spec => []AccountsFollowApplied
<1>1. Init => AccountsFollowApplied
  <2> SUFFICES ASSUME Init, NEW n \in Node
               PROVE  accounts[n] = ledgerAfter(appliedTxs(n))
    BY Zenon DEF AccountsFollowApplied
  <2>1. accounts[n] = InitialAccounts /\ \A t \in Tx : applied[n][t] = 0
    BY Zenon DEF Init, NewStateManager
  <2>2. ~(0 > 0)
    BY SMT
  <2>3. appliedTxs(n) = {}
    BY <2>1, <2>2, Zenon DEF appliedTxs
  <2> QED BY <2>1, <2>3, AfterNothing, Zenon
<1>2. AccountsFollowApplied /\ LedgerInv /\ EngineInv /\ [Next]_vars => AccountsFollowApplied'
  <2> SUFFICES ASSUME AccountsFollowApplied, LedgerInv, EngineInv, [Next]_vars
               PROVE  AccountsFollowApplied'
    OBVIOUS
  <2>1. CASE UNCHANGED ledger
    BY <2>1, Zenon DEF AccountsFollowApplied, appliedTxs, ledger
  <2>2. \/ UNCHANGED ledger
        \/ \E n \in Node : restart(n) \/ \E p \in handlers[n] : processBlock(n, p)
    BY LedgerSteps, Zenon
  <2> QED BY <2>1, <2>2, ProcessFollows, RestartFollows, Zenon
<1>3. Inv => EngineInv
  BY Zenon DEF Inv
<1> QED BY <1>1, <1>2, <1>3, LedgerAlways, InvAlways, PTL DEF Spec

\* Validators that have applied the same transactions.
sameAccounts ==
  \A m, n \in Node : appliedTxs(m) = appliedTxs(n) => accounts[m] = accounts[n]

\* Two validators that have applied the same transactions hold the same
\* accounts, though blocks brought them to each in an order of its own.
THEOREM SameTransactionsSameAccounts == Spec => []sameAccounts
<1>1. AccountsFollowApplied => sameAccounts
  BY Zenon DEF AccountsFollowApplied, sameAccounts
<1> QED BY <1>1, AccountsAlwaysFollowApplied, PTL

\* A transaction is applied at most once in the life of a validator, however
\* often processBlock returns it to the mempool and blocks contain it.
THEOREM AppliedAtMostOnce == Spec => []AppliedOnce
<1>1. LedgerInv => AppliedOnce
  <2> SUFFICES ASSUME LedgerInv, NEW n \in Node, NEW t \in Tx
               PROVE  applied[n][t] <= 1
    BY Zenon DEF AppliedOnce
  <2>1. applied[n][t] = 0 \/ applied[n][t] = 1
    BY Zenon DEF LedgerInv
  <2> QED BY <2>1, SMT
<1> QED BY <1>1, LedgerAlways, PTL

\* The transactions a validator has applied were applied in turn.
TurnInv == \A n \in Node : inTurn(accounts[n], appliedTxs(n))

\* Before anything is applied, every sender is at its first nonce.
LEMMA NothingInTurn == inTurn(InitialAccounts, {})
<1>1. ASSUME NEW a \in DOMAIN InitialAccounts
      PROVE  /\ initialAccount(a).nonce <= InitialAccounts[a].nonce
             /\ noncesOf({}, a) = initialAccount(a).nonce..(InitialAccounts[a].nonce - 1)
  <2>1. PICK k \in Nat : k = initialAccount(a).nonce
    BY InitialParts, Zenon
  <2>2. InitialAccounts[a].nonce = k
    BY <2>1, Zenon DEF initialAccount
  <2>3. noncesOf({}, a) = {}
    BY Zenon DEF noncesOf
  <2>4. k..(k - 1) = {} /\ k <= k
    BY <2>1
  <2> QED BY <2>1, <2>2, <2>3, <2>4, Zenon
<1> QED BY <1>1, Zenon DEF inTurn

\* CommitBlock and a restart keep the turns.
LEMMA TurnStep == TurnInv /\ LedgerInv /\ EngineInv /\ [Next]_vars => TurnInv'
<1> SUFFICES ASSUME TurnInv, LedgerInv, EngineInv, [Next]_vars
             PROVE  \A m \in Node : inTurn(accounts'[m], appliedTxs(m)')
  BY Zenon DEF TurnInv, inTurn, noncesOf
<1>1. CASE UNCHANGED <<accounts, applied>>
  BY <1>1, Zenon DEF TurnInv, appliedTxs
<1>2. ASSUME NEW n \in Node, NEW c, hasCommitted(n, c), NEW m \in Node
      PROVE  inTurn(accounts'[m], appliedTxs(m)')
  <2>1. /\ keepsTurn(accounts[n], c)
        /\ accounts'[n] = c.acc /\ appliedTxs(n)' = appliedTxs(n) \cup c.done
        /\ m # n => accounts'[m] = accounts[m] /\ appliedTxs(m)' = appliedTxs(m)
    BY <1>2, Zenon DEF hasCommitted
  <2>2. PICK S \in SUBSET Tx : S = appliedTxs(n)
    BY Zenon DEF appliedTxs
  <2>3. inTurn(c.acc, S \cup c.done)
    BY <2>1, <2>2, Zenon DEF keepsTurn, TurnInv
  <2> QED BY <2>1, <2>2, <2>3, Zenon DEF TurnInv
<1>3. ASSUME NEW n \in Node, restart(n), NEW m \in Node
      PROVE  inTurn(accounts'[m], appliedTxs(m)')
  <2>1. /\ accounts' = [accounts EXCEPT ![n] = InitialAccounts]
        /\ applied' = [applied EXCEPT ![n] = [t \in Tx |-> 0]]
    BY <1>3, Zenon DEF restart, NewStateManager
  <2>2. DOMAIN accounts = Node /\ applied \in [Node -> [Tx -> Nat]]
    BY Zenon DEF LedgerInv
  <2>3. CASE m = n
    <3>1. ~(0 > 0)
      BY SMT
    <3>2. accounts'[m] = InitialAccounts /\ \A t \in Tx : applied'[m][t] = 0
      BY <2>1, <2>2, <2>3, Zenon
    <3>3. appliedTxs(m)' = {}
      BY <3>1, <3>2, Zenon DEF appliedTxs
    <3> QED BY <3>2, <3>3, NothingInTurn, Zenon
  <2>4. CASE m # n
    <3>1. accounts'[m] = accounts[m] /\ applied'[m] = applied[m]
      BY <2>1, <2>2, <2>4, Zenon
    <3> QED BY <3>1, Zenon DEF TurnInv, appliedTxs
  <2> QED BY <2>3, <2>4, Zenon
<1>4. CASE \E n \in Node : \E p \in handlers[n] : processBlock(n, p)
  BY <1>1, <1>2, <1>4, ProcessCommits, Zenon
<1>5. CASE UNCHANGED ledger
  BY <1>1, <1>5, Zenon DEF ledger
<1> QED BY <1>3, <1>4, <1>5, LedgerSteps, Zenon

\* A validator applies the transactions of each sender once and in the order of
\* their nonces, none skipped and of two with one nonce only one, in whatever order
\* blocks bring them: CommitBlock stops at a transaction that is not next.
THEOREM AlwaysAppliedInTurn == Spec => []AppliedInTurn
<1>1. Init => TurnInv
  <2> SUFFICES ASSUME Init, NEW n \in Node
               PROVE  inTurn(accounts[n], appliedTxs(n))
    BY ZenonT(40) DEF TurnInv
  <2>1. accounts[n] = InitialAccounts /\ \A t \in Tx : applied[n][t] = 0
    BY Zenon DEF Init, NewStateManager
  <2>2. ~(0 > 0)
    BY SMT
  <2>3. appliedTxs(n) = {}
    BY <2>1, <2>2, Zenon DEF appliedTxs
  <2> QED BY <2>1, <2>3, NothingInTurn, Zenon
<1>2. TurnInv /\ AppliedOnce => AppliedInTurn
  <2> SUFFICES ASSUME TurnInv, NEW n \in Node
               PROVE  /\ \A a \in DOMAIN accounts[n] :
                           noncesOf(appliedTxs(n), a) =
                             initialAccount(a).nonce..(accounts[n][a].nonce - 1)
                      /\ \A t, u \in appliedTxs(n) :
                           t.from = u.from /\ t.nonce = u.nonce => t = u
    BY Zenon DEF AppliedInTurn
  <2>1. inTurn(accounts[n], appliedTxs(n))
    BY Zenon DEF TurnInv
  <2> QED BY <2>1, Zenon DEF inTurn
<1>3. Inv => EngineInv
  BY Zenon DEF Inv
<1>4. Spec => []EngineInv
  BY <1>3, InvAlways, PTL
<1>5. Spec => []TurnInv
  BY <1>1, <1>4, TurnStep, LedgerAlways, PTL DEF Spec
<1> QED BY <1>2, <1>5, AppliedAtMostOnce, PTL

-----------------------------------------------------------------------------
(* What the invariant of the accounts gives *)

\* CommitBlock makes no money and loses none, on any validator and for any
\* blocks, also when it gives up in the middle of one.
THEOREM BalanceAlwaysConserved == Spec => []BalanceConserved
<1>1. LedgerInv => BalanceConserved
  BY Zenon DEF LedgerInv
<1> QED BY <1>1, LedgerAlways, PTL

\* Every balance is within what the accounts had at the start.
withinSupply == \A n \in Node : \A a \in DOMAIN accounts[n] :
                  accounts[n][a].balance <= total(balances(InitialAccounts))

\* No balance exceeds what the accounts had together when the validator
\* started, so the 64 bits of types.Value that hold the latter hold every
\* balance CommitBlock computes: its additions do not wrap around.
THEOREM BalancesFit == Spec => []withinSupply
<1>1. LedgerInv => withinSupply
  <2> SUFFICES ASSUME LedgerInv, NEW n \in Node, NEW a \in DOMAIN accounts[n]
               PROVE  accounts[n][a].balance <= total(balances(InitialAccounts))
    BY Zenon DEF withinSupply
  <2>1. PICK acc : acc = accounts[n]
    BY Zenon
  <2>2. isLedger(acc) /\ total(balances(acc)) = total(balances(InitialAccounts))
    BY <2>1, Zenon DEF LedgerInv, BalanceConserved
  <2>3. PICK f : f = balances(acc)
    BY Zenon
  <2>4. DOMAIN f = DOMAIN acc /\ \A x \in DOMAIN acc : f[x] = acc[x].balance
    BY <2>3, Zenon DEF balances
  <2>5. \A x \in DOMAIN acc : acc[x].balance \in Nat
    BY <2>2, AccountParts, Zenon
  <2>6. f[a] <= total(f)
    <3>1. IsFiniteSet(DOMAIN f) /\ a \in DOMAIN f /\ \A x \in DOMAIN f : f[x] \in Nat
      BY <2>1, <2>2, <2>4, <2>5, Zenon DEF isLedger
    <3> QED BY <3>1, TotalBounds, Zenon
  <2> QED BY <2>1, <2>2, <2>3, <2>4, <2>6, Zenon
<1> QED BY <1>1, LedgerAlways, PTL
=============================================================================
