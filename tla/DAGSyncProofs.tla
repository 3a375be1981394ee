--------------------------- MODULE DAGSyncProofs ---------------------------
(***************************************************************************)
(* Proofs about DAGSync, for any number of validators, rounds, failures    *)
(* and restarts, and any capacity of the DAG.                              *)
(***************************************************************************)
EXTENDS DAGSync, TLAPS

-----------------------------------------------------------------------------
(* Types *)

\* A block's name tells its validator, its round and the life of the process.
LEMMA BlockIdParts ==
  ASSUME NEW b \in BlockId
  PROVE  validatorOf(b) \in Node /\ roundOf(b) \in RoundNo /\ lifeOf(b) \in 0..MaxRestarts
BY DEF BlockId, validatorOf, roundOf, lifeOf

\* cleanupOldBlocks only removes blocks.
LEMMA CleanupRemoves ==
  ASSUME NEW S, NEW K \in cleanupOldBlocks(S)
  PROVE  K \subseteq S
BY Zenon DEF cleanupOldBlocks, highest

\* AddBlock keeps the types of the DAG.
LEMMA AddBlockType ==
  ASSUME TypeOK, NEW n \in Node, NEW b \in BlockId, AddBlock(n, b)
  PROVE  /\ dag' \in [Node -> SUBSET BlockId]
         /\ dagHeight' \in [Node -> Nat]
         /\ referrers' \in [Node -> SUBSET (BlockId \X BlockId)]
         /\ added' \in [Node -> SUBSET BlockId]
<1> DEFINE S == dag[n] \cup {b}
           R(K) == {p \in referrers[n] \cup (references[b] \X {b}) : p[1] \notin S \ K}
<1>1. PICK K \in cleanupOldBlocks(S) :
        /\ dag' = [dag EXCEPT ![n] = K]
        /\ referrers' = [referrers EXCEPT ![n] = R(K)]
        /\ dagHeight' = [dagHeight EXCEPT ![n] = @ + 1]
        /\ added' = [added EXCEPT ![n] = @ \cup {b}]
  BY Zenon DEF AddBlock, TypeOK
<1>2. K \subseteq BlockId
  BY <1>1, CleanupRemoves DEF TypeOK
<1>3. R(K) \subseteq BlockId \X BlockId
  <2>1. references[b] \subseteq BlockId
    BY DEF TypeOK
  <2>2. referrers[n] \subseteq BlockId \X BlockId
    BY DEF TypeOK
  <2> QED
    BY <2>1, <2>2
<1> HIDE DEF S, R
<1> QED
  BY <1>1, <1>2, <1>3, SMTT(30) DEF TypeOK

\* sendTo keeps a queue of blocks.
LEMMA SendType ==
  ASSUME NEW n, NEW d, NEW b \in BlockId, NEW queue \in Seq(BlockId)
  PROVE  sendTo(n, d, queue, b) \in Seq(BlockId)
BY DEF sendTo

\* advanceRound keeps the types.
LEMMA AdvanceType ==
  ASSUME TypeOK, NEW n \in Node, advanceRound(n)
  PROVE  TypeOK'
<1>1. currentRound[n] + 1 \in RoundNo /\ life[n] \in 0..MaxRestarts
  BY DEF advanceRound, TypeOK
<1>2. currentRound' \in [Node -> 0..MaxRound]
  BY <1>1, ConstantTypes, SMTT(30) DEF advanceRound, TypeOK, RoundNo
<1>3. at' \in [BlockId -> Section]
  BY <1>1 DEF advanceRound, TypeOK, Section, BlockId
<1> QED
  BY <1>2, <1>3, Zenon DEF advanceRound, TypeOK, dagState, network

\* The sections of createRoundBlock keep the types.
LEMMA CreateType ==
  ASSUME TypeOK, NEW b \in BlockId, createRoundBlock(b)
  PROVE  TypeOK'
<1> DEFINE n == validatorOf(b)
<1>b. n \in Node /\ roundOf(b) \in RoundNo
  BY BlockIdParts
<1>1. CASE readRoundBlocks(b)
  <2>1. roundOf(b) # 1 => roundOf(b) - 1 \in RoundNo
    BY <1>b, ConstantTypes DEF RoundNo
  <2>2. references' \in [BlockId -> SUBSET BlockId]
    BY <1>1, <1>b, <2>1 DEF readRoundBlocks, TypeOK
  <2>3. at' \in [BlockId -> Section]
    BY <1>1, Zenon DEF readRoundBlocks, TypeOK, Section
  <2> QED
    BY <1>1, <2>2, <2>3, Zenon DEF readRoundBlocks, TypeOK, dagState, network
<1>2. CASE readDagBlocks(b)
  <2>1. dagBlocksBefore(b) \subseteq BlockId
    BY <1>b DEF dagBlocksBefore, TypeOK
  <2>2. references' \in [BlockId -> SUBSET BlockId]
    BY <1>2, <2>1, Zenon DEF readDagBlocks, TypeOK
  <2>3. at' \in [BlockId -> Section]
    BY <1>2 DEF readDagBlocks, TypeOK, Section
  <2> QED
    BY <1>2, <2>2, <2>3, Zenon DEF readDagBlocks, TypeOK, dagState, network
<1>3. CASE fillBlock(b)
  <2>1. txs' \in [BlockId -> SUBSET Tx] /\ pendingTxs' \in [Node -> SUBSET Tx]
    BY <1>3, <1>b, Zenon DEF fillBlock, pendingCopy, clearPending, TypeOK
  <2>2. blockHeight' \in [BlockId -> Nat]
    BY <1>3, <1>b DEF fillBlock, nextHeight, TypeOK
  <2>3. at' \in [BlockId -> Section]
    BY <1>3 DEF fillBlock, TypeOK, Section
  <2> QED
    BY <1>3, <2>1, <2>2, <2>3, Zenon DEF fillBlock, TypeOK, dagState, network
<1>4. CASE addOwnBlock(b)
  <2>1. at' \in [BlockId -> Section]
    BY <1>4 DEF addOwnBlock, TypeOK, Section
  <2>2. AddBlock(n, b)
    BY <1>4 DEF addOwnBlock
  <2> QED
    BY <1>4, <1>b, <2>1, <2>2, AddBlockType, Zenon DEF addOwnBlock, TypeOK, network
<1>5. CASE trackOwnBlock(b)
  <2>1. at' \in [BlockId -> Section]
    BY <1>5, Zenon DEF trackOwnBlock, TypeOK, Section
  <2>2. roundBlocks' \in [Node -> [RoundNo -> SUBSET BlockId]]
    BY <1>5, <1>b DEF trackOwnBlock, TypeOK
  <2> QED
    BY <1>5, <2>1, <2>2, Zenon DEF trackOwnBlock, TypeOK, dagState, network
<1>6. CASE broadcastBlock(b)
  <2>1. at' \in [BlockId -> Section]
    BY <1>6, Zenon DEF broadcastBlock, TypeOK, Section
  <2>2. \A p \in Node \X Node : sendTo(n, p[2], chan[p], b) \in Seq(BlockId)
    BY SendType, Zenon DEF TypeOK
  <2>3. chan' \in [Node \X Node -> Seq(BlockId)]
    BY <1>6, <2>2 DEF broadcastBlock, TypeOK
  <2> QED
    BY <1>6, <2>1, <2>3, Zenon DEF broadcastBlock, TypeOK, dagState
<1> QED
  BY <1>1, <1>2, <1>3, <1>4, <1>5, <1>6 DEF createRoundBlock

\* Receiving a block and tracking it keep the types.
LEMMA ReceiveType ==
  ASSUME TypeOK, NEW n \in Node, NEW s \in Node,
         handleReceivedBlock(n, s) \/ trackReceivedBlock(n, s)
  PROVE  TypeOK'
<1>1. CASE handleReceivedBlock(n, s)
  <2> DEFINE b == Head(chan[<<s, n>>])
  <2>1. chan[<<s, n>>] \in Seq(BlockId) /\ chan[<<s, n>>] # <<>>
    BY <1>1 DEF handleReceivedBlock, TypeOK
  <2>2. b \in BlockId /\ Tail(chan[<<s, n>>]) \in Seq(BlockId)
    BY <2>1
  <2>3. chan' \in [Node \X Node -> Seq(BlockId)]
    BY <1>1, <2>2 DEF handleReceivedBlock, TypeOK
  <2>4. CASE b \in dag[n]
    BY <1>1, <2>3, <2>4, Zenon DEF handleReceivedBlock, TypeOK, creation, dagState
  <2>5. CASE b \notin dag[n]
    <3>1. AddBlock(n, b) /\ tracking' = [tracking EXCEPT ![<<s, n>>] = b]
      BY <1>1, <2>5 DEF handleReceivedBlock
    <3>2. tracking' \in [Node \X Node -> BlockId \cup {None}]
      BY <2>2, <3>1, Zenon DEF TypeOK
    <3> HIDE DEF b
    <3> QED
      BY <1>1, <2>2, <2>3, <3>1, <3>2, AddBlockType, Zenon DEF handleReceivedBlock, TypeOK, creation
  <2> QED
    BY <2>4, <2>5, Zenon
<1>2. CASE trackReceivedBlock(n, s)
  <2> DEFINE b == tracking[<<s, n>>]
  <2>1. b \in BlockId
    BY <1>2, Zenon DEF trackReceivedBlock, TypeOK
  <2>2. roundBlocks' \in [Node -> [RoundNo -> SUBSET BlockId]]
    <3>1. roundOf(b) \in RoundNo
      BY <2>1, BlockIdParts, Zenon
    <3>2. roundBlocks' = [roundBlocks EXCEPT ![n][roundOf(b)] = @ \cup {b}]
      BY <1>2, Zenon DEF trackReceivedBlock
    <3> HIDE DEF b
    <3> QED
      BY <2>1, <3>1, <3>2 DEF TypeOK
  <2>3. tracking' \in [Node \X Node -> BlockId \cup {None}]
    BY <1>2 DEF trackReceivedBlock, TypeOK
  <2> QED
    BY <1>2, <2>2, <2>3, Zenon DEF trackReceivedBlock, TypeOK, creation, dagState, network
<1> QED
  BY <1>1, <1>2

\* Connecting, losing a connection and handing over a transaction keep the
\* types.
LEMMA NetworkType ==
  ASSUME TypeOK, NEW n \in Node, NEW d \in Node,
         \/ connectToPeer(n, d) \/ breakConnection(n, d)
         \/ \E tx \in Tx : AddPendingTransaction(n, tx)
  PROVE  TypeOK'
<1>1. CASE connectToPeer(n, d)
  <2>1. conn' \in [Node -> [Node -> {"none", "up", "broken"}]]
    BY <1>1, Zenon DEF connectToPeer, TypeOK
  <2> QED
    BY <1>1, <2>1, Zenon DEF connectToPeer, TypeOK, creation, dagState
<1>2. CASE breakConnection(n, d)
  <2>1. conn' \in [Node -> [Node -> {"none", "up", "broken"}]]
    BY <1>2, Zenon DEF breakConnection, TypeOK
  <2>2. breaks' \in 0..MaxBreaks
    BY <1>2, ConstantTypes DEF breakConnection, TypeOK
  <2>3. PICK k \in 0..Len(chan[<<n, d>>]) :
          chan' = [chan EXCEPT ![<<n, d>>] = SubSeq(@, 1, k)]
    BY <1>2, Zenon DEF breakConnection
  <2>4. chan[<<n, d>>] \in Seq(BlockId)
    BY DEF TypeOK
  <2>5. SubSeq(chan[<<n, d>>], 1, k) \in Seq(BlockId)
    BY <2>4
  <2>6. chan' \in [Node \X Node -> Seq(BlockId)]
    BY <2>3, <2>5, Zenon DEF TypeOK
  <2> QED
    BY <1>2, <2>1, <2>2, <2>6, Zenon DEF breakConnection, TypeOK, creation, dagState
<1>3. ASSUME NEW tx \in Tx, AddPendingTransaction(n, tx)
      PROVE  TypeOK'
  <2>1. pendingTxs' \in [Node -> SUBSET Tx]
    BY <1>3 DEF AddPendingTransaction, TypeOK
  <2>2. submitted' \in SUBSET (Tx \X Node \X (0..MaxRestarts))
    BY <1>3 DEF AddPendingTransaction, TypeOK
  <2> QED
    BY <1>3, <2>1, <2>2, Zenon DEF AddPendingTransaction, TypeOK, creation, dagState, network
<1> QED
  BY <1>1, <1>2, <1>3

\* A restart leaves values of the right types.
LEMMA RestartType ==
  ASSUME TypeOK, NEW n \in Node, restart(n)
  PROVE  TypeOK'
<1>1. life' \in [Node -> 0..MaxRestarts]
  BY ConstantTypes, SMTT(30) DEF restart, TypeOK
<1>2. at' \in [BlockId -> Section]
  BY DEF restart, TypeOK, Section
<1>3. /\ currentRound' \in [Node -> 0..MaxRound]
      /\ dagHeight' \in [Node -> Nat]
  BY ConstantTypes DEF restart, TypeOK
<1>4. /\ dag' \in [Node -> SUBSET BlockId]
      /\ added' \in [Node -> SUBSET BlockId]
      /\ referrers' \in [Node -> SUBSET (BlockId \X BlockId)]
      /\ pendingTxs' \in [Node -> SUBSET Tx]
  BY DEF restart, TypeOK
<1>5. roundBlocks' \in [Node -> [RoundNo -> SUBSET BlockId]]
  BY Zenon DEF restart, TypeOK
<1>6. tracking' \in [Node \X Node -> BlockId \cup {None}]
  BY Zenon DEF restart, TypeOK
<1>7. conn' \in [Node -> [Node -> {"none", "up", "broken"}]]
  BY Zenon DEF restart, TypeOK
<1>8. chan' \in [Node \X Node -> Seq(BlockId)]
  BY DEF restart, TypeOK
<1> QED
  BY <1>1, <1>2, <1>3, <1>4, <1>5, <1>6, <1>7, <1>8, Zenon DEF restart, TypeOK

\* The types hold at the start.
LEMMA InitType == Init => TypeOK
<1> SUFFICES ASSUME Init PROVE TypeOK
  BY Zenon
<1>1. /\ currentRound \in [Node -> 0..MaxRound]
      /\ dagHeight \in [Node -> Nat]
      /\ blockHeight \in [BlockId -> Nat]
      /\ life \in [Node -> 0..MaxRestarts]
      /\ breaks \in 0..MaxBreaks
  BY ConstantTypes DEF Init
<1> QED
  BY <1>1 DEF Init, TypeOK, Section

\* Every step keeps the types.
LEMMA NextType == TypeOK /\ [Next]_vars => TypeOK'
<1> SUFFICES ASSUME TypeOK, [Next]_vars PROVE TypeOK'
  BY Zenon
<1>1. CASE UNCHANGED vars
  BY <1>1, Zenon DEF vars, TypeOK, creation, dagState, network
<1>2. ASSUME NEW n \in Node, advanceRound(n) \/ restart(n) PROVE TypeOK'
  BY <1>2, AdvanceType, RestartType
<1>3. ASSUME NEW b \in BlockId, createRoundBlock(b) PROVE TypeOK'
  BY <1>3, CreateType
<1>4. ASSUME NEW n \in Node, NEW s \in Node,
             \/ handleReceivedBlock(n, s) \/ trackReceivedBlock(n, s)
             \/ connectToPeer(n, s) \/ breakConnection(n, s)
      PROVE  TypeOK'
  BY <1>4, ReceiveType, NetworkType
<1>5. ASSUME NEW n \in Node, NEW tx \in Tx, AddPendingTransaction(n, tx) PROVE TypeOK'
  BY <1>5, NetworkType
<1> QED
  BY <1>1, <1>2, <1>3, <1>4, <1>5 DEF Next

\* The type invariant of DAG synchronisation holds for all constants.
THEOREM TypeCorrect == Spec => []TypeOK
<1>1. TypeOK /\ [Next]_vars => TypeOK'
  BY NextType, Zenon
<1> QED
  BY <1>1, InitType, PTL DEF Spec

-----------------------------------------------------------------------------
(* Transactions *)

\* Sections before the pending transactions are taken.
Unfilled == {"idle", "readRounds", "readDag", "fill"}

\* createRoundBlock runs for blocks of the current life of a validator, and
\* once per round: what it has not filled holds no transactions.
CreationInv ==
  \A b \in BlockId :
    /\ at[b] \notin {"idle", "done", "killed"} => lifeOf(b) = life[validatorOf(b)]
    /\ lifeOf(b) > life[validatorOf(b)] => at[b] = "idle"
    /\ lifeOf(b) = life[validatorOf(b)] /\ roundOf(b) > currentRound[validatorOf(b)]
         => at[b] = "idle"
    /\ at[b] \in Unfilled => txs[b] = {}

\* A transaction is known to the history as soon as it is pending, and is
\* pending at one validator at most; the history is of lives up to this one.
PoolInv ==
  /\ \A n \in Node : \A tx \in pendingTxs[n] : \E s \in submitted : s[1] = tx
  /\ \A b \in BlockId : \A tx \in txs[b] : \E s \in submitted : s[1] = tx
  /\ \A m, n \in Node : m # n => pendingTxs[m] \cap pendingTxs[n] = {}
  /\ \A s \in submitted : s[3] <= life[s[2]]

TxInv == TypeOK /\ CreationInv /\ PoolInv /\ IncludedOnce /\ NoneLost

\* A step of createRoundBlock moves the creation of one block forward.
LEMMA CreateMoves ==
  ASSUME TypeOK, NEW b \in BlockId, createRoundBlock(b)
  PROVE  /\ at[b] \notin {"idle", "done", "killed"}
         /\ at'[b] \notin {"idle", "killed"}
         /\ at'[b] \in Unfilled => at[b] \in Unfilled /\ txs' = txs
         /\ \A c \in BlockId : c # b => at'[c] = at[c] /\ txs'[c] = txs[c]
         /\ UNCHANGED <<life, currentRound, submitted>>
<1>1. CASE readRoundBlocks(b)
  <2>1. /\ at[b] = "readRounds" /\ at' = [at EXCEPT ![b] = "readDag"]
        /\ UNCHANGED <<txs, life, currentRound, submitted>>
    BY <1>1, Zenon DEF readRoundBlocks
  <2> QED
    BY <2>1, Zenon DEF Unfilled, TypeOK
<1>2. CASE readDagBlocks(b)
  <2>1. /\ at[b] = "readDag" /\ at' = [at EXCEPT ![b] = "fill"]
        /\ UNCHANGED <<txs, life, currentRound, submitted>>
    BY <1>2, Zenon DEF readDagBlocks
  <2> QED
    BY <2>1 DEF Unfilled, TypeOK
<1>3. CASE fillBlock(b)
  <2>1. /\ at[b] = "fill" /\ at' = [at EXCEPT ![b] = "addBlock"]
        /\ txs' = [txs EXCEPT ![b] = pendingCopy(validatorOf(b))]
        /\ UNCHANGED <<life, currentRound, submitted>>
    BY <1>3, Zenon DEF fillBlock
  <2> QED
    BY <2>1, Zenon DEF Unfilled, TypeOK
<1>4. CASE addOwnBlock(b)
  <2>1. /\ at[b] = "addBlock" /\ at' = [at EXCEPT ![b] = "track"]
        /\ UNCHANGED <<txs, life, currentRound, submitted>>
    BY <1>4, Zenon DEF addOwnBlock
  <2> QED
    BY <2>1, Zenon DEF Unfilled, TypeOK
<1>5. CASE trackOwnBlock(b)
  <2>1. /\ at[b] = "track" /\ at' = [at EXCEPT ![b] = "broadcast"]
        /\ UNCHANGED <<txs, life, currentRound, submitted>>
    BY <1>5, Zenon DEF trackOwnBlock
  <2> QED
    BY <2>1, Zenon DEF Unfilled, TypeOK
<1>6. CASE broadcastBlock(b)
  <2>1. /\ at[b] = "broadcast" /\ at' = [at EXCEPT ![b] = "done"]
        /\ UNCHANGED <<txs, life, currentRound, submitted>>
    BY <1>6, Zenon DEF broadcastBlock
  <2> QED
    BY <2>1, Zenon DEF Unfilled, TypeOK
<1> QED
  BY <1>1, <1>2, <1>3, <1>4, <1>5, <1>6, Zenon DEF createRoundBlock

\* All other steps but those of advanceRound, createRoundBlock and restart
\* leave the creation of blocks alone.
LEMMA CreationElsewhere ==
  ASSUME NEW n, NEW s,
         \/ handleReceivedBlock(n, s) \/ trackReceivedBlock(n, s)
         \/ connectToPeer(n, s) \/ breakConnection(n, s)
         \/ \E tx \in Tx : AddPendingTransaction(n, tx)
         \/ UNCHANGED vars
  PROVE  UNCHANGED <<creation, currentRound, life>>
BY DEF handleReceivedBlock, trackReceivedBlock, connectToPeer, breakConnection,
       AddPendingTransaction, vars, creation

\* Two names with the same parts are the same block.
LEMMA SameBlock ==
  ASSUME NEW b \in BlockId, NEW n \in Node, NEW r \in RoundNo, NEW l \in 0..MaxRestarts
  PROVE  /\ <<n, r, l>> \in BlockId
         /\ validatorOf(<<n, r, l>>) = n /\ roundOf(<<n, r, l>>) = r /\ lifeOf(<<n, r, l>>) = l
         /\ validatorOf(b) = n /\ roundOf(b) = r /\ lifeOf(b) = l => b = <<n, r, l>>
BY DEF BlockId, validatorOf, roundOf, lifeOf

\* The first goroutine of a round finds its block untouched.
LEMMA AdvanceMoves ==
  ASSUME TypeOK, CreationInv, NEW n \in Node, advanceRound(n)
  PROVE  LET b == <<n, currentRound[n] + 1, life[n]>>
         IN  /\ b \in BlockId /\ at[b] = "idle"
             /\ at' = [at EXCEPT ![b] = "readRounds"]
             /\ currentRound' = [currentRound EXCEPT ![n] = currentRound[n] + 1]
             /\ UNCHANGED <<references, txs, blockHeight, life>>
<1> DEFINE b == <<n, currentRound[n] + 1, life[n]>>
<1>1. currentRound[n] + 1 \in RoundNo /\ life[n] \in 0..MaxRestarts /\ currentRound[n] \in 0..MaxRound
  BY Zenon DEF advanceRound, TypeOK
<1>2. b \in BlockId /\ validatorOf(b) = n /\ roundOf(b) = currentRound[n] + 1 /\ lifeOf(b) = life[n]
  BY <1>1 DEF BlockId, validatorOf, roundOf, lifeOf
<1>3. currentRound[n] + 1 > currentRound[n]
  BY <1>1
<1>4. at[b] = "idle"
  <2> HIDE DEF b
  <2> QED
    BY <1>2, <1>3, Zenon DEF CreationInv
<1> QED
  BY <1>2, <1>4, Zenon DEF advanceRound

\* CreationInv is inductive, given the types.
LEMMA CreationStep == TypeOK /\ CreationInv /\ [Next]_vars => CreationInv'
<1> SUFFICES ASSUME TypeOK, CreationInv, [Next]_vars PROVE CreationInv'
  BY Zenon
<1>1. CASE \E n, s : UNCHANGED <<creation, currentRound, life>>
  BY <1>1, Zenon DEF CreationInv, creation
<1>2. ASSUME NEW n \in Node, advanceRound(n) PROVE CreationInv'
  <2> DEFINE c == <<n, currentRound[n] + 1, life[n]>>
  <2>1. /\ c \in BlockId /\ at[c] = "idle"
        /\ at' = [at EXCEPT ![c] = "readRounds"]
        /\ currentRound' = [currentRound EXCEPT ![n] = currentRound[n] + 1]
        /\ UNCHANGED <<txs, life>>
    BY <1>2, AdvanceMoves
  <2>2. /\ validatorOf(c) = n /\ roundOf(c) = currentRound[n] + 1 /\ lifeOf(c) = life[n]
    BY Zenon DEF validatorOf, roundOf, lifeOf
  <2> HIDE DEF c
  <2> SUFFICES ASSUME NEW b \in BlockId
               PROVE  /\ at'[b] \notin {"idle", "done", "killed"} => lifeOf(b) = life'[validatorOf(b)]
                      /\ lifeOf(b) > life'[validatorOf(b)] => at'[b] = "idle"
                      /\ lifeOf(b) = life'[validatorOf(b)] /\ roundOf(b) > currentRound'[validatorOf(b)]
                           => at'[b] = "idle"
                      /\ at'[b] \in Unfilled => txs'[b] = {}
    BY Zenon DEF CreationInv
  <2>3. validatorOf(b) \in Node /\ roundOf(b) \in Nat /\ lifeOf(b) \in Nat
    BY BlockIdParts, ConstantTypes DEF RoundNo
  <2>4. currentRound[validatorOf(b)] \in Nat /\ life[validatorOf(b)] \in Nat /\ currentRound[n] \in Nat
    BY <2>3, ConstantTypes DEF TypeOK
  <2>5. CASE b = c
    <3>1. currentRound'[n] = currentRound[n] + 1 /\ at'[b] = "readRounds"
      BY <2>1, <2>5, Zenon DEF TypeOK
    <3>2. txs[b] = {}
      BY <2>1, <2>5, Zenon DEF CreationInv, Unfilled
    <3> QED
      BY <2>1, <2>2, <2>3, <2>4, <2>5, <3>1, <3>2
  <2>6. CASE b # c
    <3>1. at'[b] = at[b]
      BY <2>1, <2>6, Zenon DEF TypeOK
    <3>2. currentRound'[validatorOf(b)] >= currentRound[validatorOf(b)]
      BY <2>1, <2>3, <2>4, SMTT(30) DEF TypeOK
    <3>3. currentRound'[validatorOf(b)] \in Nat
      BY <2>1, <2>3, <2>4 DEF TypeOK
    <3>4. roundOf(b) > currentRound'[validatorOf(b)] => roundOf(b) > currentRound[validatorOf(b)]
      BY <2>3, <2>4, <3>2, <3>3
    <3> QED
      BY <2>1, <3>1, <3>4, Zenon DEF CreationInv
  <2> QED
    BY <2>5, <2>6, Zenon
<1>3. ASSUME NEW c \in BlockId, createRoundBlock(c) PROVE CreationInv'
  <2>1. /\ at[c] \notin {"idle", "done", "killed"}
        /\ at'[c] \notin {"idle", "killed"}
        /\ at'[c] \in Unfilled => at[c] \in Unfilled /\ txs' = txs
        /\ \A d \in BlockId : d # c => at'[d] = at[d] /\ txs'[d] = txs[d]
        /\ UNCHANGED <<life, currentRound>>
    BY <1>3, CreateMoves, Zenon
  <2> QED
    BY <2>1, Zenon DEF CreationInv
<1>4. ASSUME NEW n \in Node, restart(n) PROVE CreationInv'
  <2> SUFFICES ASSUME NEW b \in BlockId
               PROVE  /\ at'[b] \notin {"idle", "done", "killed"} => lifeOf(b) = life'[validatorOf(b)]
                      /\ lifeOf(b) > life'[validatorOf(b)] => at'[b] = "idle"
                      /\ lifeOf(b) = life'[validatorOf(b)] /\ roundOf(b) > currentRound'[validatorOf(b)]
                           => at'[b] = "idle"
                      /\ at'[b] \in Unfilled => txs'[b] = {}
    BY DEF CreationInv
  <2>1. validatorOf(b) \in Node /\ roundOf(b) \in Nat /\ lifeOf(b) \in Nat
    BY BlockIdParts, ConstantTypes DEF RoundNo
  <2>2. life[validatorOf(b)] \in Nat /\ life[n] \in Nat
    BY <2>1, ConstantTypes DEF TypeOK
  <2>3. at'[b] = IF b \in creating(n) THEN "killed" ELSE at[b]
    BY <1>4, Zenon DEF restart
  <2>4. txs' = txs
    BY <1>4, Zenon DEF restart
  <2>5. CASE validatorOf(b) = n
    <3>1. life'[n] = life[n] + 1
      BY <1>4, Zenon DEF restart, TypeOK
    <3>2. at'[b] \in {"idle", "done", "killed"}
      BY <2>3, <2>5, Zenon DEF creating
    <3>3. lifeOf(b) >= life[n] + 1 => at[b] = "idle"
      BY <2>1, <2>2, <2>5 DEF CreationInv
    <3>4. lifeOf(b) >= life[n] + 1 => at'[b] = "idle"
      BY <2>3, <3>3, Zenon DEF creating
    <3>5. at'[b] \in Unfilled => at[b] \in Unfilled
      BY <2>3 DEF Unfilled
    <3> QED
      BY <2>1, <2>2, <2>4, <2>5, <3>1, <3>2, <3>4, <3>5 DEF CreationInv
  <2>6. CASE validatorOf(b) # n
    <3>1. /\ life'[validatorOf(b)] = life[validatorOf(b)]
          /\ currentRound'[validatorOf(b)] = currentRound[validatorOf(b)]
      BY <1>4, <2>1, <2>6, Zenon DEF restart, TypeOK
    <3>2. at'[b] = at[b]
      BY <2>3, <2>6, Zenon DEF creating
    <3> QED
      BY <2>4, <3>1, <3>2, Zenon DEF CreationInv
  <2> QED
    BY <2>5, <2>6, Zenon
<1> QED
  BY <1>1, <1>2, <1>3, <1>4, CreationElsewhere DEF Next

\* Only fillBlock, AddPendingTransaction and restart touch transactions.
LEMMA TxElsewhere ==
  ASSUME [Next]_vars,
         \A b \in BlockId : ~fillBlock(b),
         \A n \in Node, tx \in Tx : ~AddPendingTransaction(n, tx),
         \A n \in Node : ~restart(n)
  PROVE  UNCHANGED <<txs, pendingTxs, submitted, life>>
<1>1. CASE UNCHANGED vars
  BY <1>1, Zenon DEF vars, creation
<1>2. ASSUME NEW n \in Node, advanceRound(n)
      PROVE  UNCHANGED <<txs, pendingTxs, submitted, life>>
  BY <1>2, Zenon DEF advanceRound
<1>3. ASSUME NEW b \in BlockId, createRoundBlock(b)
      PROVE  UNCHANGED <<txs, pendingTxs, submitted, life>>
  <2>1. CASE readRoundBlocks(b)
    BY <2>1, Zenon DEF readRoundBlocks
  <2>2. CASE readDagBlocks(b)
    BY <2>2, Zenon DEF readDagBlocks
  <2>3. CASE addOwnBlock(b)
    BY <2>3, Zenon DEF addOwnBlock
  <2>4. CASE trackOwnBlock(b)
    BY <2>4, Zenon DEF trackOwnBlock
  <2>5. CASE broadcastBlock(b)
    BY <2>5, Zenon DEF broadcastBlock
  <2> QED
    BY <1>3, <2>1, <2>2, <2>3, <2>4, <2>5, Zenon DEF createRoundBlock
<1>4. ASSUME NEW n \in Node, NEW s \in Node,
             \/ handleReceivedBlock(n, s) \/ trackReceivedBlock(n, s)
             \/ connectToPeer(n, s) \/ breakConnection(n, s)
      PROVE  UNCHANGED <<txs, pendingTxs, submitted, life>>
  BY <1>4 DEF handleReceivedBlock, trackReceivedBlock, connectToPeer, breakConnection, creation
<1> QED
  BY <1>1, <1>2, <1>3, <1>4, Zenon DEF Next

\* A transaction moves from the pool into one block, and into no other.
LEMMA FillStep ==
  ASSUME TxInv, NEW b \in BlockId, fillBlock(b)
  PROVE  PoolInv' /\ IncludedOnce' /\ NoneLost'
<1> DEFINE n == validatorOf(b)
<1>1. n \in Node
  BY BlockIdParts
<1>2. /\ txs' = [txs EXCEPT ![b] = pendingTxs[n]]
      /\ pendingTxs' = [pendingTxs EXCEPT ![n] = {}]
      /\ UNCHANGED <<submitted, life>>
  BY Zenon DEF fillBlock, pendingCopy, clearPending
<1>3. lifeOf(b) = life[n] /\ txs[b] = {}
  BY Zenon DEF fillBlock, TxInv, CreationInv, Unfilled
<1> HIDE DEF n
<1>4. /\ txs'[b] = pendingTxs[n] /\ pendingTxs'[n] = {}
      /\ \A c \in BlockId : c # b => txs'[c] = txs[c]
      /\ \A m \in Node : m # n => pendingTxs'[m] = pendingTxs[m]
  BY <1>1, <1>2, Zenon DEF TxInv, TypeOK
<1>5. PoolInv'
  BY <1>1, <1>2, <1>4 DEF TxInv, PoolInv
<1>6. IncludedOnce'
  BY <1>1, <1>4 DEF TxInv, PoolInv, IncludedOnce
<1>7. NoneLost'
  <2> SUFFICES ASSUME NEW s \in submitted, s[3] = life[s[2]]
               PROVE  \/ s[1] \in pendingTxs'[s[2]]
                      \/ \E c \in BlockId : /\ validatorOf(c) = s[2] /\ lifeOf(c) = s[3]
                                            /\ s[1] \in txs'[c]
    BY <1>2, Zenon DEF NoneLost
  <2>0. s[2] \in Node
    BY Zenon DEF TxInv, TypeOK
  <2>1. CASE s[1] \in pendingTxs[s[2]]
    <3>1. CASE s[2] = n
      BY <1>3, <1>4, <2>1, <3>1 DEF n
    <3>2. CASE s[2] # n
      BY <1>4, <2>0, <2>1, <3>2, Zenon
    <3> QED
      BY <3>1, <3>2, Zenon
  <2>2. CASE s[1] \notin pendingTxs[s[2]]
    <3>1. PICK c \in BlockId : validatorOf(c) = s[2] /\ lifeOf(c) = s[3] /\ s[1] \in txs[c]
      BY <2>2, Zenon DEF TxInv, NoneLost
    <3>2. c # b
      BY <1>3, <3>1, Zenon
    <3> QED
      BY <1>4, <3>1, <3>2, Zenon
  <2> QED
    BY <2>1, <2>2, Zenon
<1> QED
  BY <1>5, <1>6, <1>7, Zenon

\* A transaction that is handed over is new to all pools and blocks.
LEMMA SubmitStep ==
  ASSUME TxInv, NEW n \in Node, NEW tx \in Tx, AddPendingTransaction(n, tx)
  PROVE  PoolInv' /\ IncludedOnce' /\ NoneLost'
<1>1. /\ \A s \in submitted : s[1] # tx
      /\ pendingTxs' = [pendingTxs EXCEPT ![n] = @ \cup {tx}]
      /\ submitted' = submitted \cup {<<tx, n, life[n]>>}
      /\ UNCHANGED <<txs, life>>
  BY Zenon DEF AddPendingTransaction, creation
<1>2. /\ pendingTxs'[n] = pendingTxs[n] \cup {tx}
      /\ \A m \in Node : m # n => pendingTxs'[m] = pendingTxs[m]
  BY <1>1, Zenon DEF TxInv, TypeOK
<1>3. /\ \A m \in Node : tx \notin pendingTxs[m]
      /\ \A b \in BlockId : tx \notin txs[b]
  BY <1>1, Zenon DEF TxInv, PoolInv
<1>4. PoolInv'
  <2>1. <<tx, n, life[n]>>[1] = tx /\ <<tx, n, life[n]>> \in submitted'
    BY <1>1, Zenon
  <2>2. \A m \in Node : \A t \in pendingTxs'[m] : \E s \in submitted' : s[1] = t
    <3> SUFFICES ASSUME NEW m \in Node, NEW t \in pendingTxs'[m]
                 PROVE  \E s \in submitted' : s[1] = t
      BY Zenon
    <3>1. CASE t = tx
      BY <2>1, <3>1, Zenon
    <3>2. CASE t # tx
      <4>1. t \in pendingTxs[m]
        BY <1>2, <3>2, Zenon
      <4>2. \E s \in submitted : s[1] = t
        BY <4>1, Zenon DEF TxInv, PoolInv
      <4> QED
        BY <1>1, <4>2, Zenon
    <3> QED
      BY <3>1, <3>2, Zenon
  <2>3. \A b \in BlockId : \A t \in txs'[b] : \E s \in submitted' : s[1] = t
    BY <1>1, Zenon DEF TxInv, PoolInv
  <2>4. \A l, m \in Node : l # m => pendingTxs'[l] \cap pendingTxs'[m] = {}
    BY <1>2, <1>3 DEF TxInv, PoolInv
  <2>5. \A s \in submitted' : s[3] <= life'[s[2]]
    <3>1. life[n] <= life[n]
      BY ConstantTypes DEF TxInv, TypeOK
    <3> QED
      BY <1>1, <3>1 DEF TxInv, PoolInv
  <2> QED
    BY <2>2, <2>3, <2>4, <2>5, Zenon DEF PoolInv
<1>5. IncludedOnce'
  BY <1>1, <1>2, <1>3 DEF TxInv, IncludedOnce
<1>6. NoneLost'
  <2> SUFFICES ASSUME NEW s \in submitted', s[3] = life[s[2]]
               PROVE  \/ s[1] \in pendingTxs'[s[2]]
                      \/ \E c \in BlockId : /\ validatorOf(c) = s[2] /\ lifeOf(c) = s[3]
                                            /\ s[1] \in txs[c]
    BY <1>1, Zenon DEF NoneLost
  <2>1. CASE s = <<tx, n, life[n]>>
    BY <1>2, <2>1, Zenon
  <2>2. CASE s \in submitted
    <3>1. s[2] \in Node
      BY <2>2, Zenon DEF TxInv, TypeOK
    <3>2. pendingTxs[s[2]] \subseteq pendingTxs'[s[2]]
      BY <1>2, <3>1
    <3> QED
      BY <2>2, <3>2, Zenon DEF TxInv, NoneLost
  <2> QED
    BY <1>1, <2>1, <2>2, Zenon
<1> QED
  BY <1>4, <1>5, <1>6, Zenon

\* A restart loses the pool, and ends the life of the process whose
\* transactions are accounted for.
LEMMA RestartTxStep ==
  ASSUME TxInv, NEW n \in Node, restart(n)
  PROVE  PoolInv' /\ IncludedOnce' /\ NoneLost'
<1>1. /\ pendingTxs' = [pendingTxs EXCEPT ![n] = {}]
      /\ life' = [life EXCEPT ![n] = @ + 1]
      /\ UNCHANGED <<txs, submitted>>
  BY Zenon DEF restart
<1>2. /\ pendingTxs'[n] = {}
      /\ \A m \in Node : m # n => pendingTxs'[m] = pendingTxs[m]
      /\ life'[n] = life[n] + 1 /\ life[n] \in Nat
      /\ \A m \in Node : m # n => life'[m] = life[m]
  BY <1>1, ConstantTypes DEF TxInv, TypeOK
<1>3. \A s \in submitted : /\ s[2] \in Node /\ s[3] \in Nat /\ life[s[2]] \in Nat
                           /\ s[3] <= life[s[2]]
  BY ConstantTypes DEF TxInv, TypeOK, PoolInv
<1>4. PoolInv'
  <2>1. \A s \in submitted : s[3] <= life'[s[2]]
    BY <1>2, <1>3
  <2> QED
    BY <1>1, <1>2, <2>1, ZenonT(40) DEF TxInv, PoolInv
<1>5. IncludedOnce'
  BY <1>1, <1>2, Zenon DEF TxInv, IncludedOnce
<1>6. NoneLost'
  <2>1. \A s \in submitted : s[3] = life'[s[2]] => s[2] # n
    BY <1>2, <1>3
  <2> QED
    BY <1>1, <1>2, <1>3, <2>1, ZenonT(40) DEF TxInv, NoneLost
<1> QED
  BY <1>4, <1>5, <1>6, Zenon

\* TxInv is inductive.
LEMMA TxStep == TxInv /\ [Next]_vars => TxInv'
<1> SUFFICES ASSUME TxInv, [Next]_vars PROVE TxInv'
  OBVIOUS
<1>1. TypeOK' /\ CreationInv'
  BY NextType, CreationStep DEF TxInv
<1>2. CASE \E b \in BlockId : fillBlock(b)
  BY <1>1, <1>2, FillStep DEF TxInv
<1>3. CASE \E n \in Node, tx \in Tx : AddPendingTransaction(n, tx)
  BY <1>1, <1>3, SubmitStep DEF TxInv
<1>4. CASE \E n \in Node : restart(n)
  BY <1>1, <1>4, RestartTxStep, Zenon DEF TxInv
<1>5. CASE UNCHANGED <<txs, pendingTxs, submitted, life>>
  BY <1>1, <1>5 DEF TxInv, PoolInv, IncludedOnce, NoneLost
<1> QED
  BY <1>2, <1>3, <1>4, <1>5, TxElsewhere

\* TxInv holds at the start.
LEMMA TxInit == Init => TxInv
<1> SUFFICES ASSUME Init PROVE TxInv
  OBVIOUS
<1>1. TypeOK
  BY InitType, Zenon
<1>2. CreationInv
  BY Zenon DEF Init, CreationInv
<1>3. PoolInv /\ IncludedOnce /\ NoneLost
  BY DEF Init, PoolInv, IncludedOnce, NoneLost
<1> QED
  BY <1>1, <1>2, <1>3, Zenon DEF TxInv

\* generateTransactions puts no transaction into two blocks, however many
\* creations of blocks, validators and restarts there are.
THEOREM IncludedOnceAlways == Spec => []IncludedOnce
<1>1. TxInv => IncludedOnce
  BY DEF TxInv
<1> QED
  BY <1>1, TxInit, TxStep, PTL DEF Spec

\* As long as the process lives, no transaction that AddPendingTransaction
\* took is lost between the pool and the blocks.
THEOREM NoneLostAlways == Spec => []NoneLost
<1>1. TxInv => NoneLost
  BY DEF TxInv
<1> QED
  BY <1>1, TxInit, TxStep, PTL DEF Spec
============================================================================
