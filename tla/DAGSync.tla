------------------------------ MODULE DAGSync ------------------------------
(***************************************************************************)
(* DAG synchronisation, internal/dag/dag_sync.go, and the block DAG it     *)
(* fills, internal/dag/dag.go.                                             *)
(*                                                                         *)
(* Every validator runs a round ticker.  Each tick starts a goroutine      *)
(* createRoundBlock that references the blocks of the previous round,      *)
(* takes the pending transactions, adds the new block to the DAG, tracks   *)
(* it by round and sends it to the peers.  Goroutines of different rounds  *)
(* may overlap, and each section of createRoundBlock that holds one lock   *)
(* is one action; at[b] says which section the creation of b is at.        *)
(*                                                                         *)
(* A block is named by its validator, its round and the life (number of    *)
(* restarts) of the process that made it, which stands for its hash: a     *)
(* goroutine is started once per round.  The transactions createRoundBlock *)
(* makes up to fill a block are left out.                                  *)
(***************************************************************************)
EXTENDS Integers, Sequences, FiniteSets

CONSTANTS
  Node,         \* the validators
  peers,        \* peers[n]: the validators n dials
  Tx,           \* transactions handed to AddPendingTransaction, each once
  DagCapacity,  \* blocks a DAG keeps (5 in dag.go)
  RoundLimit,   \* numbers a types.Round has (2^64)
  MaxRound,     \* bound: rounds explored
  MaxOverlap,   \* bound: creations of one validator that run at a time
  MaxBreaks,    \* bound: connections that fail
  MaxRestarts   \* bound: restarts of a validator

RoundNo == 1..MaxRound
BlockId == Node \X RoundNo \X (0..MaxRestarts)
None == <<>>

validatorOf(b) == b[1]
roundOf(b) == b[2]
lifeOf(b) == b[3]

ASSUME ConstantTypes ==
  /\ IsFiniteSet(Node)
  /\ peers \in [Node -> SUBSET Node]
  /\ \A n \in Node : n \notin peers[n]
  /\ DagCapacity \in Nat \ {0}
  /\ {RoundLimit, MaxRound, MaxOverlap, MaxBreaks, MaxRestarts} \subseteq Nat
  /\ RoundLimit > MaxRound + 3

\* The sections of createRoundBlock, in the order in which they run.
Section == {"idle", "readRounds", "readDag", "fill", "addBlock", "track",
            "broadcast", "done", "killed"}

VARIABLES
  currentRound,  \* ds.currentRound
  at,            \* the section the creation of a block is at
  references,    \* Header.References of the blocks
  txs,           \* the pending transactions taken into the blocks
  blockHeight,   \* Header.Height of the blocks
  dag,           \* d.blocks
  dagHeight,     \* d.height
  referrers,     \* d.references, as pairs <<referenced block, block>>
  roundBlocks,   \* ds.roundBlocks
  pendingTxs,    \* ds.pendingTxs
  tracking,      \* tracking[<<s, n>>]: block from s that n added and has to track
  conn,          \* ds.connections: "none", "up" or "broken"
  chan,          \* chan[<<s, n>>]: blocks on the connection from s to n
  life,          \* restarts of each validator so far
  added,         \* history: blocks AddBlock was called with in this life
  submitted,     \* history: <<tx, n, life>> handed to AddPendingTransaction
  breaks         \* bound: failures so far

creation == <<at, references, txs, blockHeight>>
dagState == <<dag, dagHeight, referrers, added>>
network == <<conn, chan, breaks>>
vars == <<currentRound, creation, dagState, roundBlocks, pendingTxs, tracking, network,
          life, submitted>>

-----------------------------------------------------------------------------
(* The block DAG *)

highest(S) ==
  {K \in SUBSET S : /\ Cardinality(K) = DagCapacity
                    /\ \A k \in K, d \in S \ K : blockHeight[d] <= blockHeight[k]}

\* Mutant of cleanupOldBlocks: any blocks are removed.
cleanupAnyBlocks(S) ==
  IF Cardinality(S) <= DagCapacity THEN {S}
  ELSE {K \in SUBSET S : Cardinality(K) = DagCapacity}

\* The possible outcomes of the cleanup: the lowest blocks go.  The order of
\* blocks of one height is that of a map iteration.
cleanupOldBlocks(S) == IF Cardinality(S) <= DagCapacity THEN {S} ELSE highest(S)

\* References of a new block are entered, those to removed blocks deleted.
AddBlock(n, b) ==
  LET S == dag[n] \cup {b}
  IN  \E K \in cleanupOldBlocks(S) :
        /\ dag' = [dag EXCEPT ![n] = K]
        /\ referrers' = [referrers EXCEPT
             ![n] = {p \in @ \cup (references[b] \X {b}) : p[1] \notin S \ K}]
        /\ dagHeight' = [dagHeight EXCEPT ![n] = @ + 1]
        /\ added' = [added EXCEPT ![n] = @ \cup {b}]

-----------------------------------------------------------------------------
(* Rounds and the creation of blocks *)

Init ==
  /\ currentRound = [n \in Node |-> 0]
  /\ at = [b \in BlockId |-> "idle"]
  /\ references = [b \in BlockId |-> {}]
  /\ txs = [b \in BlockId |-> {}]
  /\ blockHeight = [b \in BlockId |-> 0]
  /\ dag = [n \in Node |-> {}]
  /\ dagHeight = [n \in Node |-> 0]
  /\ referrers = [n \in Node |-> {}]
  /\ roundBlocks = [n \in Node |-> [r \in RoundNo |-> {}]]
  /\ pendingTxs = [n \in Node |-> {}]
  /\ tracking = [p \in Node \X Node |-> None]
  /\ conn = [n \in Node |-> [d \in Node |-> "none"]]
  /\ chan = [p \in Node \X Node |-> <<>>]
  /\ life = [n \in Node |-> 0]
  /\ added = [n \in Node |-> {}]
  /\ submitted = {}
  /\ breaks = 0

\* waitForAllPeers has returned.
started(n) == \A d \in peers[n] : conn[n][d] # "none"

creating(n) == {b \in BlockId : validatorOf(b) = n /\ at[b] \notin {"idle", "done", "killed"}}

advanceRound(n) ==
  LET round == currentRound[n] + 1
  IN  /\ started(n)
      /\ round \in RoundNo /\ Cardinality(creating(n)) < MaxOverlap
      /\ currentRound' = [currentRound EXCEPT ![n] = round]
      /\ at' = [at EXCEPT ![<<n, round, life[n]>>] = "readRounds"]
      /\ UNCHANGED <<references, txs, blockHeight, dagState, roundBlocks, pendingTxs,
                     tracking, network, life, submitted>>

\* getPreviousRoundReferences(round - 1), first half, under ds.mu; there are
\* no references in round 1.
readRoundBlocks(b) ==
  /\ at[b] = "readRounds"
  /\ references' = [references EXCEPT
       ![b] = IF roundOf(b) = 1 THEN {} ELSE roundBlocks[validatorOf(b)][roundOf(b) - 1]]
  /\ at' = [at EXCEPT ![b] = "readDag"]
  /\ UNCHANGED <<currentRound, txs, blockHeight, dagState, roundBlocks, pendingTxs,
                 tracking, network, life, submitted>>

\* Mutant of dagBlocksBefore: the blocks of the block's own round.
dagBlocksBeside(b) == {c \in dag[validatorOf(b)] : roundOf(c) = roundOf(b)}

dagBlocksBefore(b) == {c \in dag[validatorOf(b)] : roundOf(c) = roundOf(b) - 1}

\* Second half, under the lock of the DAG.
readDagBlocks(b) ==
  /\ at[b] = "readDag"
  /\ references' = [references EXCEPT ![b] = @ \cup dagBlocksBefore(b)]
  /\ at' = [at EXCEPT ![b] = "fill"]
  /\ UNCHANGED <<currentRound, txs, blockHeight, dagState, roundBlocks, pendingTxs,
                 tracking, network, life, submitted>>

\* Mutant of pendingCopy: the slice is returned after it was cut to length 0.
clearedSlice(n) == {}

\* getPendingTransactions returns a copy of the pool
pendingCopy(n) == pendingTxs[n]

\* Mutant of clearPending: the pool is not cleared.
keepPending(n) == UNCHANGED pendingTxs

\* and clears it.
clearPending(n) == pendingTxs' = [pendingTxs EXCEPT ![n] = {}]

\* Mutant of nextHeight: one less than the DAG's height.
previousHeight(n) == dagHeight[n] - 1

nextHeight(n) == dagHeight[n] + 1

\* generateTransactions takes the pending transactions, and the block literal
\* reads the height of the DAG.  The two commute with all that may come between.
fillBlock(b) ==
  /\ at[b] = "fill"
  /\ txs' = [txs EXCEPT ![b] = pendingCopy(validatorOf(b))]
  /\ clearPending(validatorOf(b))
  /\ blockHeight' = [blockHeight EXCEPT ![b] = nextHeight(validatorOf(b))]
  /\ at' = [at EXCEPT ![b] = "addBlock"]
  /\ UNCHANGED <<currentRound, references, dagState, roundBlocks, tracking, network, life,
                 submitted>>

addOwnBlock(b) ==
  /\ at[b] = "addBlock"
  /\ AddBlock(validatorOf(b), b)
  /\ at' = [at EXCEPT ![b] = "track"]
  /\ UNCHANGED <<currentRound, references, txs, blockHeight, roundBlocks, pendingTxs,
                 tracking, network, life, submitted>>

\* oldRound < round-3, in unsigned arithmetic.
tooOld(oldRound, round) == oldRound < (round - 3) % RoundLimit

trackOwnBlock(b) ==
  LET n == validatorOf(b)
  IN  /\ at[b] = "track"
      /\ roundBlocks' = [roundBlocks EXCEPT ![n] = [r \in RoundNo |->
           IF tooOld(r, roundOf(b)) THEN {}
           ELSE IF r = roundOf(b) THEN @[r] \cup {b} ELSE @[r]]]
      /\ at' = [at EXCEPT ![b] = "broadcast"]
      /\ UNCHANGED <<currentRound, references, txs, blockHeight, dagState, pendingTxs,
                     tracking, network, life, submitted>>

\* Mutant of sendTo: a block is written twice.
sendTwice(n, d, queue, b) ==
  IF conn[n][d] = "up" THEN queue \o <<b, b>> ELSE queue

\* Mutant of sendTo: only connections that were never made are written to.
sendToUnconnected(n, d, queue, b) ==
  IF conn[n][d] = "none" THEN Append(queue, b) ELSE queue

\* A write to a connection that is not up, or not there, is lost.
sendTo(n, d, queue, b) == IF conn[n][d] = "up" THEN Append(queue, b) ELSE queue

broadcastBlock(b) ==
  LET n == validatorOf(b)
  IN  /\ at[b] = "broadcast"
      /\ chan' = [p \in Node \X Node |->
                    IF p[1] = n THEN sendTo(n, p[2], chan[p], b) ELSE chan[p]]
      /\ at' = [at EXCEPT ![b] = "done"]
      /\ UNCHANGED <<currentRound, references, txs, blockHeight, dagState, roundBlocks,
                     pendingTxs, tracking, conn, breaks, life, submitted>>

-----------------------------------------------------------------------------
(* Receiving blocks and transactions *)

\* handleConnection decodes a block and handleReceivedBlock adds it, unless it
\* is in the DAG.  No two connections carry the same block, so that nothing
\* comes between the check and AddBlock that matters to the check.
handleReceivedBlock(n, s) ==
  /\ chan[<<s, n>>] # <<>> /\ tracking[<<s, n>>] = None
  /\ chan' = [chan EXCEPT ![<<s, n>>] = Tail(@)]
  /\ LET b == Head(chan[<<s, n>>])
     IN  IF b \in dag[n] THEN UNCHANGED <<dagState, tracking>>
         ELSE /\ AddBlock(n, b)
              /\ tracking' = [tracking EXCEPT ![<<s, n>>] = b]
  /\ UNCHANGED <<currentRound, creation, roundBlocks, pendingTxs, conn, breaks, life,
                 submitted>>

\* The end of handleReceivedBlock, under ds.mu: no round is cleaned up.
trackReceivedBlock(n, s) ==
  LET b == tracking[<<s, n>>]
  IN  /\ b # None
      /\ roundBlocks' = [roundBlocks EXCEPT ![n][roundOf(b)] = @ \cup {b}]
      /\ tracking' = [tracking EXCEPT ![<<s, n>>] = None]
      /\ UNCHANGED <<currentRound, creation, dagState, pendingTxs, network, life, submitted>>

\* A transaction of the EVM side is handed over.
AddPendingTransaction(n, tx) ==
  /\ \A s \in submitted : s[1] # tx
  /\ pendingTxs' = [pendingTxs EXCEPT ![n] = @ \cup {tx}]
  /\ submitted' = submitted \cup {<<tx, n, life[n]>>}
  /\ UNCHANGED <<currentRound, creation, dagState, roundBlocks, tracking, network, life>>

-----------------------------------------------------------------------------
(* Connections and failures *)

\* connectToPeer succeeds; the loop of connectToPeers then ends for good.
connectToPeer(n, d) ==
  /\ d \in peers[n] /\ conn[n][d] = "none"
  /\ conn' = [conn EXCEPT ![n][d] = "up"]
  /\ UNCHANGED <<currentRound, creation, dagState, roundBlocks, pendingTxs, tracking, chan,
                 breaks, life, submitted>>

\* A connection fails; a suffix of what was sent is lost.
breakConnection(s, d) ==
  /\ breaks < MaxBreaks /\ conn[s][d] = "up"
  /\ breaks' = breaks + 1
  /\ conn' = [conn EXCEPT ![s][d] = "broken"]
  /\ \E k \in 0..Len(chan[<<s, d>>]) :
       chan' = [chan EXCEPT ![<<s, d>>] = SubSeq(@, 1, k)]
  /\ UNCHANGED <<currentRound, creation, dagState, roundBlocks, pendingTxs, tracking, life,
                 submitted>>

\* A process stops and is started again: nothing was persisted.  It dials its
\* peers anew; what they had dialled is broken.  What it sent still arrives.
restart(n) ==
  /\ \A m \in Node : life[m] < MaxRestarts
  /\ life' = [life EXCEPT ![n] = @ + 1]
  /\ currentRound' = [currentRound EXCEPT ![n] = 0]
  /\ at' = [b \in BlockId |-> IF b \in creating(n) THEN "killed" ELSE at[b]]
  /\ dag' = [dag EXCEPT ![n] = {}]
  /\ dagHeight' = [dagHeight EXCEPT ![n] = 0]
  /\ referrers' = [referrers EXCEPT ![n] = {}]
  /\ added' = [added EXCEPT ![n] = {}]
  /\ roundBlocks' = [roundBlocks EXCEPT ![n] = [r \in RoundNo |-> {}]]
  /\ pendingTxs' = [pendingTxs EXCEPT ![n] = {}]
  /\ tracking' = [p \in Node \X Node |-> IF p[2] = n THEN None ELSE tracking[p]]
  /\ conn' = [s \in Node |-> [d \in Node |->
                IF s = n THEN "none"
                ELSE IF d = n /\ conn[s][d] = "up" THEN "broken" ELSE conn[s][d]]]
  /\ chan' = [p \in Node \X Node |-> IF p[2] = n THEN <<>> ELSE chan[p]]
  /\ UNCHANGED <<references, txs, blockHeight, submitted, breaks>>

createRoundBlock(b) ==
  \/ readRoundBlocks(b) \/ readDagBlocks(b) \/ fillBlock(b)
  \/ addOwnBlock(b) \/ trackOwnBlock(b) \/ broadcastBlock(b)

Next ==
  \/ \E n \in Node : advanceRound(n) \/ restart(n)
  \/ \E b \in BlockId : createRoundBlock(b)
  \/ \E n, s \in Node :
       \/ handleReceivedBlock(n, s) \/ trackReceivedBlock(n, s)
       \/ connectToPeer(n, s) \/ breakConnection(n, s)
  \/ \E n \in Node, tx \in Tx : AddPendingTransaction(n, tx)

Spec == Init /\ [][Next]_vars

\* The ticker fires, the Go scheduler runs every goroutine, TCP delivers, and
\* the dial loop retries until it succeeds.
Fairness ==
  /\ \A n \in Node : WF_vars(advanceRound(n))
  /\ \A b \in BlockId : WF_vars(createRoundBlock(b))
  /\ \A n \in Node : \A p \in peers[n] :
       /\ WF_vars(connectToPeer(n, p))
       /\ WF_vars(handleReceivedBlock(p, n) \/ trackReceivedBlock(p, n))

FairSpec == Spec /\ Fairness

-----------------------------------------------------------------------------
(* Properties *)

\* Every variable holds values of the type its Go declaration gives it.
TypeOK ==
  /\ currentRound \in [Node -> 0..MaxRound]
  /\ at \in [BlockId -> Section]
  /\ references \in [BlockId -> SUBSET BlockId]
  /\ txs \in [BlockId -> SUBSET Tx]
  /\ blockHeight \in [BlockId -> Nat]
  /\ dag \in [Node -> SUBSET BlockId]
  /\ dagHeight \in [Node -> Nat]
  /\ referrers \in [Node -> SUBSET (BlockId \X BlockId)]
  /\ roundBlocks \in [Node -> [RoundNo -> SUBSET BlockId]]
  /\ pendingTxs \in [Node -> SUBSET Tx]
  /\ tracking \in [Node \X Node -> BlockId \cup {None}]
  /\ conn \in [Node -> [Node -> {"none", "up", "broken"}]]
  /\ chan \in [Node \X Node -> Seq(BlockId)]
  /\ life \in [Node -> 0..MaxRestarts]
  /\ added \in [Node -> SUBSET BlockId]
  /\ submitted \in SUBSET (Tx \X Node \X (0..MaxRestarts))
  /\ breaks \in 0..MaxBreaks

\* generateTransactions: a transaction is never in two blocks, nor in a block
\* and still pending, however the creations of blocks overlap.
IncludedOnce ==
  /\ \A b, c \in BlockId : b # c => txs[b] \cap txs[c] = {}
  /\ \A n \in Node, b \in BlockId : pendingTxs[n] \cap txs[b] = {}

\* AddPendingTransaction and getPendingTransactions: as long as the process
\* lives, a transaction handed to it is pending or in a block of its own.
NoneLost ==
  \A s \in submitted : s[3] = life[s[2]] =>
    \/ s[1] \in pendingTxs[s[2]]
    \/ \E b \in BlockId : validatorOf(b) = s[2] /\ lifeOf(b) = s[3] /\ s[1] \in txs[b]

\* getPreviousRoundReferences: a block references only blocks of the round
\* before that its creator has in its DAG or had there.
ReferencesHeld ==
  \A b \in BlockId : lifeOf(b) = life[validatorOf(b)] =>
    \A c \in references[b] : roundOf(c) = roundOf(b) - 1 /\ c \in added[validatorOf(b)]

\* The block of the same validator and process, one round earlier.
previousOwn(b) == <<validatorOf(b), roundOf(b) - 1, lifeOf(b)>>

\* trackOwnBlock and getPreviousRoundReferences: in rounds 1 and 2 the cleanup of
\* roundBlocks deletes also the block just tracked, as round-3 wraps around.  When
\* creations do not overlap, the next block of the validator references it all
\* the same, unless the DAG has dropped it.
OwnBlockReferenced ==
  MaxOverlap = 1 =>
    \A b \in BlockId :
      /\ lifeOf(b) = life[validatorOf(b)] /\ roundOf(b) > 1
      /\ at[b] \notin {"idle", "readRounds", "readDag"}
      /\ previousOwn(b) \in dag[validatorOf(b)]
      => previousOwn(b) \in references[b]

\* AddBlock and cleanupOldBlocks: the DAG holds no more blocks than its
\* capacity, loses none before it is full, and those it holds are the highest
\* of all that were ever added, in whatever order they came.
HighestKept ==
  \A n \in Node :
    /\ dag[n] \subseteq added[n]
    /\ Cardinality(dag[n]) <= DagCapacity
    /\ dag[n] # added[n] => Cardinality(dag[n]) = DagCapacity
    /\ \A a \in added[n] \ dag[n], b \in dag[n] : blockHeight[a] <= blockHeight[b]

\* handleReceivedBlock: no block is added twice, not even after it has been
\* cleaned out of the DAG, so the height counts the blocks ever added.
HeightCountsBlocks == \A n \in Node : dagHeight[n] = Cardinality(added[n])

\* createRoundBlock to handleReceivedBlock: without failures the block of every
\* round of every validator comes to every validator it is sent to.
EveryRoundSpreads ==
  \A n \in Node, r \in RoundNo : \A m \in peers[n] \cup {n} : <>(<<n, r, 0>> \in added[m])

\* A transaction that is pending when a round is still to come is included in
\* a block that reaches the peers.
EveryTransactionSpreads ==
  \A n \in Node, tx \in Tx : \A m \in peers[n] :
    tx \in pendingTxs[n] /\ currentRound[n] < MaxRound ~>
      \E b \in added[m] : tx \in txs[b]
============================================================================
