----------------------------- MODULE EngineNode -----------------------------
(***************************************************************************)
(* The validators cmd/api runs: the consensus engine with its wave manager *)
(* and network server (internal/consensus/engine.go, wave_manager.go), the *)
(* block synchroniser (block_sync.go, sync_server.go), the block processor *)
(* with its mempool and its DAG (internal/core/block_processor.go, dag.go) *)
(* and the accounts of the state manager (internal/state/manager.go).      *)
(*                                                                         *)
(* The goroutines of a validator are the loop of the wave manager, one     *)
(* handler for each proposal received, the synchroniser, one handler for   *)
(* each sync request and the mempool workers.  Sections that hold one lock *)
(* are one action.  ce.mu is held by CreateBlock and, for reading, during  *)
(* the whole of BroadcastBlock.                                            *)
(*                                                                         *)
(* A block is named by its validator, its wave and the life (number of     *)
(* restarts) of the process that made it.  Its hash covers the signature   *)
(* in its header, which BroadcastBlock replaces after the block processor  *)
(* has filed the block: a block has two hashes.  As nothing ever sets      *)
(* LatestBlock, every block has height 0 and an empty parent hash.         *)
(***************************************************************************)
EXTENDS Integers, Sequences, FiniteSets, FiniteSetsExt, Totals

CONSTANTS
  validators,               \* config.ValidatorSet, a sequence
  Tx,                       \* transactions: records from, to, value, nonce, gasPrice
  Clients,                  \* Clients[n][t]: times t is handed to AddTransaction of n
  InitialAccounts,          \* accounts created when a validator starts
  MaxTransactionsPerBlock,  \* config.MaxTransactionsPerBlock of each validator
  maxBlocks,                \* d.maxBlocks (50 in dag.go)
  keepCount,                \* blocks a cleanup keeps (25 in dag.go)
  MaxWave,                  \* bound: waves explored
  MaxRestarts,              \* bound: restarts of each validator
  Syncing                   \* bound: validators whose synchroniser is explored

Node == Range(validators)
WaveNo == 1..MaxWave
BlockId == UNION {{n} \X WaveNo \X (0..MaxRestarts[n]) : n \in Node}
\* The signatures a header carries: of BlockProcessor.signBlock and of
\* ConsensusEngine.signBlock.
Signature == {"processor", "engine"}
Hash == BlockId \X Signature
None == <<>>

Account == [balance : Nat, nonce : Nat]

validatorOf(h) == h[1][1]
waveOf(h) == h[1][2]

ASSUME ConstantTypes ==
  /\ \A i, j \in DOMAIN validators : validators[i] = validators[j] => i = j
  /\ Len(validators) > 0
  /\ {maxBlocks, keepCount} \subseteq Nat
  /\ MaxWave \in Nat \ {0}
  /\ MaxRestarts \in [Node -> Nat]
  /\ MaxTransactionsPerBlock \in [Node -> Nat \ {0}]
  /\ IsFiniteSet(Tx)
  /\ \A t \in Tx : {t.value, t.nonce} \subseteq Nat
  /\ IsFiniteSet(DOMAIN InitialAccounts)
  /\ InitialAccounts \in [DOMAIN InitialAccounts -> Account]

VARIABLES
  life,                   \* restarts of each validator so far
  currentWave,            \* ce.currentWave.Number
  lastBlockCreationWave,  \* the variable of WaveManager.run
  task,                   \* what the loop of the wave manager is doing
  made,                   \* history: the blocks created
  references,             \* Header.References of the blocks
  transactions,           \* Body.Transactions of the blocks
  dag,                    \* keys of d.blocks
  resigned,               \* own blocks of dag whose header BroadcastBlock signed anew
  proposals,              \* keys of ce.proposals
  savedLeaderBlock,       \* ce.savedLeaderBlock
  handlers,               \* proposals being handled, with the section they are at
  workChan,               \* workChan[n][t]: copies of t in mp.workChan
  mempool,                \* mp.transactions: "absent" or State of the transaction
  accounts,               \* sm.accounts
  syncs,                  \* syncs[n][m]: blocks m sent to n that n has to file
  submitted,              \* history: transactions handed to AddTransaction in this life
  applied                 \* history: times CommitBlock applied a transaction in this life

blocks == <<made, references, transactions>>
loop == <<currentWave, lastBlockCreationWave, task>>
engine == <<proposals, savedLeaderBlock, handlers>>
pool == <<workChan, mempool, submitted>>
ledger == <<accounts, applied>>
vars == <<life, loop, blocks, dag, resigned, engine, pool, ledger, syncs>>

-----------------------------------------------------------------------------
(* The DAG *)

\* ComputeHash of the block n keeps under the key k.
hashOf(n, k) == IF k[1] \in resigned[n] /\ k[2] = "processor" THEN <<k[1], "engine">> ELSE k

GetRecentBlocks(n) == {hashOf(n, k) : k \in dag[n]}

\* All heights are equal, so the sort leaves any blocks first.  They are
\* deleted under their present hash: a block signed anew stays.
cleanupOldBlocks(n, D) ==
  {D \ {hashOf(n, k) : k \in R} : R \in kSubset(Cardinality(D) - keepCount, D)}

\* The possible contents of the DAG of n once it was given block h.
AddBlock(n, h) ==
  LET D == dag[n] \cup {h}
  IN  IF h \in dag[n] \/ Cardinality(D) <= maxBlocks THEN {D} ELSE cleanupOldBlocks(n, D)

-----------------------------------------------------------------------------
(* A validator that starts.  All of its state is in memory. *)

NewDAG == {}

NewMempool == [t \in Tx |-> "absent"]

\* The blocks of the storage are read, and none of them is put in the DAG.
NewBlockProcessor == [dag |-> NewDAG, mempool |-> NewMempool]

NewStateManager == InitialAccounts

\* No block was ever received from a synchronisation.
NewBlockSynchronizer == [m \in Node |-> {}]

\* Start takes the wave from types.NewState, which nothing changes or saves.
\* LatestBlock is nil in it, so no block is loaded here either.
startWave == 1

-----------------------------------------------------------------------------
(* Waves: WaveManager.run and the leader *)

leader(w) == validators[(w % Len(validators)) + 1]

idle == [at |-> "loop", block |-> None, todo |-> <<>>]

Init ==
  /\ life = [n \in Node |-> 0]
  /\ currentWave = [n \in Node |-> startWave]
  /\ lastBlockCreationWave = [n \in Node |-> 0]
  /\ task = [n \in Node |-> idle]
  /\ made = {}
  /\ references = [b \in BlockId |-> {}]
  /\ transactions = [b \in BlockId |-> <<>>]
  /\ dag = [n \in Node |-> NewBlockProcessor.dag]
  /\ resigned = [n \in Node |-> {}]
  /\ proposals = [n \in Node |-> {}]
  /\ savedLeaderBlock = [n \in Node |-> None]
  /\ handlers = [n \in Node |-> {}]
  /\ workChan = [n \in Node |-> [t \in Tx |-> 0]]
  /\ mempool = [n \in Node |-> NewBlockProcessor.mempool]
  /\ accounts = [n \in Node |-> NewStateManager]
  /\ syncs = [n \in Node |-> NewBlockSynchronizer]
  /\ submitted = [n \in Node |-> [t \in Tx |-> 0]]
  /\ applied = [n \in Node |-> [t \in Tx |-> 0]]

ownBlockInWave(n) == \E h \in GetRecentBlocks(n) : validatorOf(h) = n /\ waveOf(h) = currentWave[n]

\* Mutant of mayPropose: a validator proposes in every wave.
mayProposeAlways(n) == currentWave[n] > lastBlockCreationWave[n]

mayPropose(n) == leader(currentWave[n]) = n /\ currentWave[n] > lastBlockCreationWave[n]

\* The timer of the wave fired.  The loop is at the select again, so nothing
\* is being created or sent.
ProcessTimeout(n) ==
  /\ task[n].at = "loop"
  /\ currentWave[n] < MaxWave
  /\ currentWave' = [currentWave EXCEPT ![n] = @ + 1]
  /\ UNCHANGED <<life, lastBlockCreationWave, task, blocks, dag, resigned, engine, pool,
                 ledger, syncs>>

\* CreateBlock of the engine up to the call of the block processor.
checkWave(n) ==
  /\ task[n].at = "loop"
  /\ mayPropose(n)
  /\ \/ /\ ownBlockInWave(n)
        /\ lastBlockCreationWave' = [lastBlockCreationWave EXCEPT ![n] = currentWave[n]]
        /\ UNCHANGED task
     \/ /\ ~ownBlockInWave(n)
        /\ task' = [task EXCEPT ![n].at = "creating"]
        /\ UNCHANGED lastBlockCreationWave
  /\ UNCHANGED <<life, currentWave, blocks, dag, resigned, engine, pool, ledger, syncs>>

-----------------------------------------------------------------------------
(* The mempool and the block processor *)

pendingTxs(n) == {t \in Tx : mempool[n][t] = "pending"}

\* The orders in which an iteration over a map may list the members of S.
listings(S) == Injection(1..Cardinality(S), S)

\* The dearest of the pending transactions, the dearest first.
GetTopTransactions(n) ==
  LET dearest == {S \in kSubset(MaxTransactionsPerBlock[n], pendingTxs(n)) :
                    \A s \in S, t \in pendingTxs(n) \ S : t.gasPrice <= s.gasPrice}
  IN  {q \in UNION {listings(S) : S \in dearest} :
         \A i, j \in DOMAIN q : i < j => q[i].gasPrice >= q[j].gasPrice}

\* The transactions a block may get: all the pending ones in the order of an
\* iteration over the mempool, or the top ones.
selectedTxs(n) ==
  IF Cardinality(pendingTxs(n)) <= MaxTransactionsPerBlock[n] THEN listings(pendingTxs(n))
  ELSE GetTopTransactions(n)

marked(n, q, state) == [t \in Tx |-> IF t \in Range(q) THEN state ELSE mempool[n][t]]

RemoveTransactions(n, q) == marked(n, q, "absent")

\* The blocks of the wave before, under the hashes they have now.
previousWave(n) == {h \in GetRecentBlocks(n) : waveOf(h) = currentWave[n] - 1}

\* Mutant of createBlockFails: the transactions are removed before the block
\* is saved.
createBlockFailsRemoving(n) ==
  /\ task[n].at = "creating"
  /\ \E q \in selectedTxs(n) : mempool' = [mempool EXCEPT ![n] = RemoveTransactions(n, q)]
  /\ task' = [task EXCEPT ![n] = idle]
  /\ UNCHANGED <<life, currentWave, lastBlockCreationWave, blocks, dag, resigned, engine,
                 workChan, submitted, ledger, syncs>>

\* CreateBlock of the block processor returns an error: a block of this
\* validator for the wave has been filed meanwhile, or SaveBlock failed.  The
\* transactions keep the state Included.
createBlockFails(n) ==
  /\ task[n].at = "creating"
  /\ \E q \in selectedTxs(n) : mempool' = [mempool EXCEPT ![n] = marked(n, q, "included")]
  /\ task' = [task EXCEPT ![n] = idle]
  /\ UNCHANGED <<life, currentWave, lastBlockCreationWave, blocks, dag, resigned, engine,
                 workChan, submitted, ledger, syncs>>

CreateBlock(n) ==
  /\ task[n].at = "creating"
  /\ ~ownBlockInWave(n)
  /\ LET b == <<n, currentWave[n], life[n]>>
     IN  /\ made' = made \cup {b}
         /\ references' = [references EXCEPT ![b] = previousWave(n)]
         /\ \E q \in selectedTxs(n) :
              /\ transactions' = [transactions EXCEPT ![b] = q]
              /\ mempool' = [mempool EXCEPT ![n] = RemoveTransactions(n, q)]
         /\ \E D \in AddBlock(n, <<b, "processor">>) : dag' = [dag EXCEPT ![n] = D]
         /\ task' = [task EXCEPT ![n] = [idle EXCEPT !.at = "created", !.block = b]]
  /\ UNCHANGED <<life, currentWave, lastBlockCreationWave, resigned, engine, workChan,
                 submitted, ledger, syncs>>

\* A client of the block processor; no program of the repository has one.
AddTransaction(n, t) ==
  /\ submitted[n][t] < Clients[n][t]
  /\ submitted' = [submitted EXCEPT ![n][t] = @ + 1]
  /\ workChan' = [workChan EXCEPT ![n][t] = @ + 1]
  /\ UNCHANGED <<life, loop, blocks, dag, resigned, engine, mempool, ledger, syncs>>

\* Mutant of worker: it does not wait for a transaction.
workerUnblocked(n, t) ==
  /\ workChan[n][t] >= 0
  /\ workChan' = [workChan EXCEPT ![n][t] = @ - 1]
  /\ mempool' = [mempool EXCEPT ![n][t] = "pending"]
  /\ UNCHANGED <<life, loop, blocks, dag, resigned, engine, submitted, ledger, syncs>>

\* A copy that arrives replaces the one in the mempool, whatever its state.
worker(n, t) ==
  /\ workChan[n][t] > 0
  /\ workChan' = [workChan EXCEPT ![n][t] = @ - 1]
  /\ mempool' = [mempool EXCEPT ![n][t] = "pending"]
  /\ UNCHANGED <<life, loop, blocks, dag, resigned, engine, submitted, ledger, syncs>>

-----------------------------------------------------------------------------
(* Sending a proposal: BroadcastBlock *)

BroadcastBlock(n) ==
  LET b == task[n].block
  IN  /\ task[n].at = "created"
      /\ resigned' = [resigned EXCEPT ![n] = IF <<b, "processor">> \in dag[n] THEN @ \cup {b} ELSE @]
      /\ proposals' = [proposals EXCEPT ![n] = @ \cup {<<b, "engine">>}]
      /\ task' = [task EXCEPT ![n].at = "sending",
                              ![n].todo = SelectSeq(validators, LAMBDA m : m # n)]
      /\ UNCHANGED <<life, currentWave, lastBlockCreationWave, blocks, dag, savedLeaderBlock,
                     handlers, pool, ledger, syncs>>

\* The proposal is written to the next validator, or the connection fails.
sendProposal(n) ==
  /\ task[n].at = "sending"
  /\ task[n].todo # <<>>
  /\ \/ /\ handlers' = [handlers EXCEPT ![Head(task[n].todo)] =
             @ \cup {[hash |-> <<task[n].block, "engine">>, at |-> "received"]}]
        /\ task' = [task EXCEPT ![n].at = "waiting"]
     \/ /\ task' = [task EXCEPT ![n].todo = Tail(@)]
        /\ UNCHANGED handlers
  /\ UNCHANGED <<life, currentWave, lastBlockCreationWave, blocks, dag, resigned, proposals,
                 savedLeaderBlock, pool, ledger, syncs>>

beingHandled(n) ==
  \E p \in handlers[Head(task[n].todo)] : p.hash = <<task[n].block, "engine">>

toNextValidator(n) ==
  /\ task[n].at = "waiting"
  /\ task' = [task EXCEPT ![n].at = "sending", ![n].todo = Tail(@)]
  /\ UNCHANGED <<life, currentWave, lastBlockCreationWave, blocks, dag, resigned, engine,
                 pool, ledger, syncs>>

\* The receiver acknowledged the proposal or closed the connection.
readReply(n) == task[n].at = "waiting" /\ ~beingHandled(n) /\ toNextValidator(n)

\* Mutant of readDeadline: no deadline is set for the acknowledgment.
noDeadline(n) == FALSE

\* The acknowledgment did not arrive within three seconds.
readDeadline(n) == task[n].at = "waiting" /\ beingHandled(n) /\ toNextValidator(n)

broadcastComplete(n) ==
  /\ task[n].at = "sending"
  /\ task[n].todo = <<>>
  /\ task' = [task EXCEPT ![n] = idle]
  /\ lastBlockCreationWave' = [lastBlockCreationWave EXCEPT ![n] = currentWave[n]]
  /\ UNCHANGED <<life, currentWave, blocks, dag, resigned, engine, pool, ledger, syncs>>

-----------------------------------------------------------------------------
(* Receiving a proposal: NetworkServer.handleConnection, HandleProposal *)

moved(n, p, section) == [handlers EXCEPT ![n] = (@ \ {p}) \cup {[p EXCEPT !.at = section]}]

\* The check for a duplicate waits for CreateBlock to release ce.mu.  The
\* block enters the DAG before its references are looked at.
verifyProposal(n, p) ==
  /\ p \in handlers[n] /\ p.at = "received"
  /\ task[n].at # "creating"
  /\ p.hash \notin proposals[n]
  /\ \E D \in AddBlock(n, p.hash) : dag' = [dag EXCEPT ![n] = D]
  /\ handlers' = moved(n, p, "verified")
  /\ UNCHANGED <<life, loop, blocks, resigned, proposals, savedLeaderBlock, pool, ledger, syncs>>

\* Needs ce.mu for writing, which CreateBlock or BroadcastBlock may hold.
storeProposal(n, p) ==
  /\ p \in handlers[n] /\ p.at = "verified"
  /\ task[n].at \in {"loop", "created"}
  /\ savedLeaderBlock' = [savedLeaderBlock EXCEPT
       ![n] = IF validatorOf(p.hash) = leader(currentWave[n]) THEN p.hash ELSE @]
  /\ proposals' = [proposals EXCEPT ![n] = @ \cup {p.hash}]
  /\ handlers' = moved(n, p, "stored")
  /\ UNCHANGED <<life, loop, blocks, dag, resigned, pool, ledger, syncs>>

\* Every block has a signature that names a validator, and no parent hash: what
\* can be missing is a reference.
verifyBlock(n, h) == references[h[1]] \subseteq dag[n]

balances(acc) == [a \in DOMAIN acc |-> acc[a].balance]

credited(acc, a, v) ==
  IF a \in DOMAIN acc THEN [acc EXCEPT ![a] = [balance |-> @.balance + v, nonce |-> @.nonce]]
  ELSE [x \in DOMAIN acc \cup {a} |-> IF x = a THEN [balance |-> v, nonce |-> 0] ELSE acc[x]]

\* Mutant of executable: the nonce is not checked.
executableAnyNonce(acc, t) == t.from \in DOMAIN acc /\ acc[t.from].balance >= t.value

executable(acc, t) ==
  /\ t.from \in DOMAIN acc
  /\ acc[t.from].balance >= t.value
  /\ acc[t.from].nonce = t.nonce

\* Mutant of execute: the balances are read before either is written.
executeStale(acc, t) ==
  LET paid == [acc EXCEPT ![t.from] = [balance |-> @.balance - t.value, nonce |-> @.nonce + 1]]
  IN  IF t.to \in DOMAIN acc THEN [paid EXCEPT ![t.to].balance = acc[t.to].balance + t.value]
      ELSE credited(paid, t.to, t.value)

execute(acc, t) ==
  LET paid == [acc EXCEPT ![t.from] = [balance |-> @.balance - t.value, nonce |-> @.nonce + 1]]
  IN  credited(paid, t.to, t.value)

\* One turn of the loop of CommitBlock, which stops at the first transaction
\* it cannot apply.
commitNext(s, t) ==
  IF s.failed \/ ~executable(s.acc, t) THEN [failed |-> TRUE, acc |-> s.acc, done |-> s.done]
  ELSE [failed |-> FALSE, acc |-> execute(s.acc, t), done |-> s.done \cup {t}]

\* What was applied before stays.
CommitBlock(acc, q) ==
  MapThenFoldSet(LAMBDA t, s : commitNext(s, t), [failed |-> FALSE, acc |-> acc, done |-> {}],
                 LAMBDA i : q[i], Max, DOMAIN q)

\* The transactions of a block go back to the mempool: through workChan, or by
\* the state of the copy that is there.
backToMempool(n, q) ==
  /\ workChan' = [workChan EXCEPT ![n] = [t \in Tx |->
       IF t \in Range(q) /\ mempool[n][t] = "absent" THEN @[t] + 1 ELSE @[t]]]
  /\ mempool' = [mempool EXCEPT ![n] = [t \in Tx |->
       IF t \in Range(q) /\ @[t] # "absent" THEN "pending" ELSE @[t]]]

\* processBlock, and the end of the connection in either case.
processBlock(n, p) ==
  LET q == transactions[p.hash[1]]
      commit == CommitBlock(accounts[n], q)
  IN  /\ p \in handlers[n] /\ p.at = "stored"
      /\ handlers' = [handlers EXCEPT ![n] = @ \ {p}]
      /\ \/ /\ ~verifyBlock(n, p.hash)
            /\ UNCHANGED <<dag, workChan, mempool, accounts, applied>>
         \/ /\ verifyBlock(n, p.hash)
            /\ \E D \in AddBlock(n, p.hash) : dag' = [dag EXCEPT ![n] = D]
            /\ backToMempool(n, q)
            /\ accounts' = [accounts EXCEPT ![n] = commit.acc]
            /\ applied' = [applied EXCEPT ![n] = [t \in Tx |->
                 IF t \in commit.done THEN @[t] + 1 ELSE @[t]]]
      /\ UNCHANGED <<life, loop, blocks, resigned, proposals, savedLeaderBlock, submitted, syncs>>

-----------------------------------------------------------------------------
(* The block synchroniser *)

\* Mutant of missingBlocks: the known blocks are sent.
knownBlocks(n, m) == GetRecentBlocks(m) \cap GetRecentBlocks(n)

missingBlocks(n, m) == GetRecentBlocks(m) \ GetRecentBlocks(n)

\* n sends the hashes of its blocks to m, and HandleSyncRequest of m answers
\* with the others.  The hashes were read a little earlier, which is not seen:
\* AddBlock skips the blocks that n got in between.
syncWithValidator(n, m) ==
  /\ n \in Syncing
  /\ syncs[n][m] = {}
  /\ task[n].at # "creating"
  /\ syncs' = [syncs EXCEPT ![n][m] = missingBlocks(n, m)]
  /\ UNCHANGED <<life, loop, blocks, dag, resigned, engine, pool, ledger>>

\* The blocks of the answer are filed one by one.
syncBlock(n, m, h) ==
  /\ h \in syncs[n][m]
  /\ \E D \in AddBlock(n, h) : dag' = [dag EXCEPT ![n] = D]
  /\ syncs' = [syncs EXCEPT ![n][m] = @ \ {h}]
  /\ UNCHANGED <<life, loop, blocks, resigned, engine, pool, ledger>>

-----------------------------------------------------------------------------
(* A restart: all state is in memory, and Start begins at wave 1 *)

restart(n) ==
  /\ life[n] < MaxRestarts[n]
  /\ life' = [life EXCEPT ![n] = @ + 1]
  /\ currentWave' = [currentWave EXCEPT ![n] = startWave]
  /\ lastBlockCreationWave' = [lastBlockCreationWave EXCEPT ![n] = 0]
  /\ task' = [task EXCEPT ![n] = idle]
  /\ dag' = [dag EXCEPT ![n] = NewBlockProcessor.dag]
  /\ resigned' = [resigned EXCEPT ![n] = {}]
  /\ proposals' = [proposals EXCEPT ![n] = {}]
  /\ savedLeaderBlock' = [savedLeaderBlock EXCEPT ![n] = None]
  /\ handlers' = [handlers EXCEPT ![n] = {}]
  /\ workChan' = [workChan EXCEPT ![n] = [t \in Tx |-> 0]]
  /\ mempool' = [mempool EXCEPT ![n] = NewBlockProcessor.mempool]
  /\ accounts' = [accounts EXCEPT ![n] = NewStateManager]
  /\ syncs' = [syncs EXCEPT ![n] = NewBlockSynchronizer]
  /\ submitted' = [submitted EXCEPT ![n] = [t \in Tx |-> 0]]
  /\ applied' = [applied EXCEPT ![n] = [t \in Tx |-> 0]]
  /\ UNCHANGED blocks

handlerStep(n) ==
  \E p \in handlers[n] : verifyProposal(n, p) \/ storeProposal(n, p) \/ processBlock(n, p)

handleWaveProposing(n) ==
  \/ checkWave(n) \/ createBlockFails(n) \/ CreateBlock(n) \/ BroadcastBlock(n)
  \/ sendProposal(n) \/ readReply(n) \/ readDeadline(n) \/ broadcastComplete(n)

Next ==
  \E n \in Node :
    \/ ProcessTimeout(n)
    \/ handleWaveProposing(n)
    \/ restart(n)
    \/ \E t \in Tx : AddTransaction(n, t) \/ worker(n, t)
    \/ handlerStep(n)
    \/ \E m \in Node : syncWithValidator(n, m) \/ \E h \in syncs[n][m] : syncBlock(n, m, h)

Spec == Init /\ [][Next]_vars

\* The loop of the wave manager goes on, the timer is looked at before every
\* other turn of it, the handlers and the synchroniser run, and a connection
\* that is tried again and again is established at last.
Fairness ==
  /\ \A n \in Node : SF_vars(ProcessTimeout(n)) /\ WF_vars(handleWaveProposing(n)) /\ WF_vars(handlerStep(n))
  /\ \A n \in Syncing : \A m \in Node \ {n} :
       /\ SF_vars(syncWithValidator(n, m))
       /\ WF_vars(\E h \in Hash : syncBlock(n, m, h))
FairSpec == Spec /\ Fairness

-----------------------------------------------------------------------------
(* Properties *)

\* The types of the variables.
TypeOK ==
  /\ \A n \in Node : life[n] \in 0..MaxRestarts[n]
  /\ currentWave \in [Node -> WaveNo]
  /\ lastBlockCreationWave \in [Node -> 0..MaxWave]
  /\ made \subseteq BlockId
  /\ references \in [BlockId -> SUBSET Hash]
  /\ dag \in [Node -> SUBSET Hash]
  /\ resigned \in [Node -> SUBSET made]
  /\ proposals \in [Node -> SUBSET Hash]
  /\ savedLeaderBlock \in [Node -> Hash \cup {None}]
  /\ mempool \in [Node -> [Tx -> {"absent", "pending", "included"}]]
  /\ workChan \in [Node -> [Tx -> Nat]]
  /\ \A n \in Node : \A p \in handlers[n] : p.hash \in Hash /\ p.at \in {"received", "verified", "stored"}

\* No validator creates or loses money: CommitBlock keeps the total balance
\* of the accounts, also when it gives up in the middle of a block.
BalanceConserved ==
  \A n \in Node : total(balances(accounts[n])) = total(balances(InitialAccounts))

appliedTxs(n) == {t \in Tx : applied[n][t] > 0}

initialAccount(a) ==
  IF a \in DOMAIN InitialAccounts THEN InitialAccounts[a] ELSE [balance |-> 0, nonce |-> 0]

\* What transaction t adds to the balance of account a.
change(a, t) == (IF t.to = a THEN t.value ELSE 0) - (IF t.from = a THEN t.value ELSE 0)

balanceAfter(a, S) == initialAccount(a).balance + total([t \in S |-> change(a, t)])

nonceAfter(a, S) == initialAccount(a).nonce + Cardinality({t \in S : t.from = a})

\* The accounts once the transactions of S were applied, in whatever order.
ledgerAfter(S) ==
  [a \in DOMAIN InitialAccounts \cup {t.to : t \in S} |->
     [balance |-> balanceAfter(a, S), nonce |-> nonceAfter(a, S)]]

\* CommitBlock: the accounts of a validator are determined by the set of the
\* transactions it has applied, whatever blocks brought them in whatever order
\* and with whatever repetitions, and wherever CommitBlock gave up.
AccountsFollowApplied == \A n \in Node : accounts[n] = ledgerAfter(appliedTxs(n))

\* A transaction is applied to the accounts of a validator at most once, though
\* processBlock returns it to the mempool and other blocks contain it again.
AppliedOnce == \A n \in Node : \A t \in Tx : applied[n][t] <= 1

noncesOf(S, a) == {t.nonce : t \in {u \in S : u.from = a}}

\* CommitBlock: a validator applies the transactions of each sender once each
\* and in the order of their nonces, none skipped and of two with one nonce only
\* one, though blocks bring them in any order, again and in several copies.
AppliedInTurn ==
  /\ AppliedOnce
  /\ \A n \in Node : \A a \in DOMAIN accounts[n] :
       noncesOf(appliedTxs(n), a) = initialAccount(a).nonce..(accounts[n][a].nonce - 1)
  /\ \A n \in Node : \A t, u \in appliedTxs(n) : t.from = u.from /\ t.nonce = u.nonce => t = u

\* A transaction handed to AddTransaction stays in workChan or in the mempool
\* until a block of the validator contains it, also when CreateBlock fails.
NoTransactionLost ==
  \A n \in Node : \A t \in Tx :
    submitted[n][t] > 0 =>
      \/ workChan[n][t] > 0
      \/ mempool[n][t] # "absent"
      \/ \E b \in made : b[1] = n /\ b[3] = life[n] /\ t \in Range(transactions[b])

\* Every block in a DAG, and the saved leader block, is from the leader of the
\* block's wave: run creates blocks for waves this validator leads only.
BlocksFromLeaders ==
  \A n \in Node :
    /\ \A h \in dag[n] : validatorOf(h) = leader(waveOf(h))
    /\ savedLeaderBlock[n] # None =>
         validatorOf(savedLeaderBlock[n]) = leader(waveOf(savedLeaderBlock[n]))

\* Every wave of a validator ends: two leaders that send to each other each hold
\* ce.mu while the handler at the other waits for it, and do not wait forever.
EveryWaveEnds ==
  \A n \in Node : \A w \in 1..(MaxWave - 1) : currentWave[n] = w ~> currentWave[n] # w

\* A block that was created gets into the DAG of every validator, unless its
\* creator restarts: what a broadcast does not deliver, a synchronisation does.
EveryBlockSpreads ==
  \A b \in BlockId : \A n \in Syncing :
    b \in made ~> life[b[1]] # b[3] \/ \E s \in Signature : <<b, s>> \in dag[n]
=============================================================================
