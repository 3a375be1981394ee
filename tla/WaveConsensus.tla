--------------------------- MODULE WaveConsensus ---------------------------
(***************************************************************************)
(* The wave consensus service, internal/consensus/wave_consensus.go.       *)
(*                                                                         *)
(* Every validator runs a wave ticker.  The leader of a wave picks one     *)
(* block of its DAG, votes for it and sends it to its peers; a validator   *)
(* that receives a block from the leader of its wave votes for it; a wave  *)
(* is finalized at a validator that counts votes of a simple majority.     *)
(*                                                                         *)
(* Each method that runs as a goroutine of its own, or handles one         *)
(* message, is one action.  Goroutines that have been started and have not *)
(* run yet are state: processing, broadcasting, checking, cleaning.        *)
(*                                                                         *)
(* A block is a value whose header fields are the constants Round and      *)
(* Height; the only header field that changes is Wave.  A hash is the pair *)
(* <<block, value of Header.Wave when hashed>>, so that it is injective    *)
(* and changes with the header, as ComputeHash does.                       *)
(***************************************************************************)
EXTENDS Integers, Sequences, FiniteSets

CONSTANTS
  Address,             \* validator addresses
  Node,                \* the addresses of the validators that run
  validators,          \* validators[n]: the list of addresses n was given
  peers,               \* peers[n]: the validators n dials
  Block,               \* blocks that DAG sync may put in a DAG
  MockBlock,           \* blocks made up by the remote reader when it fails
  Round,               \* Header.Round of each block
  Height,              \* Header.Height of each block, by which GetRecentBlocks sorts
  InProcess,           \* TRUE: the reader is DAGSync in the same process;
                       \* FALSE: it is RemoteDAGSync of cmd/wave
  DagCapacity,         \* blocks a DAG keeps (5 in dag.go)
  InitialDag,          \* InitialDag[n]: n's DAG when the waves start
  InitiallyConnected,  \* TRUE: all connections are up when the waves start
  maxWaves, minWavesKept,             \* 10 and 10 in the code
  maxConfirmedBlocks, minConfirmedKept, \* 100 and 100 in the code
  MaxWave,             \* bound: waves explored
  MaxBreaks,           \* bound: connections that fail
  MaxRestarts          \* bound: restarts of a validator

Wave == 1..MaxWave
AnyBlock == Block \cup MockBlock
Hash == AnyBlock \X (0..MaxWave)
Vote == [wave : Wave, hash : Hash, voter : Node]
None == "none"

ASSUME ConstantTypes ==
  /\ Node \subseteq Address /\ IsFiniteSet(Node)
  /\ validators \in [Node -> Seq(Address)]
  /\ peers \in [Node -> SUBSET Node]
  /\ \A n \in Node : n \notin peers[n]
  /\ None \notin AnyBlock
  /\ Block \cap MockBlock = {} /\ IsFiniteSet(Block)
  /\ Round \in [AnyBlock -> Nat]
  /\ Height \in [Block -> Nat]
  /\ InProcess \in BOOLEAN /\ InitiallyConnected \in BOOLEAN
  /\ InProcess => MockBlock = {}
  /\ InitialDag \in [Node -> SUBSET Block]
  /\ {DagCapacity, maxWaves, minWavesKept, maxConfirmedBlocks, minConfirmedKept,
      MaxWave, MaxBreaks, MaxRestarts} \subseteq Nat

VARIABLES
  currentWave,     \* wc.currentWave
  finalizedWaves,  \* waves marked in wc.finalizedWaves
  waveBlocks,      \* wc.waveBlocks: the block a leader selected for a wave
  waveVotes,       \* wc.waveVotes: the votes stored, own and received
  confirmedBlocks, \* hashes in wc.confirmedBlocks
  processing,      \* waves with a started goroutine processWave
  broadcasting,    \* <<wave, block>>: processWave voted, has to send the block
  checking,        \* waves with a started goroutine checkWaveFinalization
  cleaning,        \* a goroutine cleanupOldWaves is started
  dag,             \* blocks in the DAG the reader reads
  headerWave,      \* Header.Wave of the blocks in that DAG
  refs,            \* Header.References (hashes) of the blocks created so far
  conn,            \* wc.connections: "none", "up" or "broken"
  chan,            \* chan[<<s, d>>]: messages from s to d on their connection
  cast,            \* history: every vote a validator ever made
  breaks, restarts \* bounds: failures so far

local == <<currentWave, finalizedWaves, waveBlocks, waveVotes, confirmedBlocks>>
goroutines == <<processing, broadcasting, checking, cleaning>>
dagState == <<dag, headerWave, refs>>
bounds == <<breaks, restarts>>
vars == <<local, goroutines, dagState, conn, chan, cast, bounds>>

-----------------------------------------------------------------------------
(* Leaders, hashes, votes *)

getWaveLeader(n, wave) ==
  IF validators[n] = <<>> THEN n
  ELSE validators[n][(wave % Len(validators[n])) + 1]

\* Mutant of isWaveLeader: every validator takes itself for the leader.
isWaveLeaderByDefault(n, wave) == TRUE

isWaveLeader(n, wave) == getWaveLeader(n, wave) = n

isValidWaveLeader(n, validator, wave) == getWaveLeader(n, wave) = validator

validVoter(n, voter) == \E i \in DOMAIN validators[n] : validators[n][i] = voter

ComputeHash(block, wave) == <<block, wave>>

\* Mutant of voteHash: the header has moved to the next wave when hashed.
voteHashOfNextWave(block, wave) == ComputeHash(block, wave + 1)

\* The hash of the block selected for a wave: OriginalHash (the hash in the
\* DAG, where Wave is 0) for a block read from DAG sync's HTTP API, else
\* ComputeHash of the header, in which the leader has set Wave.
voteHash(block, wave) ==
  IF InProcess \/ block \in MockBlock THEN ComputeHash(block, wave)
                                      ELSE ComputeHash(block, 0)

\* The hash under which the reader hands out a block of the DAG.
dagHash(n, block) == ComputeHash(block, headerWave[n][block])

\* The header of a block kept in waveBlocks: in process it is the DAG's own
\* block, whose Wave may have been set again since.
storedWave(n, wave) ==
  IF InProcess THEN headerWave[n][waveBlocks[n][wave]] ELSE wave

storedHash(n, wave) == voteHash(waveBlocks[n][wave], storedWave(n, wave))

ledWaves(n) == {w \in Wave : waveBlocks[n][w] # None}

requiredVotes(n) == (Len(validators[n]) \div 2) + 1

votersFor(n, wave, hash) ==
  {v \in Node : [wave |-> wave, hash |-> hash, voter |-> v] \in waveVotes[n]}

\* Mutant of hasQuorum: half of the validators are enough.
hasHalf(n, wave, hash) == Cardinality(votersFor(n, wave, hash)) >= Len(validators[n]) \div 2

hasQuorum(n, wave, hash) == Cardinality(votersFor(n, wave, hash)) >= requiredVotes(n)

\* Some block has enough votes for the wave to be finalized.
canFinalize(n, wave) == \E v \in waveVotes[n] : v.wave = wave /\ hasQuorum(n, wave, v.hash)

-----------------------------------------------------------------------------
(* The network: one ordered connection per dialled peer *)

VoteMsg(vote) == [type |-> "vote", vote |-> vote]
BlocksMsg(wave, block, from) ==
  [type |-> "wave_blocks", wave |-> wave, block |-> block, validator |-> from]

Message ==
  [type : {"vote"}, vote : Vote]
    \cup [type : {"wave_blocks"}, wave : Wave, block : AnyBlock, validator : Node]

\* A write to a connection that is not up, or not there, is lost.
broadcastMessage(channels, n, msg) ==
  [p \in Node \X Node |->
     IF p[1] = n /\ conn[n][p[2]] = "up" THEN Append(channels[p], msg) ELSE channels[p]]

\* Mutant of voteOnBlock: the vote is stored and not sent.
voteLocally(channels, n, wave, block) ==
  LET vote == [wave |-> wave, hash |-> voteHash(block, wave), voter |-> n]
  IN  /\ waveVotes' = [waveVotes EXCEPT ![n] = @ \cup {vote}]
      /\ chan' = channels
      /\ checking' = [checking EXCEPT ![n] = @ \cup {wave}]
      /\ cast' = cast \cup {vote}

\* voteOnBlock: store and send the vote, start the delayed check.
voteOnBlock(channels, n, wave, block) ==
  LET vote == [wave |-> wave, hash |-> voteHash(block, wave), voter |-> n]
  IN  /\ waveVotes' = [waveVotes EXCEPT ![n] = @ \cup {vote}]
      /\ chan' = broadcastMessage(channels, n, VoteMsg(vote))
      /\ checking' = [checking EXCEPT ![n] = @ \cup {wave}]
      /\ cast' = cast \cup {vote}

-----------------------------------------------------------------------------
(* Selecting, proposing and voting *)

Init ==
  /\ currentWave = [n \in Node |-> 0]
  /\ finalizedWaves = [n \in Node |-> {}]
  /\ waveBlocks = [n \in Node |-> [w \in Wave |-> None]]
  /\ waveVotes = [n \in Node |-> {}]
  /\ confirmedBlocks = [n \in Node |-> {}]
  /\ processing = [n \in Node |-> {}]
  /\ broadcasting = [n \in Node |-> {}]
  /\ checking = [n \in Node |-> {}]
  /\ cleaning = [n \in Node |-> FALSE]
  /\ dag = InitialDag
  /\ headerWave = [n \in Node |-> [b \in Block |-> 0]]
  /\ refs = [b \in UNION {InitialDag[n] : n \in Node} |-> {}]
  /\ conn = [n \in Node |-> [d \in Node |->
                IF InitiallyConnected /\ d \in peers[n] THEN "up" ELSE "none"]]
  /\ chan = [p \in Node \X Node |-> <<>>]
  /\ cast = {}
  /\ breaks = 0 /\ restarts = 0

\* connectToPeer succeeds; the loop of connectToPeers then ends for good.
connectToPeer(n, d) ==
  /\ d \in peers[n] /\ conn[n][d] = "none"
  /\ conn' = [conn EXCEPT ![n][d] = "up"]
  /\ UNCHANGED <<local, goroutines, dagState, chan, cast, bounds>>

\* The wave ticker starts once waitForAllPeers has returned.
started(n) == \A d \in peers[n] : conn[n][d] # "none"

advanceWave(n) ==
  LET wave == currentWave[n] + 1
  IN  /\ started(n)
      /\ currentWave[n] = 0 \/ currentWave[n] \in finalizedWaves[n]
      /\ wave \in Wave
      /\ currentWave' = [currentWave EXCEPT ![n] = wave]
      /\ cleaning' = [cleaning EXCEPT ![n] = @ \/ wave % 2 = 0]
      /\ processing' = [processing EXCEPT
                          ![n] = IF isWaveLeader(n, wave) THEN @ \cup {wave} ELSE @]
      /\ UNCHANGED <<finalizedWaves, waveBlocks, waveVotes, confirmedBlocks, broadcasting,
                     checking, dagState, conn, chan, cast, bounds>>

alreadyProcessed(n, block) ==
  \E w \in finalizedWaves[n] \cap ledWaves(n) :
    ComputeHash(waveBlocks[n][w], storedWave(n, w)) = dagHash(n, block)

\* The blocks of the highest round among those not processed yet.
candidateBlocks(n) ==
  LET fresh == {b \in dag[n] : ~alreadyProcessed(n, b)}
  IN  {b \in fresh : \A c \in fresh : Round[c] <= Round[b]}

\* Candidate number wave % len(candidateBlocks), highest first.  The order of
\* candidates of one height (by Wave, then by validator) is left open.
selected(candidates, wave, block) ==
  LET index == wave % Cardinality(candidates)
  IN  /\ Cardinality({c \in candidates : Height[c] > Height[block]}) <= index
      /\ index < Cardinality({c \in candidates : Height[c] >= Height[block]})

\* The end of processWave: set Header.Wave (of the DAG's own block when the
\* reader is in process), keep the block, vote; sending it is the next step.
propose(n, wave, block) ==
  /\ headerWave' = IF InProcess THEN [headerWave EXCEPT ![n][block] = wave] ELSE headerWave
  /\ waveBlocks' = [waveBlocks EXCEPT ![n][wave] = block]
  /\ voteOnBlock(chan, n, wave, block)
  /\ broadcasting' = [broadcasting EXCEPT ![n] = @ \cup {<<wave, block>>}]
  /\ UNCHANGED finalizedWaves

\* Mutant of endProcessing: the wave is processed again.
processAgain(n, wave) == UNCHANGED processing

endProcessing(n, wave) == processing' = [processing EXCEPT ![n] = @ \ {wave}]

\* processWave finds no block: the wave is given up.
processNoBlocks(n, wave) ==
  /\ dag[n] = {}
  /\ UNCHANGED <<headerWave, waveBlocks, waveVotes, chan, checking, cast, broadcasting,
                 finalizedWaves>>

\* processWave finds only processed blocks: the wave is finalized here.
processEmptyWave(n, wave) ==
  /\ dag[n] # {} /\ candidateBlocks(n) = {}
  /\ finalizedWaves' = [finalizedWaves EXCEPT ![n] = @ \cup {wave}]
  /\ UNCHANGED <<headerWave, waveBlocks, waveVotes, chan, checking, cast, broadcasting>>

processSelected(n, wave) ==
  \E b \in candidateBlocks(n) : selected(candidateBlocks(n), wave, b) /\ propose(n, wave, b)

\* RemoteDAGSync falls back to made-up blocks when DAG sync does not answer.
processFallback(n, wave) == \E b \in MockBlock : propose(n, wave, b)

processWave(n, wave) ==
  /\ wave \in processing[n]
  /\ endProcessing(n, wave)
  /\ \/ processNoBlocks(n, wave)
     \/ processEmptyWave(n, wave)
     \/ processSelected(n, wave)
     \/ processFallback(n, wave)
  /\ UNCHANGED <<currentWave, confirmedBlocks, cleaning, dag, refs, conn, bounds>>

broadcastWaveBlocks(n, wave, block) ==
  /\ <<wave, block>> \in broadcasting[n]
  /\ broadcasting' = [broadcasting EXCEPT ![n] = @ \ {<<wave, block>>}]
  /\ chan' = broadcastMessage(chan, n, BlocksMsg(wave, block, n))
  /\ UNCHANGED <<local, processing, checking, cleaning, dagState, conn, cast, bounds>>

\* The first message of a connection, and the connection after reading it.
incoming(s, n, type) == chan[<<s, n>>] # <<>> /\ Head(chan[<<s, n>>]).type = type
received(s, n) == [chan EXCEPT ![<<s, n>>] = Tail(@)]

handleReceivedVote(n, s) ==
  /\ incoming(s, n, "vote")
  /\ LET vote == Head(chan[<<s, n>>]).vote
     IN  IF validVoter(n, vote.voter)
         THEN /\ waveVotes' = [waveVotes EXCEPT ![n] = @ \cup {vote}]
              /\ checking' = [checking EXCEPT ![n] = @ \cup {vote.wave}]
         ELSE UNCHANGED <<waveVotes, checking>>
  /\ chan' = received(s, n)
  /\ UNCHANGED <<currentWave, finalizedWaves, waveBlocks, confirmedBlocks, processing,
                 broadcasting, cleaning, dagState, conn, cast, bounds>>

handleReceivedWaveBlocks(n, s) ==
  /\ incoming(s, n, "wave_blocks")
  /\ LET msg == Head(chan[<<s, n>>])
     IN  IF isValidWaveLeader(n, msg.validator, msg.wave)
         THEN voteOnBlock(received(s, n), n, msg.wave, msg.block)
         ELSE /\ chan' = received(s, n)
              /\ UNCHANGED <<waveVotes, checking, cast>>
  /\ UNCHANGED <<currentWave, finalizedWaves, waveBlocks, confirmedBlocks, processing,
                 broadcasting, cleaning, dagState, conn, bounds>>

-----------------------------------------------------------------------------
(* Finalizing and confirming *)

hashesOf(n, blocks) == {dagHash(n, b) : b \in blocks}

referencesOf(blocks) == UNION {refs[b] : b \in blocks \cap DOMAIN refs}

\* Blocks that confirmBlockAndReferences reaches from a block through
\* references found in waveBlocks and not confirmed before.  (Two of them in
\* one round are visited in the order of the references; the model visits
\* both.)
visited(n, block) ==
  LET found(B) == {b \in Block : /\ \E w \in Wave : waveBlocks[n][w] = b
                                 /\ dagHash(n, b) \in referencesOf(B) \ confirmedBlocks[n]}
  IN  {b \in Block : \A B \in SUBSET Block : block \in B /\ found(B) \subseteq B => b \in B}

\* What confirming a block marks: the block, the blocks it references, and
\* every block of the DAG (as read now) of its round or an earlier one.
reachedBlocks(n, wave) == IF InProcess THEN visited(n, waveBlocks[n][wave]) ELSE {}

\* Mutant of ofRoundUpTo: blocks of later rounds are confirmed as well.
ofAnyRound(blocks, round) == blocks

ofRoundUpTo(blocks, round) == {b \in blocks : Round[b] <= round}

confirmedWith(n, wave, recent) ==
  {storedHash(n, wave)}
    \cup hashesOf(n, reachedBlocks(n, wave))
    \cup referencesOf(reachedBlocks(n, wave))
    \cup hashesOf(n, ofRoundUpTo(recent, Round[waveBlocks[n][wave]]))

confirmBlockAndReferences(n, wave, recent) ==
  confirmedBlocks[n] \cup
    (IF storedHash(n, wave) \in confirmedBlocks[n] THEN {} ELSE confirmedWith(n, wave, recent))

\* What GetRecentBlocks may return: the DAG, or (RemoteDAGSync) made-up
\* blocks, whose hashes nothing else mentions.
recentBlocks(n) == {dag[n]} \cup (IF MockBlock = {} THEN {} ELSE {{}})

checkWaveFinalization(n, wave) ==
  /\ wave \in checking[n]
  /\ checking' = [checking EXCEPT ![n] = @ \ {wave}]
  /\ IF wave \notin finalizedWaves[n] /\ canFinalize(n, wave)
     THEN /\ finalizedWaves' = [finalizedWaves EXCEPT ![n] = @ \cup {wave}]
          /\ IF wave \in ledWaves(n) /\ hasQuorum(n, wave, storedHash(n, wave))
             THEN \E recent \in recentBlocks(n) :
                    confirmedBlocks' = [confirmedBlocks EXCEPT
                                          ![n] = confirmBlockAndReferences(n, wave, recent)]
             ELSE UNCHANGED confirmedBlocks
     ELSE UNCHANGED <<finalizedWaves, confirmedBlocks>>
  /\ UNCHANGED <<currentWave, waveBlocks, waveVotes, processing, broadcasting, cleaning,
                 dagState, conn, chan, cast, bounds>>

larger(x, y) == IF x > y THEN x ELSE y

\* Mutant of oldWaves: sorted newest first.
newWaves(n) ==
  LET toRemove == Cardinality(ledWaves(n)) - larger(maxWaves \div 2, minWavesKept)
  IN  {w \in ledWaves(n) : Cardinality({v \in ledWaves(n) : v > w}) < toRemove}

\* The waves cleanupOldWaves removes: the oldest of those this node led.
oldWaves(n) ==
  LET keepCount == larger(maxWaves \div 2, minWavesKept)
      toRemove == Cardinality(ledWaves(n)) - keepCount
  IN  IF Cardinality(ledWaves(n)) > maxWaves
      THEN {w \in ledWaves(n) : Cardinality({v \in ledWaves(n) : v < w}) < toRemove}
      ELSE {}

\* The sets of hashes it may leave: which ones go is the map's iteration order.
keptConfirmed(n) ==
  LET keepCount == larger(maxConfirmedBlocks \div 2, minConfirmedKept)
      confirmed == confirmedBlocks[n]
  IN  IF Cardinality(confirmed) > maxConfirmedBlocks /\ Cardinality(confirmed) > keepCount
      THEN {K \in SUBSET confirmed : Cardinality(K) = keepCount}
      ELSE {confirmed}

cleanupOldWaves(n) ==
  /\ cleaning[n]
  /\ cleaning' = [cleaning EXCEPT ![n] = FALSE]
  /\ LET old == oldWaves(n)
     IN  /\ waveBlocks' = [waveBlocks EXCEPT
                             ![n] = [w \in Wave |-> IF w \in old THEN None ELSE @[w]]]
         /\ waveVotes' = [waveVotes EXCEPT ![n] = {v \in @ : v.wave \notin old}]
         /\ finalizedWaves' = [finalizedWaves EXCEPT ![n] = @ \ old]
  /\ \E K \in keptConfirmed(n) : confirmedBlocks' = [confirmedBlocks EXCEPT ![n] = K]
  /\ UNCHANGED <<currentWave, processing, broadcasting, checking, dagState, conn, chan, cast,
                 bounds>>

-----------------------------------------------------------------------------
(* The status API: what it answers for a hash.  When several waves hold the *)
(* block, the first one the map iteration meets decides.                    *)

wavesOf(n, hash) ==
  {w \in ledWaves(n) : hash \in {ComputeHash(waveBlocks[n][w], storedWave(n, w)),
                                 storedHash(n, w)}}

\* Mutant of statusInWave: a block with votes is reported as finalized.
statusByVotes(n, hash, wave) ==
  IF hash \in confirmedBlocks[n] \/ votersFor(n, wave, hash) # {} THEN "finalized" ELSE "proposed"

statusInWave(n, hash, wave) ==
  IF hash \in confirmedBlocks[n] \/ wave \in finalizedWaves[n] THEN "finalized"
  ELSE IF wave > currentWave[n] THEN "pending"
  ELSE IF hasQuorum(n, wave, hash) THEN "confirming"
  ELSE IF votersFor(n, wave, hash) # {} THEN "voting" ELSE "proposed"

\* Mutant of GetBlockConfirmationStatus: not in a wave means finalized.
statusUnlessInWave(n, hash) ==
  IF wavesOf(n, hash) = {} THEN {"finalized"}
  ELSE {statusInWave(n, hash, w) : w \in wavesOf(n, hash)}

GetBlockConfirmationStatus(n, hash) ==
  IF wavesOf(n, hash) = {}
  THEN {IF hash \in confirmedBlocks[n] THEN "finalized" ELSE "not_found"}
  ELSE {statusInWave(n, hash, w) : w \in wavesOf(n, hash)}

\* Mutant of GetAllBlocksConfirmationStatus: the listing looks at waves only.
listingByWave(n, hash) ==
  {IF w \in finalizedWaves[n] THEN "finalized" ELSE "voting" :
     w \in {x \in ledWaves(n) : storedHash(n, x) = hash}}

\* The listing of every block: for a hash held by several waves, the wave the
\* iteration meets last decides.
GetAllBlocksConfirmationStatus(n, hash) ==
  LET waves == {w \in ledWaves(n) : storedHash(n, w) = hash}
  IN  CASE waves # {} -> {statusInWave(n, hash, w) : w \in waves}
        [] waves = {} /\ hash \in confirmedBlocks[n] -> {"finalized"}
        [] OTHER -> {}

-----------------------------------------------------------------------------
(* The environment: the DAG, failures of connections, restarts *)

\* The DagCapacity highest blocks of S, in the order the sort leaves them.
newest(S) ==
  {K \in SUBSET S : /\ Cardinality(K) = DagCapacity
                    /\ \A b \in S \ K, c \in K : Height[b] <= Height[c]}

\* What may be left of S.  Blocks over the capacity are deleted under their
\* present hash, so one whose Wave was set since it was added stays.
cleanupOldBlocks(n, S) ==
  IF Cardinality(S) <= DagCapacity THEN {S}
  ELSE {S \ {b \in S \ K : dagHash(n, b) = ComputeHash(b, 0)} : K \in newest(S)}

\* DAG sync adds a block to n's DAG.  A block that is new references blocks of
\* the previous round by the hash they have at its creator: all those in the
\* DAG and those which the creator has dropped from it and still tracks.  The
\* remote reader hands out blocks without references.
dagAddBlock(n, b) ==
  /\ b \notin dag[n]
  /\ \E D \in cleanupOldBlocks(n, dag[n] \cup {b}) : dag' = [dag EXCEPT ![n] = D]
  /\ IF b \in DOMAIN refs THEN UNCHANGED refs
     ELSE \E prev \in SUBSET {c \in DOMAIN refs : InProcess /\ Round[c] + 1 = Round[b]} :
            /\ \A c \in dag[n] : InProcess /\ Round[c] + 1 = Round[b] => c \in prev
            /\ refs' = [c \in DOMAIN refs \cup {b} |->
                          IF c = b THEN hashesOf(n, prev) ELSE refs[c]]
  /\ UNCHANGED <<local, goroutines, headerWave, conn, chan, cast, bounds>>

\* A connection fails: what was not read yet is lost from some point on, and
\* it is never dialled again.
breakConnection(s, d) ==
  /\ breaks < MaxBreaks /\ conn[s][d] = "up"
  /\ breaks' = breaks + 1
  /\ conn' = [conn EXCEPT ![s][d] = "broken"]
  /\ \E k \in 0..Len(chan[<<s, d>>]) :
       chan' = [chan EXCEPT ![<<s, d>>] = SubSeq(@, 1, k)]
  /\ UNCHANGED <<local, goroutines, dagState, cast, restarts>>

\* A process stops and is started again: nothing was persisted.  It dials its
\* peers anew; what they had dialled is broken.  What it sent still arrives.
restart(n) ==
  /\ restarts < MaxRestarts
  /\ restarts' = restarts + 1
  /\ currentWave' = [currentWave EXCEPT ![n] = 0]
  /\ finalizedWaves' = [finalizedWaves EXCEPT ![n] = {}]
  /\ waveBlocks' = [waveBlocks EXCEPT ![n] = [w \in Wave |-> None]]
  /\ waveVotes' = [waveVotes EXCEPT ![n] = {}]
  /\ confirmedBlocks' = [confirmedBlocks EXCEPT ![n] = {}]
  /\ processing' = [processing EXCEPT ![n] = {}]
  /\ broadcasting' = [broadcasting EXCEPT ![n] = {}]
  /\ checking' = [checking EXCEPT ![n] = {}]
  /\ cleaning' = [cleaning EXCEPT ![n] = FALSE]
  /\ dag' = [dag EXCEPT ![n] = IF InProcess THEN {} ELSE @]
  /\ headerWave' = [headerWave EXCEPT ![n] = [b \in Block |-> 0]]
  /\ conn' = [s \in Node |-> [d \in Node |->
                IF s = n THEN "none"
                ELSE IF d = n /\ conn[s][d] = "up" THEN "broken"
                ELSE conn[s][d]]]
  /\ chan' = [p \in Node \X Node |-> IF p[2] = n THEN <<>> ELSE chan[p]]
  /\ UNCHANGED <<refs, cast, breaks>>

Next ==
  \/ \E n \in Node :
       \/ advanceWave(n)
       \/ \E w \in Wave : processWave(n, w) \/ checkWaveFinalization(n, w)
       \/ \E w \in Wave, b \in AnyBlock : broadcastWaveBlocks(n, w, b)
       \/ \E s \in Node : handleReceivedVote(n, s) \/ handleReceivedWaveBlocks(n, s)
       \/ cleanupOldWaves(n)
       \/ \E d \in Node : connectToPeer(n, d) \/ breakConnection(n, d)
       \/ restart(n)
  \/ \E n \in Node, b \in Block : dagAddBlock(n, b)

Spec == Init /\ [][Next]_vars

\* The Go scheduler runs every goroutine, the ticker fires, TCP delivers, and
\* the dial loop retries until it succeeds.
Fairness ==
  \A n \in Node :
    /\ WF_vars(advanceWave(n))
    /\ \A w \in Wave : WF_vars(processWave(n, w)) /\ WF_vars(checkWaveFinalization(n, w))
    /\ \A w \in Wave, b \in AnyBlock : WF_vars(broadcastWaveBlocks(n, w, b))
    /\ \A s \in Node :
         /\ WF_vars(handleReceivedVote(n, s))
         /\ WF_vars(handleReceivedWaveBlocks(n, s))
         /\ WF_vars(connectToPeer(n, s))
    /\ WF_vars(cleanupOldWaves(n))

FairSpec == Spec /\ Fairness

-----------------------------------------------------------------------------
(* Properties *)

\* Every variable holds values of the type its Go declaration gives it.
TypeOK ==
  /\ currentWave \in [Node -> 0..MaxWave]
  /\ finalizedWaves \in [Node -> SUBSET Wave]
  /\ waveBlocks \in [Node -> [Wave -> AnyBlock \cup {None}]]
  /\ waveVotes \in [Node -> SUBSET Vote]
  /\ confirmedBlocks \in [Node -> SUBSET Hash]
  /\ processing \in [Node -> SUBSET Wave]
  /\ broadcasting \in [Node -> SUBSET (Wave \X AnyBlock)]
  /\ checking \in [Node -> SUBSET Wave]
  /\ cleaning \in [Node -> BOOLEAN]
  /\ dag \in [Node -> SUBSET Block]
  /\ headerWave \in [Node -> [Block -> 0..MaxWave]]
  /\ DOMAIN refs \subseteq Block /\ refs \in [DOMAIN refs -> SUBSET Hash]
  /\ conn \in [Node -> [Node -> {"none", "up", "broken"}]]
  /\ chan \in [Node \X Node -> Seq(Message)]
  /\ cast \subseteq Vote
  /\ breaks \in 0..MaxBreaks /\ restarts \in 0..MaxRestarts

castersOf(wave, hash) ==
  {v \in Node : [wave |-> wave, hash |-> hash, voter |-> v] \in cast}

\* As many validators as n requires voted for the hash in the wave.
quorumCast(n, wave, hash) == Cardinality(castersOf(wave, hash)) >= requiredVotes(n)

\* advanceWave and checkWaveFinalization: a wave that a validator has
\* finalized, or has left behind, has the votes of a majority for one block,
\* whatever was lost, restarted or cleaned up since.  The one exception is a
\* leader that found only processed blocks (empty wave, in process only).
CompletedWavesHaveQuorum ==
  \A n \in Node, w \in Wave :
    w \in finalizedWaves[n] \/ w < currentWave[n] =>
      \/ \E v \in cast : v.wave = w /\ quorumCast(n, w, v.hash)
      \/ InProcess /\ isWaveLeader(n, w)

\* voteOnBlock: nobody votes for a block that the leader of the wave, as the
\* voter knows it, has not voted for under the same hash.
VotesFollowLeader ==
  \A v \in cast : \E u \in cast :
    /\ u.wave = v.wave /\ u.hash = v.hash
    /\ isValidWaveLeader(v.voter, u.voter, v.wave)

\* processWave and voteOnBlock: without restarts, and if all validators have
\* the same list, all votes of a wave are for one block, though nothing in
\* handleReceivedWaveBlocks compares a block with an earlier one.
OneBlockPerWave == \A u, v \in cast : u.wave = v.wave => u.hash = v.hash

\* checkWaveFinalization: two validators that find a majority for a wave find
\* it for the same block.
QuorumAgreement ==
  \A m, n \in Node : \A u \in waveVotes[m], v \in waveVotes[n] :
    /\ u.wave = v.wave
    /\ hasQuorum(m, u.wave, u.hash) /\ hasQuorum(n, v.wave, v.hash)
    => u.hash = v.hash

\* confirmBlockAndReferences: a hash is confirmed only under a block, of its
\* round or a later one, that a majority voted for.
ConfirmedUnderQuorum ==
  \A n \in Node : \A c \in confirmedBlocks[n] :
    \E w \in Wave, b \in AnyBlock :
      Round[c[1]] <= Round[b] /\ quorumCast(n, w, voteHash(b, w))

\* GetBlockConfirmationStatus: it answers "finalized" only for a block that,
\* or a later block than which, a majority voted for.
StatusReflectsQuorum ==
  \A n \in Node, h \in Hash :
    "finalized" \in GetBlockConfirmationStatus(n, h) =>
      \E w \in Wave, b \in AnyBlock :
        Round[h[1]] <= Round[b] /\ quorumCast(n, w, voteHash(b, w))

\* The two status queries do not contradict each other: what the listing says
\* of a block, the query for that block may say too.
ListingAgrees ==
  \A n \in Node, h \in Hash :
    GetAllBlocksConfirmationStatus(n, h) \subseteq GetBlockConfirmationStatus(n, h)

\* cleanupOldWaves: it never removes the mark of the current wave, without
\* which advanceWave would wait for ever.
CurrentWaveStaysFinalized ==
  [][\A n \in Node :
       currentWave[n] \in finalizedWaves[n] /\ currentWave'[n] = currentWave[n]
         => currentWave[n] \in finalizedWaves'[n]]_vars

\* advanceWave to checkWaveFinalization: with all connections up and blocks in
\* every DAG, every validator completes every wave.
EveryWaveCompletes ==
  \A n \in Node, w \in Wave : <>(w \in finalizedWaves[n] \/ w < currentWave[n])
============================================================================
