-------------------------- MODULE DAGContentProofs --------------------------
(***************************************************************************)
(* Theorems about DAGSync, continued: what the DAG keeps, what its height  *)
(* counts, and what blocks reference.                                      *)
(***************************************************************************)
EXTENDS DAGSyncProofs, FiniteSetTheorems

-----------------------------------------------------------------------------
(* What the DAG keeps *)

\* The sections after AddBlock: the block has its height for good.
InDag == {"track", "broadcast", "done"}

\* A block is sent when it is done, once, by its creator and to others; it is
\* in no DAG before it is added or received.
FreshInv ==
  /\ \A n \in Node : \A b \in added[n] :
       at[b] \in InDag /\ (validatorOf(b) # n => at[b] = "done")
  /\ \A p \in Node \X Node : \A i \in 1..Len(chan[p]) :
       /\ at[chan[p][i]] = "done" /\ validatorOf(chan[p][i]) = p[1]
       /\ chan[p][i] \notin added[p[2]]
       /\ p[1] # p[2]
  /\ \A p \in Node \X Node : \A i, j \in 1..Len(chan[p]) : chan[p][i] = chan[p][j] => i = j
  /\ \A n \in Node : conn[n][n] = "none"

KeptInv ==
  /\ TypeOK /\ CreationInv /\ FreshInv /\ HighestKept /\ HeightCountsBlocks
  /\ \A n \in Node : IsFiniteSet(added[n])

\* AddBlock with its cleanup keeps the highest blocks, in whatever order they
\* are added.
LEMMA AddBlockKeepsHighest ==
  ASSUME TypeOK, HighestKept, \A m \in Node : IsFiniteSet(added[m]),
         NEW n \in Node, NEW b \in BlockId, AddBlock(n, b), UNCHANGED blockHeight
  PROVE  HighestKept'
<1> DEFINE S == dag[n] \cup {b}
<1>1. PICK K \in cleanupOldBlocks(S) : dag' = [dag EXCEPT ![n] = K]
  BY Zenon DEF AddBlock
<1>2. added' = [added EXCEPT ![n] = @ \cup {b}]
  BY Zenon DEF AddBlock
<1>3. added'[n] = added[n] \cup {b} /\ \A m \in Node : m # n => added'[m] = added[m]
  BY <1>2, Zenon DEF TypeOK
<1>4. dag'[n] = K /\ \A m \in Node : m # n => dag'[m] = dag[m]
  BY <1>1, Zenon DEF TypeOK
<1>0. IsFiniteSet(dag[n])
  BY FS_Subset, Zenon DEF HighestKept
<1>5. /\ IsFiniteSet(S)
      /\ Cardinality(S) = IF b \in dag[n] THEN Cardinality(dag[n]) ELSE Cardinality(dag[n]) + 1
  BY <1>0, FS_AddElement, Zenon
<1>6. Cardinality(dag[n]) \in Nat /\ Cardinality(S) \in Nat /\ DagCapacity \in Nat
  BY <1>0, <1>5, FS_CardinalityType, ConstantTypes, Zenon
<1>7. K \subseteq S
  BY <1>1, CleanupRemoves, Zenon
<1>8. /\ dag[n] \subseteq added[n]
      /\ dag[n] # added[n] => Cardinality(dag[n]) = DagCapacity
      /\ \A a \in added[n] \ dag[n], c \in dag[n] : blockHeight[a] <= blockHeight[c]
  BY Zenon DEF HighestKept
<1>9. /\ K \subseteq added'[n]
      /\ Cardinality(K) <= DagCapacity
      /\ K # added'[n] => Cardinality(K) = DagCapacity
      /\ \A a \in added'[n] \ K, k \in K : blockHeight[a] <= blockHeight[k]
  <2>1. CASE Cardinality(S) <= DagCapacity
    <3>1. K = S
      BY <1>1, <2>1, Zenon DEF cleanupOldBlocks
    <3>2. CASE dag[n] = added[n]
      BY <1>3, <2>1, <3>1, <3>2, Zenon
    <3>3. CASE dag[n] # added[n]
      <4>1. b \in dag[n]
        BY <1>5, <1>6, <1>8, <2>1, <3>3
      <4>2. K = dag[n] /\ added'[n] = added[n]
        BY <1>3, <1>8, <3>1, <4>1, Zenon
      <4> HIDE DEF S
      <4> QED
        BY <1>6, <1>8, <3>3, <4>2
    <3> QED
      BY <3>2, <3>3, Zenon
  <2>2. CASE ~(Cardinality(S) <= DagCapacity)
    <3>1. K \in highest(S)
      BY <1>1, <2>2, Zenon DEF cleanupOldBlocks
    <3>2. Cardinality(K) = DagCapacity /\ \A k \in K, d \in S \ K : blockHeight[d] <= blockHeight[k]
      BY <3>1, Zenon DEF highest
    <3>3. PICK y \in S \ K : TRUE
      <4>1. K # S
        BY <2>2, <3>2, <1>6
      <4> QED
        BY <1>7, <4>1, Zenon
    <3>4. ASSUME NEW a \in added'[n] \ K, NEW k \in K
          PROVE  blockHeight[a] <= blockHeight[k]
      <4>1. CASE a \in S
        BY <3>2, <4>1, Zenon
      <4>2. CASE a \notin S
        <5>1. a \in added[n] \ dag[n]
          BY <1>3, <3>4, <4>2, Zenon
        <5>2. CASE k \in dag[n]
          BY <1>8, <5>1, <5>2, Zenon
        <5>3. CASE k \notin dag[n]
          <6>1. k = b /\ y \in dag[n] /\ y # k
            BY <1>7, <3>3, <3>4, <5>3, Zenon
          <6>2. blockHeight[a] <= blockHeight[y] /\ blockHeight[y] <= blockHeight[k]
            BY <1>8, <3>2, <3>3, <5>1, <6>1, Zenon
          <6>3. a \in BlockId /\ y \in BlockId /\ k \in BlockId
            BY <5>1, <6>1, Zenon DEF TypeOK
          <6>4. blockHeight[a] \in Nat /\ blockHeight[y] \in Nat /\ blockHeight[k] \in Nat
            BY <6>3, Zenon DEF TypeOK
          <6> QED
            BY <6>2, <6>4
        <5> QED
          BY <5>2, <5>3, Zenon
      <4> QED
        BY <4>1, <4>2, Zenon
    <3>5. K \subseteq added'[n]
      BY <1>3, <1>7, <1>8, Zenon
    <3> HIDE DEF S
    <3> QED
      BY <1>6, <3>2, <3>4, <3>5
  <2> QED
    BY <2>1, <2>2, Zenon
<1> HIDE DEF S
<1>10. ASSUME NEW m \in Node
       PROVE  /\ dag'[m] \subseteq added'[m]
              /\ Cardinality(dag'[m]) <= DagCapacity
              /\ dag'[m] # added'[m] => Cardinality(dag'[m]) = DagCapacity
              /\ \A a \in added'[m] \ dag'[m], c \in dag'[m] : blockHeight[a] <= blockHeight[c]
  <2>1. CASE m = n
    <3>1. dag'[m] = K /\ added'[m] = added'[n]
      BY <1>4, <2>1, Zenon
    <3> QED
      BY <1>9, <3>1, Zenon
  <2>2. CASE m # n
    BY <1>3, <1>4, <2>2, Zenon DEF HighestKept
  <2> QED
    BY <2>1, <2>2, Zenon
<1> QED
  BY <1>10, Zenon DEF HighestKept

\* What a step may do to a block that is in a DAG.
StaysInDag(b) ==
  /\ blockHeight'[b] = blockHeight[b]
  /\ at[b] = "done" => at'[b] = "done"
  /\ at'[b] \in InDag \/ restart(validatorOf(b))

\* A block in a DAG keeps its height, and stays there unless its creator stops.
LEMMA InDagStable ==
  ASSUME TypeOK, CreationInv, [Next]_vars, NEW b \in BlockId, at[b] \in InDag
  PROVE  StaysInDag(b)
<1>1. CASE UNCHANGED creation
  BY <1>1, Zenon DEF creation, StaysInDag
<1>2. ASSUME NEW n \in Node, advanceRound(n)
      PROVE  StaysInDag(b)
  <2> DEFINE c == <<n, currentRound[n] + 1, life[n]>>
  <2>1. /\ c \in BlockId /\ at[c] = "idle" /\ at' = [at EXCEPT ![c] = "readRounds"]
        /\ UNCHANGED blockHeight
    BY <1>2, AdvanceMoves, Zenon
  <2> HIDE DEF c
  <2>2. b # c
    BY <2>1, Zenon DEF StaysInDag, InDag
  <2> QED
    BY <2>1, <2>2, Zenon DEF TypeOK, StaysInDag
<1>3. ASSUME NEW c \in BlockId, createRoundBlock(c)
      PROVE  StaysInDag(b)
  <2>1. CASE readRoundBlocks(c)
    <3>1. /\ at[c] = "readRounds" /\ at' = [at EXCEPT ![c] = "readDag"]
          /\ UNCHANGED blockHeight
      BY <2>1, Zenon DEF readRoundBlocks
    <3> QED
      BY <3>1, Zenon DEF TypeOK, StaysInDag, InDag
  <2>2. CASE readDagBlocks(c)
    <3>1. at[c] = "readDag" /\ at' = [at EXCEPT ![c] = "fill"] /\ UNCHANGED blockHeight
      BY <2>2, Zenon DEF readDagBlocks
    <3> QED
      BY <3>1, Zenon DEF TypeOK, StaysInDag, InDag
  <2>3. CASE fillBlock(c)
    <3>1. /\ at[c] = "fill" /\ at' = [at EXCEPT ![c] = "addBlock"]
          /\ blockHeight' = [blockHeight EXCEPT ![c] = nextHeight(validatorOf(c))]
      BY <2>3, Zenon DEF fillBlock
    <3> QED
      BY <3>1, Zenon DEF TypeOK, StaysInDag, InDag
  <2>4. CASE addOwnBlock(c)
    <3>1. at[c] = "addBlock" /\ at' = [at EXCEPT ![c] = "track"] /\ UNCHANGED blockHeight
      BY <2>4, Zenon DEF addOwnBlock
    <3> QED
      BY <3>1, Zenon DEF TypeOK, StaysInDag, InDag
  <2>5. CASE trackOwnBlock(c)
    <3>1. /\ at[c] = "track" /\ at' = [at EXCEPT ![c] = "broadcast"]
          /\ UNCHANGED blockHeight
      BY <2>5, Zenon DEF trackOwnBlock
    <3> QED
      BY <3>1, Zenon DEF TypeOK, StaysInDag, InDag
  <2>6. CASE broadcastBlock(c)
    <3>1. at' = [at EXCEPT ![c] = "done"] /\ UNCHANGED blockHeight
      BY <2>6, Zenon DEF broadcastBlock
    <3> QED
      BY <3>1, Zenon DEF TypeOK, StaysInDag, InDag
  <2> QED
    BY <1>3, <2>1, <2>2, <2>3, <2>4, <2>5, <2>6, Zenon DEF createRoundBlock
<1>4. ASSUME NEW n \in Node, restart(n)
      PROVE  StaysInDag(b)
  <2>1. at'[b] = (IF b \in creating(n) THEN "killed" ELSE at[b]) /\ UNCHANGED blockHeight
    BY <1>4, Zenon DEF restart
  <2>2. at'[b] = at[b] \/ (validatorOf(b) = n /\ at[b] # "done")
    BY <2>1, Zenon DEF creating
  <2> QED
    BY <1>4, <2>1, <2>2, Zenon DEF StaysInDag, InDag
<1>5. UNCHANGED vars => UNCHANGED creation
  BY Zenon DEF vars
<1> QED
  BY <1>1, <1>2, <1>3, <1>4, <1>5, CreationElsewhere, Zenon DEF Next

\* Steps that leave connections and histories alone keep FreshInv.
LEMMA FreshElsewhere ==
  ASSUME TypeOK, FreshInv, UNCHANGED <<chan, added, conn>>,
         \A b \in BlockId : at[b] \in InDag =>
           at'[b] \in InDag /\ (at[b] = "done" => at'[b] = "done")
  PROVE  FreshInv'
<1>1. \A n \in Node : \A b \in added[n] :
        at'[b] \in InDag /\ (validatorOf(b) # n => at'[b] = "done")
  <2> SUFFICES ASSUME NEW n \in Node, NEW b \in added[n]
               PROVE  at'[b] \in InDag /\ (validatorOf(b) # n => at'[b] = "done")
    BY Zenon
  <2>1. b \in BlockId
    BY Zenon DEF TypeOK
  <2>2. at[b] \in InDag /\ (validatorOf(b) # n => at[b] = "done")
    BY DEF FreshInv
  <2> QED
    BY <2>1, <2>2, Zenon
<1>2. \A p \in Node \X Node : \A i \in 1..Len(chan[p]) : at'[chan[p][i]] = "done"
  <2> SUFFICES ASSUME NEW p \in Node \X Node, NEW i \in 1..Len(chan[p])
               PROVE  at'[chan[p][i]] = "done"
    BY Zenon
  <2>1. chan[p] \in Seq(BlockId)
    BY Zenon DEF TypeOK
  <2>2. chan[p][i] \in BlockId
    BY <2>1
  <2>3. at[chan[p][i]] = "done"
    BY Zenon DEF FreshInv
  <2> QED
    BY <2>2, <2>3, Zenon DEF InDag
<1> QED
  BY <1>1, <1>2, SMTT(30) DEF FreshInv

\* Sending a block that is done, and was not sent before, keeps FreshInv.
LEMMA BroadcastFresh ==
  ASSUME TypeOK, FreshInv, NEW b \in BlockId, broadcastBlock(b)
  PROVE  FreshInv'
<1> DEFINE n == validatorOf(b)
<1>0. n \in Node
  BY BlockIdParts, Zenon
<1>1. /\ at[b] = "broadcast" /\ at' = [at EXCEPT ![b] = "done"]
      /\ UNCHANGED <<added, conn>>
      /\ chan' = [p \in Node \X Node |->
                    IF p[1] = n THEN sendTo(n, p[2], chan[p], b) ELSE chan[p]]
  BY Zenon DEF broadcastBlock, dagState
<1>2. at'[b] = "done" /\ \A c \in BlockId : c # b => at'[c] = at[c]
  BY <1>1, Zenon DEF TypeOK
<1>3. \A m \in Node : \A c \in added[m] :
        at'[c] \in InDag /\ (validatorOf(c) # m => at'[c] = "done")
  BY <1>2 DEF FreshInv, TypeOK, InDag
<1>4. \A m \in Node : m # n => b \notin added[m]
  BY <1>1, Zenon DEF FreshInv
<1> HIDE DEF n
<1>5. ASSUME NEW p \in Node \X Node
      PROVE  /\ \A i \in 1..Len(chan'[p]) :
                  /\ at'[chan'[p][i]] = "done" /\ validatorOf(chan'[p][i]) = p[1]
                  /\ chan'[p][i] \notin added[p[2]]
                  /\ p[1] # p[2]
             /\ \A i, j \in 1..Len(chan'[p]) : chan'[p][i] = chan'[p][j] => i = j
  <2>1. /\ chan[p] \in Seq(BlockId)
        /\ \A i \in 1..Len(chan[p]) :
             /\ chan[p][i] \in BlockId
             /\ at[chan[p][i]] = "done" /\ validatorOf(chan[p][i]) = p[1]
             /\ chan[p][i] \notin added[p[2]]
             /\ p[1] # p[2]
        /\ \A i, j \in 1..Len(chan[p]) : chan[p][i] = chan[p][j] => i = j
    <3>1. chan[p] \in Seq(BlockId)
      BY Zenon DEF TypeOK
    <3> QED
      BY <3>1 DEF FreshInv
  <2>2. \A i \in 1..Len(chan[p]) : chan[p][i] # b /\ at'[chan[p][i]] = "done"
    BY <1>1, <1>2, <2>1, ZenonT(40)
  <2>3. CASE chan'[p] = chan[p]
    BY <2>1, <2>2, <2>3, Zenon
  <2>4. CASE chan'[p] # chan[p]
    <3>1. p[1] = n /\ conn[n][p[2]] = "up" /\ chan'[p] = Append(chan[p], b)
      BY <1>1, <2>4, Zenon DEF sendTo
    <3>2. p[2] # n /\ p[2] \in Node
      BY <1>0, <3>1, Zenon DEF FreshInv
    <3>3. /\ Len(chan'[p]) = Len(chan[p]) + 1 /\ Len(chan[p]) \in Nat
          /\ \A i \in 1..Len(chan[p]) : chan'[p][i] = chan[p][i]
          /\ chan'[p][Len(chan[p]) + 1] = b
      BY <2>1, <3>1
    <3>4. \A i \in 1..Len(chan'[p]) : i \in 1..Len(chan[p]) \/ i = Len(chan[p]) + 1
      BY <3>3
    <3>5. \A i \in 1..Len(chan'[p]) :
            /\ at'[chan'[p][i]] = "done" /\ validatorOf(chan'[p][i]) = p[1]
            /\ chan'[p][i] \notin added[p[2]]
            /\ p[1] # p[2]
      BY <1>2, <1>4, <2>1, <2>2, <3>1, <3>2, <3>3, <3>4 DEF n
    <3>6. \A i, j \in 1..Len(chan'[p]) : chan'[p][i] = chan'[p][j] => i = j
      BY <2>1, <2>2, <3>3, <3>4, ZenonT(40)
    <3> QED
      BY <3>5, <3>6, Zenon
  <2> QED
    BY <2>3, <2>4, Zenon
<1> QED
  BY <1>1, <1>3, <1>5 DEF FreshInv

\* AddBlock of a block that is new to the DAG counts it.
LEMMA AddBlockCounts ==
  ASSUME TypeOK, HeightCountsBlocks, \A m \in Node : IsFiniteSet(added[m]),
         NEW n \in Node, NEW b \in BlockId, AddBlock(n, b), b \notin added[n]
  PROVE  HeightCountsBlocks' /\ \A m \in Node : IsFiniteSet(added'[m])
<1>1. /\ added' = [added EXCEPT ![n] = @ \cup {b}]
      /\ dagHeight' = [dagHeight EXCEPT ![n] = @ + 1]
  BY Zenon DEF AddBlock
<1>2. /\ added'[n] = added[n] \cup {b} /\ \A m \in Node : m # n => added'[m] = added[m]
      /\ dagHeight'[n] = dagHeight[n] + 1
      /\ \A m \in Node : m # n => dagHeight'[m] = dagHeight[m]
  BY <1>1, Zenon DEF TypeOK
<1>3. /\ IsFiniteSet(added[n] \cup {b})
      /\ Cardinality(added[n] \cup {b}) = Cardinality(added[n]) + 1
  BY FS_AddElement, Zenon
<1>4. \A m \in Node : IsFiniteSet(added'[m])
  BY <1>2, <1>3, Zenon
<1>5. ASSUME NEW m \in Node PROVE dagHeight'[m] = Cardinality(added'[m])
  <2>1. CASE m = n
    BY <1>2, <1>3, <2>1, Zenon DEF HeightCountsBlocks
  <2>2. CASE m # n
    BY <1>2, <2>2, Zenon DEF HeightCountsBlocks
  <2> QED
    BY <2>1, <2>2, Zenon
<1> QED
  BY <1>4, <1>5 DEF HeightCountsBlocks

\* A creator that adds its own block keeps KeptInv.
LEMMA AddOwnKept ==
  ASSUME KeptInv, NEW b \in BlockId, addOwnBlock(b)
  PROVE  /\ FreshInv' /\ HighestKept' /\ HeightCountsBlocks'
         /\ \A m \in Node : IsFiniteSet(added'[m])
<1> DEFINE n == validatorOf(b)
<1>0. n \in Node
  BY BlockIdParts, Zenon
<1>1. /\ at[b] = "addBlock" /\ at' = [at EXCEPT ![b] = "track"] /\ AddBlock(n, b)
      /\ UNCHANGED <<blockHeight, conn, chan>>
  BY Zenon DEF addOwnBlock, network
<1>2. b \notin added[n]
  BY <1>0, <1>1, Zenon DEF KeptInv, FreshInv, InDag
<1>3. HeightCountsBlocks' /\ \A m \in Node : IsFiniteSet(added'[m])
  BY <1>0, <1>1, <1>2, AddBlockCounts, Zenon DEF KeptInv
<1>4. HighestKept'
  BY <1>0, <1>1, AddBlockKeepsHighest, Zenon DEF KeptInv
<1>5. at'[b] = "track" /\ \A c \in BlockId : c # b => at'[c] = at[c]
  BY <1>1, Zenon DEF KeptInv, TypeOK
<1>6. added'[n] = added[n] \cup {b} /\ \A m \in Node : m # n => added'[m] = added[m]
  BY <1>0, <1>1 DEF AddBlock, KeptInv, TypeOK
<1>7. \A m \in Node : \A c \in added'[m] :
        at'[c] \in InDag /\ (validatorOf(c) # m => at'[c] = "done")
  <2> SUFFICES ASSUME NEW m \in Node, NEW c \in added'[m]
               PROVE  at'[c] \in InDag /\ (validatorOf(c) # m => at'[c] = "done")
    BY Zenon
  <2>1. CASE c = b
    <3>1. b \notin added[m]
      BY <1>1, Zenon DEF KeptInv, FreshInv, InDag
    <3>2. m = n
      BY <1>6, <2>1, <3>1, Zenon
    <3> QED
      BY <1>5, <2>1, <3>2, Zenon DEF InDag
  <2>2. CASE c # b
    <3>1. c \in added[m]
      BY <1>6, <2>2, Zenon
    <3>2. c \in BlockId
      BY <3>1, Zenon DEF KeptInv, TypeOK
    <3> QED
      BY <1>5, <2>2, <3>1, <3>2, ZenonT(40) DEF KeptInv, FreshInv
  <2> QED
    BY <2>1, <2>2, Zenon
<1>8. ASSUME NEW p \in Node \X Node, NEW i \in 1..Len(chan[p])
      PROVE  /\ at'[chan[p][i]] = "done" /\ validatorOf(chan[p][i]) = p[1]
             /\ chan[p][i] \notin added'[p[2]]
             /\ p[1] # p[2]
  <2>1. chan[p] \in Seq(BlockId)
    BY Zenon DEF KeptInv, TypeOK
  <2>2. chan[p][i] \in BlockId
    BY <2>1
  <2>3. /\ at[chan[p][i]] = "done" /\ validatorOf(chan[p][i]) = p[1]
        /\ chan[p][i] \notin added[p[2]]
        /\ p[1] # p[2]
    BY Zenon DEF KeptInv, FreshInv
  <2>4. chan[p][i] # b
    BY <1>1, <2>3, Zenon
  <2> QED
    BY <1>5, <1>6, <2>2, <2>3, <2>4, Zenon
<1>9. FreshInv'
  BY <1>1, <1>7, <1>8 DEF KeptInv, FreshInv
<1> QED
  BY <1>3, <1>4, <1>9, Zenon

\* A validator that receives a block keeps KeptInv.
LEMMA ReceiveKept ==
  ASSUME KeptInv, NEW n \in Node, NEW s \in Node, handleReceivedBlock(n, s)
  PROVE  /\ FreshInv' /\ HighestKept' /\ HeightCountsBlocks'
         /\ \A m \in Node : IsFiniteSet(added'[m])
<1> DEFINE q == chan[<<s, n>>]
           b == Head(q)
<1>1. q \in Seq(BlockId) /\ q # <<>> /\ chan' = [chan EXCEPT ![<<s, n>>] = Tail(q)]
  BY Zenon DEF handleReceivedBlock, KeptInv, TypeOK
<1>2. /\ Len(q) \in Nat \ {0} /\ b = q[1] /\ b \in BlockId
      /\ Len(Tail(q)) = Len(q) - 1
      /\ \A i \in 1..Len(Tail(q)) : Tail(q)[i] = q[i + 1] /\ i + 1 \in 1..Len(q)
  BY <1>1
<1>3. /\ \A i \in 1..Len(q) :
           at[q[i]] = "done" /\ validatorOf(q[i]) = s /\ q[i] \notin added[n] /\ s # n
      /\ \A i, j \in 1..Len(q) : q[i] = q[j] => i = j
  <2>1. <<s, n>> \in Node \X Node /\ <<s, n>>[1] = s /\ <<s, n>>[2] = n
    OBVIOUS
  <2> QED
    BY <2>1 DEF KeptInv, FreshInv
<1>4. UNCHANGED <<at, blockHeight, conn>>
  BY Zenon DEF handleReceivedBlock, creation
<1>5. b \notin added[n] /\ at[b] = "done" /\ validatorOf(b) = s /\ s # n
  BY <1>2, <1>3
<1>6. AddBlock(n, b)
  <2>1. b \notin dag[n]
    BY <1>5, Zenon DEF KeptInv, HighestKept
  <2> QED
    BY <2>1, Zenon DEF handleReceivedBlock
<1> HIDE DEF q, b
<1>7. HeightCountsBlocks' /\ \A m \in Node : IsFiniteSet(added'[m])
  BY <1>2, <1>5, <1>6, AddBlockCounts, Zenon DEF KeptInv
<1>8. HighestKept'
  BY <1>2, <1>4, <1>6, AddBlockKeepsHighest, Zenon DEF KeptInv
<1>9. added'[n] = added[n] \cup {b} /\ \A m \in Node : m # n => added'[m] = added[m]
  <2>1. added' = [added EXCEPT ![n] = @ \cup {b}]
    BY <1>6, Zenon DEF AddBlock
  <2>2. added \in [Node -> SUBSET BlockId]
    BY Zenon DEF KeptInv, TypeOK
  <2> QED
    BY <2>1, <2>2, Zenon
<1>10. \A m \in Node : \A c \in added'[m] :
         at'[c] \in InDag /\ (validatorOf(c) # m => at'[c] = "done")
  BY <1>4, <1>5, <1>9 DEF KeptInv, FreshInv, InDag
<1>11. ASSUME NEW p \in Node \X Node
       PROVE  /\ \A i \in 1..Len(chan'[p]) :
                   /\ at'[chan'[p][i]] = "done" /\ validatorOf(chan'[p][i]) = p[1]
                   /\ chan'[p][i] \notin added'[p[2]]
                   /\ p[1] # p[2]
              /\ \A i, j \in 1..Len(chan'[p]) : chan'[p][i] = chan'[p][j] => i = j
  <2>1. CASE p = <<s, n>>
    <3>1. chan'[p] = Tail(q) /\ p[1] = s /\ p[2] = n
      BY <1>1, <2>1, Zenon DEF KeptInv, TypeOK
    <3>2. ASSUME NEW i \in 1..Len(Tail(q))
          PROVE  /\ at[Tail(q)[i]] = "done" /\ validatorOf(Tail(q)[i]) = s
                 /\ Tail(q)[i] \notin added'[n]
      <4>1. Tail(q)[i] = q[i + 1] /\ i + 1 \in 1..Len(q) /\ i + 1 # 1 /\ 1 \in 1..Len(q)
        BY <1>2
      <4>2. Tail(q)[i] # b
        BY <1>2, <1>3, <4>1, Zenon
      <4>3. /\ at[q[i + 1]] = "done" /\ validatorOf(q[i + 1]) = s
            /\ q[i + 1] \notin added[n]
        BY <1>3, <4>1, Zenon
      <4>4. Tail(q)[i] \notin added'[n]
        BY <1>9, <4>1, <4>2, <4>3, Zenon
      <4> QED
        BY <4>1, <4>3, <4>4, Zenon
    <3>3. \A i, j \in 1..Len(Tail(q)) : Tail(q)[i] = Tail(q)[j] => i = j
      <4> SUFFICES ASSUME NEW i \in 1..Len(Tail(q)), NEW j \in 1..Len(Tail(q)),
                          Tail(q)[i] = Tail(q)[j]
                   PROVE  i = j
        BY Zenon
      <4>1. i + 1 = j + 1
        BY <1>2, <1>3
      <4> QED
        BY <4>1
    <3> QED
      BY <1>4, <1>5, <3>1, <3>2, <3>3, Zenon
  <2>2. CASE p # <<s, n>>
    <3>1. chan'[p] = chan[p]
      BY <1>1, <2>2, Zenon DEF KeptInv, TypeOK
    <3>2. /\ \A i \in 1..Len(chan[p]) :
               /\ at[chan[p][i]] = "done" /\ validatorOf(chan[p][i]) = p[1]
               /\ chan[p][i] \notin added[p[2]]
               /\ p[1] # p[2]
          /\ \A i, j \in 1..Len(chan[p]) : chan[p][i] = chan[p][j] => i = j
      BY Zenon DEF KeptInv, FreshInv
    <3>3. p[2] = n => p[1] # s
      BY <2>2
    <3>4. \A i \in 1..Len(chan[p]) : chan[p][i] \notin added'[p[2]]
      BY <1>5, <1>9, <3>2, <3>3
    <3> QED
      BY <1>4, <3>1, <3>2, <3>4, Zenon
  <2> QED
    BY <2>1, <2>2, Zenon
<1>12. FreshInv'
  BY <1>4, <1>10, <1>11, Zenon DEF KeptInv, FreshInv
<1> QED
  BY <1>7, <1>8, <1>12, Zenon

\* Connecting, losing a connection and restarting keep FreshInv.
LEMMA NetworkFresh ==
  ASSUME KeptInv, NEW n \in Node, NEW d \in Node,
         connectToPeer(n, d) \/ breakConnection(n, d)
  PROVE  FreshInv' /\ UNCHANGED <<at, blockHeight, dag, dagHeight, added>>
<1>1. CASE connectToPeer(n, d)
  <2>1. /\ d \in peers[n] /\ conn' = [conn EXCEPT ![n][d] = "up"]
        /\ UNCHANGED <<at, blockHeight, dag, dagHeight, added, chan>>
    BY <1>1, Zenon DEF connectToPeer, creation, dagState
  <2>2. d # n
    BY <2>1, ConstantTypes, Zenon
  <2>3. \A m \in Node : conn'[m][m] = conn[m][m]
    BY <2>1, <2>2, Zenon DEF KeptInv, TypeOK
  <2> QED
    BY <2>1, <2>3 DEF KeptInv, FreshInv
<1>2. CASE breakConnection(n, d)
  <2>1. PICK k \in 0..Len(chan[<<n, d>>]) :
          chan' = [chan EXCEPT ![<<n, d>>] = SubSeq(@, 1, k)]
    BY <1>2, Zenon DEF breakConnection
  <2>2. /\ conn[n][d] = "up" /\ conn' = [conn EXCEPT ![n][d] = "broken"]
        /\ UNCHANGED <<at, blockHeight, dag, dagHeight, added>>
    BY <1>2, Zenon DEF breakConnection, creation, dagState
  <2>3. d # n
    BY <2>2, Zenon DEF KeptInv, FreshInv
  <2>4. \A m \in Node : conn'[m][m] = conn[m][m]
    BY <2>2, <2>3, Zenon DEF KeptInv, TypeOK
  <2>5. ASSUME NEW p \in Node \X Node
        PROVE  /\ Len(chan'[p]) <= Len(chan[p]) /\ Len(chan'[p]) \in Nat /\ Len(chan[p]) \in Nat
               /\ \A i \in 1..Len(chan'[p]) : chan'[p][i] = chan[p][i]
    <3>1. chan[p] \in Seq(BlockId)
      BY Zenon DEF KeptInv, TypeOK
    <3>2. CASE p = <<n, d>>
      <4>1. chan'[p] = SubSeq(chan[p], 1, k) /\ k \in 0..Len(chan[p])
        BY <2>1, <3>2, Zenon DEF KeptInv, TypeOK
      <4> QED
        BY <3>1, <4>1
    <3>3. CASE p # <<n, d>>
      <4>1. chan'[p] = chan[p]
        BY <2>1, <3>3, Zenon DEF KeptInv, TypeOK
      <4> QED
        BY <3>1, <4>1
    <3> QED
      BY <3>2, <3>3, Zenon
  <2>6. \A p \in Node \X Node : \A i \in 1..Len(chan'[p]) :
          i \in 1..Len(chan[p]) /\ chan'[p][i] = chan[p][i]
    BY <2>5
  <2>7. \A p \in Node \X Node : \A i \in 1..Len(chan'[p]) :
          /\ at[chan'[p][i]] = "done" /\ validatorOf(chan'[p][i]) = p[1]
          /\ chan'[p][i] \notin added[p[2]]
          /\ p[1] # p[2]
    BY <2>6 DEF KeptInv, FreshInv
  <2>8. \A p \in Node \X Node : \A i, j \in 1..Len(chan'[p]) :
          chan'[p][i] = chan'[p][j] => i = j
    BY <2>6 DEF KeptInv, FreshInv
  <2> QED
    BY <2>2, <2>4, <2>7, <2>8 DEF KeptInv, FreshInv
<1> QED
  BY <1>1, <1>2, Zenon

\* A restart empties a DAG and its history, and what was sent to it is lost.
LEMMA RestartKept ==
  ASSUME KeptInv, NEW n \in Node, restart(n)
  PROVE  /\ FreshInv' /\ HighestKept' /\ HeightCountsBlocks'
         /\ \A m \in Node : IsFiniteSet(added'[m])
<1>1. /\ dag'[n] = {} /\ added'[n] = {} /\ dagHeight'[n] = 0
      /\ \A m \in Node : m # n =>
           dag'[m] = dag[m] /\ added'[m] = added[m] /\ dagHeight'[m] = dagHeight[m]
      /\ blockHeight' = blockHeight
  BY Zenon DEF restart, KeptInv, TypeOK
<1>2. \A b \in BlockId : at'[b] = at[b] \/ (validatorOf(b) = n /\ at[b] # "done")
  BY Zenon DEF restart, creating
<1>3. IsFiniteSet({}) /\ Cardinality({}) = 0
  BY FS_EmptySet, Zenon
<1>4. HeightCountsBlocks' /\ \A m \in Node : IsFiniteSet(added'[m])
  BY <1>1, <1>3, Zenon DEF KeptInv, HeightCountsBlocks
<1>5. HighestKept'
  <2> SUFFICES ASSUME NEW m \in Node
               PROVE  /\ dag'[m] \subseteq added'[m]
                      /\ Cardinality(dag'[m]) <= DagCapacity
                      /\ dag'[m] # added'[m] => Cardinality(dag'[m]) = DagCapacity
                      /\ \A a \in added'[m] \ dag'[m], c \in dag'[m] :
                           blockHeight[a] <= blockHeight[c]
    BY <1>1, Zenon DEF HighestKept
  <2>1. CASE m = n
    <3>1. Cardinality(dag'[m]) <= DagCapacity
      <4>1. dag'[m] = {}
        BY <1>1, <2>1, Zenon
      <4>2. Cardinality(dag'[m]) = 0
        BY <1>3, <4>1, Zenon
      <4> QED
        BY <4>2, ConstantTypes
    <3> QED
      BY <1>1, <2>1, <3>1, Zenon
  <2>2. CASE m # n
    BY <1>1, <2>2, Zenon DEF KeptInv, HighestKept
  <2> QED
    BY <2>1, <2>2, Zenon
<1>6. \A m \in Node : \A b \in added'[m] :
        at'[b] \in InDag /\ (validatorOf(b) # m => at'[b] = "done")
  <2> SUFFICES ASSUME NEW m \in Node, NEW b \in added'[m]
               PROVE  at'[b] \in InDag /\ (validatorOf(b) # m => at'[b] = "done")
    BY Zenon
  <2>1. m # n /\ b \in added[m]
    BY <1>1, Zenon
  <2>2. b \in BlockId /\ at[b] \in InDag /\ (validatorOf(b) # m => at[b] = "done")
    BY <2>1 DEF KeptInv, TypeOK, FreshInv
  <2> QED
    BY <1>2, <2>1, <2>2, Zenon
<1>7. \A p \in Node \X Node : chan'[p] = IF p[2] = n THEN <<>> ELSE chan[p]
  BY Zenon DEF restart
<1>8. ASSUME NEW p \in Node \X Node
      PROVE  /\ \A i \in 1..Len(chan'[p]) :
                  /\ at'[chan'[p][i]] = "done" /\ validatorOf(chan'[p][i]) = p[1]
                  /\ chan'[p][i] \notin added'[p[2]]
                  /\ p[1] # p[2]
             /\ \A i, j \in 1..Len(chan'[p]) : chan'[p][i] = chan'[p][j] => i = j
  <2>1. CASE p[2] = n
    <3>1. chan'[p] = <<>>
      BY <1>7, <2>1, Zenon
    <3>2. 1..Len(chan'[p]) = {}
      BY <3>1
    <3> QED
      BY <3>2, Zenon
  <2>2. CASE p[2] # n
    <3>1. chan'[p] = chan[p] /\ chan[p] \in Seq(BlockId) /\ added'[p[2]] = added[p[2]]
      BY <1>1, <1>7, <2>2, Zenon DEF KeptInv, TypeOK
    <3>2. /\ \A i \in 1..Len(chan[p]) :
               /\ at[chan[p][i]] = "done" /\ validatorOf(chan[p][i]) = p[1]
               /\ chan[p][i] \notin added[p[2]]
               /\ p[1] # p[2]
          /\ \A i, j \in 1..Len(chan[p]) : chan[p][i] = chan[p][j] => i = j
      BY Zenon DEF KeptInv, FreshInv
    <3>3. \A i \in 1..Len(chan[p]) : chan[p][i] \in BlockId
      BY <3>1
    <3>4. \A i \in 1..Len(chan[p]) : at'[chan[p][i]] = "done"
      BY <1>2, <3>2, <3>3, Zenon
    <3> QED
      BY <3>1, <3>2, <3>4, Zenon
  <2> QED
    BY <2>1, <2>2, Zenon
<1>9. \A m \in Node : conn'[m][m] = "none"
  BY Zenon DEF restart, KeptInv, FreshInv
<1> QED
  BY <1>4, <1>5, <1>6, <1>8, <1>9, Zenon DEF FreshInv

\* Steps that leave the DAGs alone change no height of a block that was added.
LEMMA QuietKept ==
  ASSUME KeptInv, [Next]_vars, \A n \in Node : ~restart(n),
         UNCHANGED <<dag, dagHeight, added>>
  PROVE  /\ HighestKept' /\ HeightCountsBlocks'
         /\ \A m \in Node : IsFiniteSet(added'[m])
         /\ UNCHANGED <<chan, conn>> => FreshInv'
<1>1. \A b \in BlockId : at[b] \in InDag =>
        /\ at'[b] \in InDag /\ (at[b] = "done" => at'[b] = "done")
        /\ blockHeight'[b] = blockHeight[b]
  BY InDagStable, BlockIdParts, Zenon DEF KeptInv, StaysInDag
<1>2. \A n \in Node : \A b \in added[n] : blockHeight'[b] = blockHeight[b]
  BY <1>1, Zenon DEF KeptInv, FreshInv, TypeOK
<1>3. HighestKept'
  BY <1>2 DEF KeptInv, HighestKept
<1>4. HeightCountsBlocks'
  BY Zenon DEF KeptInv, HeightCountsBlocks
<1>5. UNCHANGED <<chan, conn>> => FreshInv'
  BY <1>1, FreshElsewhere, Zenon DEF KeptInv
<1> QED
  BY <1>3, <1>4, <1>5, Zenon DEF KeptInv

\* KeptInv is inductive.
LEMMA KeptStep == KeptInv /\ [Next]_vars => KeptInv'
<1> SUFFICES ASSUME KeptInv, [Next]_vars PROVE KeptInv'
  BY Zenon
<1>0. TypeOK' /\ CreationInv'
  BY NextType, CreationStep, Zenon DEF KeptInv
<1>1. CASE \E n \in Node : restart(n)
  BY <1>0, <1>1, RestartKept, Zenon DEF KeptInv
<1>2. CASE \E b \in BlockId : addOwnBlock(b)
  BY <1>0, <1>2, AddOwnKept, Zenon DEF KeptInv
<1>3. CASE \E n, s \in Node : handleReceivedBlock(n, s)
  BY <1>0, <1>3, ReceiveKept, Zenon DEF KeptInv
<1>4. CASE /\ \A n \in Node : ~restart(n)
           /\ FreshInv' /\ UNCHANGED <<dag, dagHeight, added>>
  BY <1>0, <1>4, QuietKept, Zenon DEF KeptInv
<1>5. CASE /\ \A n \in Node : ~restart(n)
           /\ UNCHANGED <<chan, conn, dag, dagHeight, added>>
  BY <1>0, <1>5, QuietKept, Zenon DEF KeptInv
<1>6. CASE \A n \in Node : ~restart(n)
  <2>1. ASSUME NEW n \in Node, advanceRound(n) PROVE KeptInv'
    BY <1>5, <1>6, <2>1, Zenon DEF advanceRound, dagState, network
  <2>2. ASSUME NEW b \in BlockId, createRoundBlock(b) PROVE KeptInv'
    <3>1. CASE readRoundBlocks(b)
      BY <1>5, <1>6, <3>1, Zenon DEF readRoundBlocks, dagState, network
    <3>2. CASE readDagBlocks(b)
      BY <1>5, <1>6, <3>2, Zenon DEF readDagBlocks, dagState, network
    <3>3. CASE fillBlock(b)
      BY <1>5, <1>6, <3>3, Zenon DEF fillBlock, dagState, network
    <3>4. CASE trackOwnBlock(b)
      <4>1. UNCHANGED <<chan, conn, dag, dagHeight, added>>
        BY <3>4, Zenon DEF trackOwnBlock, dagState, network
      <4> QED
        BY <1>5, <1>6, <4>1, Zenon
    <3>5. CASE broadcastBlock(b)
      <4>1. FreshInv'
        BY <3>5, BroadcastFresh, Zenon DEF KeptInv
      <4>2. UNCHANGED <<dag, dagHeight, added>>
        BY <3>5, Zenon DEF broadcastBlock, dagState
      <4> QED
        BY <1>4, <1>6, <4>1, <4>2, Zenon
    <3> QED
      BY <1>2, <2>2, <3>1, <3>2, <3>3, <3>4, <3>5, Zenon DEF createRoundBlock
  <2>3. ASSUME NEW n \in Node, NEW s \in Node, trackReceivedBlock(n, s) PROVE KeptInv'
    BY <1>5, <1>6, <2>3, Zenon DEF trackReceivedBlock, dagState, network
  <2>4. ASSUME NEW n \in Node, NEW s \in Node,
               connectToPeer(n, s) \/ breakConnection(n, s)
        PROVE  KeptInv'
    BY <1>4, <1>6, <2>4, NetworkFresh, Zenon
  <2>5. ASSUME NEW n \in Node, NEW tx \in Tx, AddPendingTransaction(n, tx) PROVE KeptInv'
    BY <1>5, <1>6, <2>5, Zenon DEF AddPendingTransaction, dagState, network
  <2>6. CASE UNCHANGED vars
    BY <1>5, <1>6, <2>6, Zenon DEF vars, dagState, network
  <2> QED
    BY <1>3, <1>6, <2>1, <2>2, <2>3, <2>4, <2>5, <2>6, Zenon DEF Next
<1> QED
  BY <1>1, <1>6, Zenon

\* KeptInv holds at the start.
LEMMA KeptInit == Init => KeptInv
<1> SUFFICES ASSUME Init PROVE KeptInv
  OBVIOUS
<1>1. TypeOK /\ CreationInv
  BY InitType, TxInit, Zenon DEF TxInv
<1>2. IsFiniteSet({}) /\ Cardinality({}) = 0
  BY FS_EmptySet, Zenon
<1>3. \A n \in Node : dag[n] = {} /\ added[n] = {} /\ dagHeight[n] = 0
  BY Zenon DEF Init
<1>4. HighestKept /\ HeightCountsBlocks /\ \A n \in Node : IsFiniteSet(added[n])
  <2>1. 0 <= DagCapacity
    BY ConstantTypes
  <2>2. \A n \in Node : Cardinality(dag[n]) <= DagCapacity
    BY <1>2, <1>3, <2>1, Zenon
  <2> QED
    BY <1>2, <1>3, <2>2, Zenon DEF HighestKept, HeightCountsBlocks
<1>5. \A p \in Node \X Node : 1..Len(chan[p]) = {}
  <2>1. chan = [p \in Node \X Node |-> <<>>]
    BY Zenon DEF Init
  <2> QED
    BY <2>1
<1>6. \A n \in Node : conn[n][n] = "none"
  <2>1. conn = [n \in Node |-> [d \in Node |-> "none"]]
    BY Zenon DEF Init
  <2> QED
    BY <2>1, Zenon
<1>7. FreshInv
  BY <1>3, <1>5, <1>6, Zenon DEF FreshInv
<1> QED
  BY <1>1, <1>4, <1>7, Zenon DEF KeptInv

\* AddBlock and cleanupOldBlocks: whatever the capacity and the order in which
\* blocks come, the DAG holds the highest of all blocks added to it.
THEOREM HighestAlwaysKept == Spec => []HighestKept
<1>1. KeptInv => HighestKept
  BY DEF KeptInv
<1> QED
  BY <1>1, KeptInit, KeptStep, PTL DEF Spec

\* handleReceivedBlock adds no block twice, although it looks for the block
\* only in the DAG, from which it may have been removed.
THEOREM HeightAlwaysCountsBlocks == Spec => []HeightCountsBlocks
<1>1. KeptInv => HeightCountsBlocks
  BY DEF KeptInv
<1> QED
  BY <1>1, KeptInit, KeptStep, PTL DEF Spec

-----------------------------------------------------------------------------
(* References *)

\* What is tracked by round, in the DAG or about to be tracked was added.
TrackedAdded ==
  /\ \A n \in Node, r \in RoundNo : \A c \in roundBlocks[n][r] : c \in added[n] /\ roundOf(c) = r
  /\ \A n \in Node : dag[n] \subseteq added[n]
  /\ \A p \in Node \X Node : tracking[p] # None => tracking[p] \in added[p[2]]
  /\ \A b \in BlockId : at[b] = "track" => b \in added[validatorOf(b)]

UnstartedHasNone == \A b \in BlockId : at[b] = "idle" => references[b] = {}

HeldInv == TypeOK /\ CreationInv /\ TrackedAdded /\ UnstartedHasNone /\ ReferencesHeld

\* AddBlock adds to the history of one DAG and takes nothing from any.
LEMMA AddBlockGrows ==
  ASSUME TypeOK, NEW n \in Node, NEW b \in BlockId, AddBlock(n, b),
         \A m \in Node : dag[m] \subseteq added[m]
  PROVE  /\ added'[n] = added[n] \cup {b}
         /\ \A m \in Node : added[m] \subseteq added'[m]
         /\ \A m \in Node : dag'[m] \subseteq added'[m]
<1>1. PICK K \in cleanupOldBlocks(dag[n] \cup {b}) : dag' = [dag EXCEPT ![n] = K]
  BY Zenon DEF AddBlock
<1>2. added' = [added EXCEPT ![n] = @ \cup {b}]
  BY DEF AddBlock
<1>3. K \subseteq dag[n] \cup {b}
  BY <1>1, CleanupRemoves, Zenon
<1>4. added'[n] = added[n] \cup {b} /\ \A m \in Node : m # n => added'[m] = added[m]
  BY <1>2, Zenon DEF TypeOK
<1>5. dag'[n] = K /\ \A m \in Node : m # n => dag'[m] = dag[m]
  BY <1>1, Zenon DEF TypeOK
<1> QED
  BY <1>3, <1>4, <1>5

\* Steps that only add to the histories and leave references alone keep
\* ReferencesHeld.
LEMMA GrowingKeepsHeld ==
  ASSUME ReferencesHeld, UNCHANGED <<references, life>>,
         \A m \in Node : added[m] \subseteq added'[m]
  PROVE  ReferencesHeld'
<1> SUFFICES ASSUME NEW b \in BlockId, lifeOf(b) = life[validatorOf(b)], NEW c \in references[b]
             PROVE  roundOf(c) = roundOf(b) - 1 /\ c \in added'[validatorOf(b)]
  BY Zenon DEF ReferencesHeld
<1> QED
  BY BlockIdParts, Zenon DEF ReferencesHeld

\* The sections of createRoundBlock keep HeldInv.
LEMMA CreateHeld ==
  ASSUME HeldInv, NEW b \in BlockId, createRoundBlock(b)
  PROVE  TrackedAdded' /\ UnstartedHasNone' /\ ReferencesHeld'
<1> DEFINE n == validatorOf(b)
<1> USE DEF HeldInv
<1>b. n \in Node /\ roundOf(b) \in RoundNo
  BY BlockIdParts
<1>1. CASE readRoundBlocks(b)
  <2>1. /\ at' = [at EXCEPT ![b] = "readDag"]
        /\ UNCHANGED <<dag, added, roundBlocks, tracking, life>>
    BY <1>1, Zenon DEF readRoundBlocks, dagState
  <2>2. at'[b] = "readDag" /\ \A c \in BlockId : c # b => at'[c] = at[c]
    BY <2>1, Zenon DEF TypeOK
  <2>3. /\ references'[b] = (IF roundOf(b) = 1 THEN {} ELSE roundBlocks[n][roundOf(b) - 1])
        /\ \A c \in BlockId : c # b => references'[c] = references[c]
    BY <1>1, Zenon DEF readRoundBlocks, TypeOK
  <2>4. roundOf(b) # 1 => roundOf(b) - 1 \in RoundNo
    BY <1>b, ConstantTypes DEF RoundNo
  <2>5. \A c \in references'[b] : roundOf(c) = roundOf(b) - 1 /\ c \in added[n]
    BY <1>b, <2>3, <2>4 DEF TrackedAdded
  <2>6. ReferencesHeld'
    BY <2>1, <2>3, <2>5, Zenon DEF ReferencesHeld
  <2>7. TrackedAdded'
    BY <2>1, <2>2, Zenon DEF TrackedAdded
  <2>8. UnstartedHasNone'
    BY <2>2, <2>3, Zenon DEF UnstartedHasNone
  <2> QED
    BY <2>6, <2>7, <2>8, Zenon
<1>2. CASE readDagBlocks(b)
  <2>1. /\ at[b] = "readDag" /\ at' = [at EXCEPT ![b] = "fill"]
        /\ UNCHANGED <<dag, added, roundBlocks, tracking, life>>
    BY <1>2, Zenon DEF readDagBlocks, dagState
  <2>2. at'[b] = "fill" /\ \A c \in BlockId : c # b => at'[c] = at[c]
    BY <2>1, Zenon DEF TypeOK
  <2>3. /\ references'[b] = references[b] \cup dagBlocksBefore(b)
        /\ \A c \in BlockId : c # b => references'[c] = references[c]
    BY <1>2, Zenon DEF readDagBlocks, TypeOK
  <2>4. lifeOf(b) = life[n]
    BY <2>1, Zenon DEF CreationInv
  <2>5. \A c \in references'[b] : roundOf(c) = roundOf(b) - 1 /\ c \in added[n]
    BY <1>b, <2>3, <2>4, Zenon DEF TrackedAdded, ReferencesHeld, dagBlocksBefore
  <2>6. ReferencesHeld'
    BY <2>1, <2>3, <2>5, Zenon DEF ReferencesHeld
  <2>7. TrackedAdded'
    BY <2>1, <2>2, Zenon DEF TrackedAdded
  <2>8. UnstartedHasNone'
    BY <2>2, <2>3, Zenon DEF UnstartedHasNone
  <2> QED
    BY <2>6, <2>7, <2>8
<1>3. CASE fillBlock(b)
  <2>1. /\ at' = [at EXCEPT ![b] = "addBlock"]
        /\ UNCHANGED <<references, dag, added, roundBlocks, tracking, life>>
    BY <1>3, Zenon DEF fillBlock, dagState
  <2>2. at'[b] = "addBlock" /\ \A c \in BlockId : c # b => at'[c] = at[c]
    BY <2>1, Zenon DEF TypeOK
  <2> QED
    BY <2>1, <2>2, GrowingKeepsHeld DEF TrackedAdded, UnstartedHasNone
<1>4. CASE addOwnBlock(b)
  <2>1. /\ AddBlock(n, b) /\ at' = [at EXCEPT ![b] = "track"]
        /\ UNCHANGED <<references, roundBlocks, tracking, life>>
    BY <1>4, Zenon DEF addOwnBlock
  <2>2. at'[b] = "track" /\ \A c \in BlockId : c # b => at'[c] = at[c]
    BY <2>1, Zenon DEF TypeOK
  <2>3. /\ added'[n] = added[n] \cup {b}
        /\ \A m \in Node : added[m] \subseteq added'[m]
        /\ \A m \in Node : dag'[m] \subseteq added'[m]
    BY <1>b, <2>1, AddBlockGrows, Zenon DEF TrackedAdded
  <2>4. TrackedAdded'
    <3>1. \A m \in Node, r \in RoundNo : \A c \in roundBlocks'[m][r] : c \in added'[m] /\ roundOf(c) = r
      BY <2>1, <2>3, Zenon DEF TrackedAdded
    <3>2. \A p \in Node \X Node : tracking'[p] # None => tracking'[p] \in added'[p[2]]
      <4>1. \A p \in Node \X Node : p[2] \in Node
        BY SMT
      <4> QED BY <4>1, <2>1, <2>3, Zenon DEF TrackedAdded
    <3>3. ASSUME NEW c \in BlockId, at'[c] = "track"
          PROVE  c \in added'[validatorOf(c)]
      <4>1. CASE c = b
        BY <4>1, <2>3, <1>b, Zenon
      <4>2. CASE c # b
        <5>1. c \in added[validatorOf(c)]
          BY <4>2, <3>3, <2>2, Zenon DEF TrackedAdded
        <5> QED BY <5>1, <2>3, BlockIdParts, Zenon
      <4> QED BY <4>1, <4>2, Zenon
    <3> QED BY <3>1, <3>2, <3>3, <2>3, Zenon DEF TrackedAdded
  <2> QED
    BY <2>1, <2>2, <2>3, <2>4, GrowingKeepsHeld, Zenon DEF UnstartedHasNone
<1>5. CASE trackOwnBlock(b)
  <2>1. /\ at[b] = "track" /\ at' = [at EXCEPT ![b] = "broadcast"]
        /\ UNCHANGED <<references, dag, added, tracking, life>>
    BY <1>5, Zenon DEF trackOwnBlock, dagState
  <2>2. at'[b] = "broadcast" /\ \A c \in BlockId : c # b => at'[c] = at[c]
    BY <2>1, Zenon DEF TypeOK
  <2>3. /\ \A r \in RoundNo : \A c \in roundBlocks'[n][r] :
             c \in roundBlocks[n][r] \/ (c = b /\ r = roundOf(b))
        /\ \A m \in Node : m # n => roundBlocks'[m] = roundBlocks[m]
    BY <1>5, <1>b, Zenon DEF trackOwnBlock, TypeOK
  <2>4. b \in added[n]
    BY <2>1, Zenon DEF TrackedAdded
  <2>5. TrackedAdded'
    BY <2>1, <2>2, <2>3, <2>4, ZenonT(40) DEF TrackedAdded
  <2> QED
    BY <2>1, <2>2, <2>5, GrowingKeepsHeld, Zenon DEF UnstartedHasNone
<1>6. CASE broadcastBlock(b)
  <2>1. /\ at' = [at EXCEPT ![b] = "done"]
        /\ UNCHANGED <<references, dag, added, roundBlocks, tracking, life>>
    BY <1>6, Zenon DEF broadcastBlock, dagState
  <2>2. at'[b] = "done" /\ \A c \in BlockId : c # b => at'[c] = at[c]
    BY <2>1, Zenon DEF TypeOK
  <2> QED
    BY <2>1, <2>2, GrowingKeepsHeld DEF TrackedAdded, UnstartedHasNone
<1> QED
  BY <1>1, <1>2, <1>3, <1>4, <1>5, <1>6, Zenon DEF createRoundBlock

\* Receiving a block and tracking it keep HeldInv.
LEMMA ReceiveHeld ==
  ASSUME HeldInv, NEW n \in Node, NEW s \in Node,
         handleReceivedBlock(n, s) \/ trackReceivedBlock(n, s)
  PROVE  TrackedAdded' /\ UnstartedHasNone' /\ ReferencesHeld'
<1> USE DEF HeldInv
<1>1. CASE handleReceivedBlock(n, s)
  <2> DEFINE b == Head(chan[<<s, n>>])
  <2>1. UNCHANGED <<at, references, roundBlocks, life>>
    BY <1>1, Zenon DEF handleReceivedBlock, creation
  <2>2. b \in BlockId
    <3>1. chan[<<s, n>>] \in Seq(BlockId) /\ chan[<<s, n>>] # <<>>
      BY <1>1, Zenon DEF handleReceivedBlock, TypeOK
    <3> QED
      BY <3>1
  <2>3. CASE b \in dag[n]
    <3>1. UNCHANGED <<dag, added, tracking>>
      BY <1>1, <2>3, Zenon DEF handleReceivedBlock, dagState
    <3> HIDE DEF b
    <3> QED
      BY <2>1, <3>1, GrowingKeepsHeld DEF TrackedAdded, UnstartedHasNone
  <2>4. CASE b \notin dag[n]
    <3>1. AddBlock(n, b) /\ tracking' = [tracking EXCEPT ![<<s, n>>] = b]
      BY <1>1, <2>4, Zenon DEF handleReceivedBlock
    <3> HIDE DEF b
    <3>2. /\ added'[n] = added[n] \cup {b}
          /\ \A m \in Node : added[m] \subseteq added'[m]
          /\ \A m \in Node : dag'[m] \subseteq added'[m]
      BY <2>2, <3>1, AddBlockGrows, Zenon DEF TrackedAdded
    <3>3. \A p \in Node \X Node : tracking'[p] # None => tracking'[p] \in added'[p[2]]
      <4> SUFFICES ASSUME NEW p \in Node \X Node, tracking'[p] # None
                   PROVE  tracking'[p] \in added'[p[2]]
        BY Zenon
      <4>1. CASE p = <<s, n>>
        BY <3>1, <3>2, <4>1, Zenon DEF TypeOK
      <4>2. CASE p # <<s, n>>
        <5>1. tracking'[p] = tracking[p] /\ p[2] \in Node
          BY <3>1, <4>2, Zenon DEF TypeOK
        <5> QED
          BY <3>2, <5>1, Zenon DEF TrackedAdded
      <4> QED
        BY <4>1, <4>2, Zenon
    <3>4. TrackedAdded'
      BY <2>1, <3>2, <3>3, BlockIdParts, Zenon DEF TrackedAdded
    <3> QED
      BY <2>1, <3>2, <3>4, GrowingKeepsHeld, Zenon DEF UnstartedHasNone
  <2> QED
    BY <2>3, <2>4, Zenon
<1>2. CASE trackReceivedBlock(n, s)
  <2> DEFINE b == tracking[<<s, n>>]
  <2>1. /\ b # None
        /\ roundBlocks' = [roundBlocks EXCEPT ![n][roundOf(b)] = @ \cup {b}]
        /\ tracking' = [tracking EXCEPT ![<<s, n>>] = None]
        /\ UNCHANGED <<at, references, dag, added, life>>
    BY <1>2, Zenon DEF trackReceivedBlock, creation, dagState
  <2>2. b \in BlockId /\ b \in added[n]
    <3>1. <<s, n>> \in Node \X Node /\ <<s, n>>[2] = n
      BY Zenon
    <3> QED
      BY <2>1, <3>1, Zenon DEF TypeOK, TrackedAdded
  <2>3. roundOf(b) \in RoundNo
    BY <2>2, BlockIdParts, Zenon
  <2> HIDE DEF b
  <2>4. \A m \in Node, r \in RoundNo : \A c \in roundBlocks'[m][r] :
          c \in roundBlocks[m][r] \/ (m = n /\ c = b /\ r = roundOf(b))
    BY <2>1, <2>3, Zenon DEF TypeOK
  <2>5. \A p \in Node \X Node : tracking'[p] # None => tracking'[p] = tracking[p]
    BY <2>1, Zenon DEF TypeOK
  <2>6. TrackedAdded'
    BY <2>1, <2>2, <2>4, <2>5 DEF TrackedAdded
  <2> QED
    BY <2>1, <2>6, GrowingKeepsHeld, Zenon DEF UnstartedHasNone
<1> QED
  BY <1>1, <1>2, Zenon

\* After a restart nothing is held, and the blocks of the new life have not
\* been started.
LEMMA RestartHeld ==
  ASSUME HeldInv, NEW n \in Node, restart(n)
  PROVE  TrackedAdded' /\ UnstartedHasNone' /\ ReferencesHeld'
<1> USE DEF HeldInv
<1>1. /\ dag'[n] = {} /\ added'[n] = {} /\ roundBlocks'[n] = [r \in RoundNo |-> {}]
      /\ \A m \in Node : m # n => /\ dag'[m] = dag[m] /\ added'[m] = added[m]
                                  /\ roundBlocks'[m] = roundBlocks[m] /\ life'[m] = life[m]
      /\ life'[n] = life[n] + 1
      /\ references' = references
  BY DEF restart, TypeOK
<1>2. \A b \in BlockId : at'[b] = IF b \in creating(n) THEN "killed" ELSE at[b]
  BY Zenon DEF restart
<1>3. \A b \in BlockId : at'[b] = "idle" => at[b] = "idle"
  BY <1>2
<1>4. \A b \in BlockId : at'[b] = "track" => at[b] = "track" /\ validatorOf(b) # n
  BY <1>2, Zenon DEF creating
<1>5. \A p \in Node \X Node : tracking'[p] # None => tracking'[p] = tracking[p] /\ p[2] # n
  BY Zenon DEF restart
<1>6. TrackedAdded'
  <2>1. ASSUME NEW m \in Node, NEW r \in RoundNo, NEW c \in roundBlocks'[m][r]
        PROVE  c \in added'[m] /\ roundOf(c) = r
    <3>1. m # n
      BY <1>1, Zenon
    <3>2. c \in roundBlocks[m][r] /\ added'[m] = added[m]
      BY <1>1, <3>1, Zenon
    <3> QED
      BY <3>2, Zenon DEF TrackedAdded
  <2>2. \A m \in Node : dag'[m] \subseteq added'[m]
    BY <1>1, ZenonT(40) DEF TrackedAdded
  <2>3. \A p \in Node \X Node : tracking'[p] # None => tracking'[p] \in added'[p[2]]
    BY <1>1, <1>5 DEF TrackedAdded
  <2>4. \A b \in BlockId : at'[b] = "track" => b \in added'[validatorOf(b)]
    BY <1>1, <1>4, BlockIdParts, Zenon DEF TrackedAdded
  <2> QED
    BY <2>1, <2>2, <2>3, <2>4, Zenon DEF TrackedAdded
<1>7. ReferencesHeld'
  <2> SUFFICES ASSUME NEW b \in BlockId, lifeOf(b) = life'[validatorOf(b)],
                      NEW c \in references[b]
               PROVE  roundOf(c) = roundOf(b) - 1 /\ c \in added'[validatorOf(b)]
    BY <1>1, Zenon DEF ReferencesHeld
  <2>1. validatorOf(b) \in Node
    BY BlockIdParts, Zenon
  <2>2. CASE validatorOf(b) = n
    <3>1. life[n] \in Nat
      BY ConstantTypes DEF TypeOK
    <3>2. lifeOf(b) > life[validatorOf(b)]
      BY <1>1, <2>2, <3>1
    <3>3. references[b] = {}
      BY <3>2, Zenon DEF CreationInv, UnstartedHasNone
    <3> QED
      BY <3>3, Zenon
  <2>3. CASE validatorOf(b) # n
    BY <1>1, <2>1, <2>3, Zenon DEF ReferencesHeld
  <2> QED
    BY <2>2, <2>3, Zenon
<1> QED
  BY <1>1, <1>3, <1>6, <1>7, ZenonT(40) DEF UnstartedHasNone

\* HeldInv is inductive.
LEMMA HeldStep == HeldInv /\ [Next]_vars => HeldInv'
<1> SUFFICES ASSUME HeldInv, [Next]_vars PROVE HeldInv'
  BY Zenon
<1>0. TypeOK' /\ CreationInv'
  BY NextType, CreationStep, Zenon DEF HeldInv
<1>1. CASE UNCHANGED <<at, references, dag, added, roundBlocks, tracking, life>>
  <2>1. TrackedAdded' /\ UnstartedHasNone' /\ ReferencesHeld'
    BY <1>1 DEF HeldInv, TrackedAdded, UnstartedHasNone, ReferencesHeld
  <2> QED
    BY <1>0, <2>1, Zenon DEF HeldInv
<1>2. ASSUME NEW n \in Node, advanceRound(n) PROVE HeldInv'
  <2> DEFINE c == <<n, currentRound[n] + 1, life[n]>>
  <2>1. c \in BlockId /\ at[c] = "idle" /\ at' = [at EXCEPT ![c] = "readRounds"]
    BY <1>2, AdvanceMoves, Zenon DEF HeldInv
  <2>2. UNCHANGED <<references, dag, added, roundBlocks, tracking, life>>
    BY <1>2, Zenon DEF advanceRound, dagState
  <2> HIDE DEF c
  <2>3. at'[c] = "readRounds" /\ \A b \in BlockId : b # c => at'[b] = at[b]
    BY <2>1, Zenon DEF HeldInv, TypeOK
  <2>4. TrackedAdded' /\ UnstartedHasNone' /\ ReferencesHeld'
    BY <2>2, <2>3 DEF HeldInv, TrackedAdded, UnstartedHasNone, ReferencesHeld
  <2> QED
    BY <1>0, <2>4, Zenon DEF HeldInv
<1>3. ASSUME NEW b \in BlockId, createRoundBlock(b) PROVE HeldInv'
  BY <1>0, <1>3, CreateHeld, Zenon DEF HeldInv
<1>4. ASSUME NEW n \in Node, NEW s \in Node,
             handleReceivedBlock(n, s) \/ trackReceivedBlock(n, s) PROVE HeldInv'
  BY <1>0, <1>4, ReceiveHeld, Zenon DEF HeldInv
<1>5. ASSUME NEW n \in Node, restart(n) PROVE HeldInv'
  BY <1>0, <1>5, RestartHeld, Zenon DEF HeldInv
<1>6. ASSUME NEW n \in Node, NEW s \in Node,
             \/ connectToPeer(n, s) \/ breakConnection(n, s)
             \/ \E tx \in Tx : AddPendingTransaction(n, tx)
             \/ UNCHANGED vars
      PROVE  HeldInv'
  BY <1>1, <1>6, Zenon DEF connectToPeer, breakConnection, AddPendingTransaction, vars, creation,
                    dagState
<1>7. CASE UNCHANGED vars
  BY <1>1, <1>7, Zenon DEF vars, creation, dagState
<1> QED
  BY <1>2, <1>3, <1>4, <1>5, <1>6, <1>7, Zenon DEF Next

\* getPreviousRoundReferences makes references only to blocks of the round
\* before that the creator has or had in its DAG.
THEOREM ReferencesAlwaysHeld == Spec => []ReferencesHeld
<1>1. Init => HeldInv
  <2> SUFFICES ASSUME Init PROVE HeldInv
    OBVIOUS
  <2>1. TypeOK /\ CreationInv
    BY InitType, TxInit, Zenon DEF TxInv
  <2>2. TrackedAdded /\ UnstartedHasNone /\ ReferencesHeld
    BY DEF Init, TrackedAdded, UnstartedHasNone, ReferencesHeld
  <2> QED
    BY <2>1, <2>2, ZenonT(40) DEF HeldInv
<1>2. HeldInv => ReferencesHeld
  BY DEF HeldInv
<1> QED
  BY <1>1, <1>2, HeldStep, PTL DEF Spec

-----------------------------------------------------------------------------
(* References to one's own blocks *)

\* createRoundBlock has been started for every round up to the current one.
StartedInv ==
  \A b \in BlockId :
    lifeOf(b) = life[validatorOf(b)] /\ roundOf(b) <= currentRound[validatorOf(b)]
      => at[b] \notin {"idle", "killed"}

\* When creations do not overlap, one starts when that of the round before is done.
TurnInv ==
  MaxOverlap = 1 =>
    \A b \in BlockId :
      lifeOf(b) = life[validatorOf(b)] /\ roundOf(b) > 1 /\ at[b] # "idle"
        => at[previousOwn(b)] = "done"

OwnInv == KeptInv /\ StartedInv /\ TurnInv /\ OwnBlockReferenced

\* The block of the round before.
LEMMA PreviousOwnParts ==
  ASSUME NEW b \in BlockId, roundOf(b) > 1
  PROVE  /\ previousOwn(b) \in BlockId /\ previousOwn(b) # b
         /\ validatorOf(previousOwn(b)) = validatorOf(b) /\ lifeOf(previousOwn(b)) = lifeOf(b)
         /\ roundOf(previousOwn(b)) = roundOf(b) - 1
<1>1. validatorOf(b) \in Node /\ roundOf(b) \in RoundNo /\ lifeOf(b) \in 0..MaxRestarts
  BY BlockIdParts
<1>2. roundOf(b) - 1 \in RoundNo /\ roundOf(b) - 1 # roundOf(b)
  BY <1>1, ConstantTypes DEF RoundNo
<1>3. /\ previousOwn(b) \in BlockId /\ validatorOf(previousOwn(b)) = validatorOf(b)
      /\ lifeOf(previousOwn(b)) = lifeOf(b) /\ roundOf(previousOwn(b)) = roundOf(b) - 1
  BY <1>1, <1>2 DEF previousOwn, BlockId, validatorOf, roundOf, lifeOf
<1> QED
  BY <1>2, <1>3, Zenon

\* When one creation may run at a time, a new one starts when none does.
LEMMA NoneCreating ==
  ASSUME TypeOK, CreationInv, MaxOverlap = 1, NEW n \in Node, advanceRound(n)
  PROVE  creating(n) = {}
<1>1. PICK f : f = [r \in RoundNo |-> <<n, r, life[n]>>]
  BY Zenon
<1>2. PICK T : T = {f[r] : r \in RoundNo}
  BY Zenon
<1>3. IsFiniteSet(T)
  <2>1. IsFiniteSet(RoundNo)
    BY ConstantTypes, FS_Interval DEF RoundNo
  <2>2. f \in Surjection(RoundNo, T)
    BY <1>1, <1>2, Zenon DEF Surjection
  <2> QED
    BY <2>1, <2>2, FS_Surjection, Zenon
<1>4. creating(n) \subseteq T
  <2> SUFFICES ASSUME NEW b \in creating(n) PROVE b \in T
    BY Zenon
  <2>1. /\ b \in BlockId /\ validatorOf(b) = n
        /\ at[b] \notin {"idle", "done", "killed"}
    BY Zenon DEF creating
  <2>2. lifeOf(b) = life[n] /\ roundOf(b) \in RoundNo
    BY <2>1, BlockIdParts, Zenon DEF CreationInv
  <2>3. b = <<n, roundOf(b), life[n]>>
    BY <2>1, <2>2 DEF BlockId, validatorOf, roundOf, lifeOf
  <2> QED
    BY <1>1, <1>2, <2>2, <2>3, Zenon
<1>5. IsFiniteSet(creating(n))
  BY <1>3, <1>4, FS_Subset, Zenon
<1>6. Cardinality(creating(n)) < 1
  BY Zenon DEF advanceRound
<1>7. Cardinality(creating(n)) = 0
  BY <1>5, <1>6, FS_CardinalityType
<1> QED
  BY <1>5, <1>7, FS_EmptySet, Zenon

\* advanceRound starts the creation of one block when the one before is done.
LEMMA AdvanceOwn ==
  ASSUME OwnInv, NEW n \in Node, advanceRound(n)
  PROVE  StartedInv' /\ TurnInv' /\ OwnBlockReferenced'
<1>1. TypeOK /\ CreationInv /\ StartedInv /\ TurnInv /\ OwnBlockReferenced
  BY Zenon DEF OwnInv, KeptInv
<1>2. PICK r : r = currentRound[n] + 1
  BY Zenon
<1>3. PICK c : c = <<n, r, life[n]>>
  BY Zenon
<1>4. /\ c \in BlockId /\ at[c] = "idle" /\ at' = [at EXCEPT ![c] = "readRounds"]
      /\ currentRound' = [currentRound EXCEPT ![n] = r]
      /\ UNCHANGED <<references, life>>
  BY <1>1, <1>2, <1>3, AdvanceMoves, Zenon
<1>5. validatorOf(c) = n /\ roundOf(c) = r /\ lifeOf(c) = life[n]
  BY <1>3, Zenon DEF validatorOf, roundOf, lifeOf
<1>6. at'[c] = "readRounds" /\ \A b \in BlockId : b # c => at'[b] = at[b]
  BY <1>1, <1>4, Zenon DEF TypeOK
<1>7. UNCHANGED dag
  BY Zenon DEF advanceRound, dagState
<1>8. /\ currentRound[n] \in Nat /\ currentRound'[n] = r
      /\ \A m \in Node : m # n => currentRound'[m] = currentRound[m]
  <2>1. currentRound[n] \in Nat
    BY <1>1, ConstantTypes DEF TypeOK
  <2> QED
    BY <1>1, <1>4, <2>1, ZenonT(40) DEF TypeOK
<1>9. ASSUME NEW b \in BlockId, lifeOf(b) = life[validatorOf(b)],
             roundOf(b) <= currentRound'[validatorOf(b)]
      PROVE  at'[b] \notin {"idle", "killed"}
  <2>1. CASE b = c
    BY <1>6, <2>1
  <2>2. CASE b # c
    <3>1. validatorOf(b) \in Node /\ roundOf(b) \in Int
      BY BlockIdParts DEF RoundNo
    <3>2. validatorOf(b) = n => roundOf(b) # r
      BY <1>3, <1>9, <2>2, SMTT(30) DEF BlockId, validatorOf, roundOf, lifeOf
    <3>3. roundOf(b) <= currentRound[validatorOf(b)]
      BY <1>2, <1>8, <1>9, <3>1, <3>2, SMTT(30)
    <3> QED
      BY <1>1, <1>6, <1>9, <2>2, <3>3, Zenon DEF StartedInv
  <2> QED
    BY <2>1, <2>2, Zenon
<1>10. ASSUME MaxOverlap = 1,
              NEW b \in BlockId, lifeOf(b) = life[validatorOf(b)], roundOf(b) > 1, at'[b] # "idle"
       PROVE  at'[previousOwn(b)] = "done"
  <2>1. PICK d : d = previousOwn(b)
    BY Zenon
  <2>2. /\ d \in BlockId /\ d # b /\ validatorOf(d) = validatorOf(b)
        /\ lifeOf(d) = lifeOf(b) /\ roundOf(d) = roundOf(b) - 1
    BY <1>10, <2>1, PreviousOwnParts, Zenon
  <2>3. CASE b = c
    <3>1. validatorOf(d) = n /\ lifeOf(d) = life[n] /\ roundOf(d) = r - 1
      BY <1>5, <2>2, <2>3, Zenon
    <3>2. roundOf(d) <= currentRound[n]
      BY <1>2, <1>8, <3>1
    <3>3. at[d] \notin {"idle", "killed"}
      BY <1>1, <2>2, <3>1, <3>2, Zenon DEF StartedInv
    <3>4. d \notin creating(n)
      BY <1>1, <1>10, NoneCreating, Zenon
    <3>5. at[d] = "done"
      BY <2>2, <3>1, <3>3, <3>4 DEF creating
    <3> QED
      BY <1>6, <2>1, <2>2, <2>3, <3>5, Zenon
  <2>4. CASE b # c
    <3>1. at[d] = "done"
      BY <1>1, <1>6, <1>10, <2>1, <2>4, Zenon DEF TurnInv
    <3>2. d # c
      BY <1>4, <3>1
    <3> QED
      BY <1>6, <2>1, <2>2, <3>1, <3>2, Zenon
  <2> QED
    BY <2>3, <2>4, Zenon
<1>11. OwnBlockReferenced'
  BY <1>1, <1>4, <1>6, <1>7, Zenon DEF OwnBlockReferenced
<1> QED
  BY <1>4, <1>9, <1>10, <1>11, Zenon DEF StartedInv, TurnInv

\* Steps that leave the creations alone keep the order of the creations.
LEMMA TurnElsewhere ==
  ASSUME OwnInv, UNCHANGED <<at, life, currentRound>>
  PROVE  StartedInv' /\ TurnInv'
BY Zenon DEF OwnInv, StartedInv, TurnInv

\* AddBlock of another block brings no block into a DAG.
LEMMA AddOther ==
  ASSUME TypeOK, NEW n \in Node, NEW c \in BlockId, AddBlock(n, c),
         NEW m \in Node, NEW d \in dag'[m], d # c
  PROVE  d \in dag[m]
<1>1. PICK K \in cleanupOldBlocks(dag[n] \cup {c}) : dag' = [dag EXCEPT ![n] = K]
  BY Zenon DEF AddBlock
<1>2. K \subseteq dag[n] \cup {c}
  BY <1>1, CleanupRemoves, Zenon
<1>3. dag'[n] = K /\ \A k \in Node : k # n => dag'[k] = dag[k]
  BY <1>1, Zenon DEF TypeOK
<1> QED
  BY <1>2, <1>3, Zenon

\* The sections of createRoundBlock: the second half of
\* getPreviousRoundReferences takes the block of the round before, and AddBlock
\* is called for a block of which no successor is being created.
LEMMA CreateOwn ==
  ASSUME OwnInv, NEW d \in BlockId, createRoundBlock(d)
  PROVE  StartedInv' /\ TurnInv' /\ OwnBlockReferenced'
<1>1. TypeOK /\ CreationInv /\ StartedInv /\ TurnInv /\ OwnBlockReferenced
  BY Zenon DEF OwnInv, KeptInv
<1>2. /\ at[d] \notin {"idle", "done", "killed"} /\ at'[d] \notin {"idle", "killed"}
      /\ \A c \in BlockId : c # d => at'[c] = at[c]
      /\ UNCHANGED <<life, currentRound>>
  BY <1>1, CreateMoves, Zenon
<1>3. StartedInv'
  BY <1>1, <1>2, Zenon DEF StartedInv
<1>4. ASSUME MaxOverlap = 1, NEW b \in BlockId, lifeOf(b) = life[validatorOf(b)],
             roundOf(b) > 1, at'[b] # "idle"
      PROVE  /\ at[previousOwn(b)] = "done" /\ previousOwn(b) # d
             /\ at'[previousOwn(b)] = "done"
  <2>1. at[b] # "idle"
    BY <1>2, <1>4, Zenon
  <2>2. at[previousOwn(b)] = "done"
    BY <1>1, <1>4, <2>1, Zenon DEF TurnInv
  <2>3. previousOwn(b) # d
    BY <1>2, <2>2, Zenon
  <2>4. previousOwn(b) \in BlockId
    BY <1>4, PreviousOwnParts, Zenon
  <2> QED
    BY <1>2, <2>2, <2>3, <2>4, Zenon
<1>5. TurnInv'
  BY <1>2, <1>4, Zenon DEF TurnInv
<1>6. ASSUME MaxOverlap = 1, NEW b \in BlockId, lifeOf(b) = life[validatorOf(b)],
             roundOf(b) > 1, at'[b] \notin {"idle", "readRounds", "readDag"},
             previousOwn(b) \in dag'[validatorOf(b)]
      PROVE  previousOwn(b) \in references'[b]
  <2>1. validatorOf(b) \in Node /\ validatorOf(d) \in Node
    BY BlockIdParts, Zenon
  <2>2. previousOwn(b) # d
    BY <1>4, <1>6
  <2>3. previousOwn(b) \in dag[validatorOf(b)]
    <3>1. CASE addOwnBlock(d)
      <4>1. AddBlock(validatorOf(d), d)
        BY <3>1, Zenon DEF addOwnBlock
      <4> QED
        BY <1>1, <1>6, <2>1, <2>2, <4>1, AddOther, Zenon
    <3>2. CASE ~addOwnBlock(d)
      <4>1. UNCHANGED dag
        BY <3>2, Zenon DEF createRoundBlock, readRoundBlocks, readDagBlocks, fillBlock,
                           trackOwnBlock, broadcastBlock, dagState
      <4> QED
        BY <1>6, <4>1, Zenon
    <3> QED
      BY <3>1, <3>2, Zenon
  <2>4. CASE readRoundBlocks(d)
    <3>1. at'[d] = "readDag" /\ \A c \in BlockId : c # d => references'[c] = references[c]
      BY <1>1, <2>4, Zenon DEF readRoundBlocks, TypeOK
    <3>2. b # d
      BY <1>6, <3>1, Zenon
    <3> QED
      BY <1>1, <1>2, <1>6, <2>3, <3>1, <3>2, Zenon DEF OwnBlockReferenced
  <2>5. CASE readDagBlocks(d)
    <3>1. /\ references'[d] = references[d] \cup dagBlocksBefore(d)
          /\ \A c \in BlockId : c # d => references'[c] = references[c]
      BY <1>1, <2>5, Zenon DEF readDagBlocks, TypeOK
    <3>2. CASE b = d
      <4>1. roundOf(previousOwn(b)) = roundOf(b) - 1
        BY <1>6, PreviousOwnParts, Zenon
      <4> QED
        BY <2>3, <3>1, <3>2, <4>1, Zenon DEF dagBlocksBefore
    <3>3. CASE b # d
      BY <1>1, <1>2, <1>6, <2>3, <3>1, <3>3, ZenonT(40) DEF OwnBlockReferenced
    <3> QED
      BY <3>2, <3>3, Zenon
  <2>6. CASE ~readRoundBlocks(d) /\ ~readDagBlocks(d)
    <3>1. UNCHANGED references /\ at[d] \notin {"idle", "readRounds", "readDag"}
      BY <2>6 DEF createRoundBlock, fillBlock, addOwnBlock, trackOwnBlock, broadcastBlock
    <3> QED
      BY <1>1, <1>2, <1>6, <2>3, <3>1, ZenonT(40) DEF OwnBlockReferenced
  <2> QED
    BY <2>4, <2>5, <2>6, Zenon
<1>7. OwnBlockReferenced'
  BY <1>2, <1>6, Zenon DEF OwnBlockReferenced
<1> QED
  BY <1>3, <1>5, <1>7, Zenon

\* A received block is one of another validator.
LEMMA ReceiveOwn ==
  ASSUME OwnInv, NEW n \in Node, NEW s \in Node, handleReceivedBlock(n, s)
  PROVE  StartedInv' /\ TurnInv' /\ OwnBlockReferenced'
<1>1. TypeOK /\ FreshInv /\ OwnBlockReferenced
  BY Zenon DEF OwnInv, KeptInv
<1>2. UNCHANGED <<at, references, life, currentRound>>
  BY Zenon DEF handleReceivedBlock, creation
<1>3. PICK p : p = <<s, n>>
  BY Zenon
<1>4. p \in Node \X Node /\ p[1] = s /\ p[2] = n
  BY <1>3, Zenon
<1>5. chan[p] \in Seq(BlockId) /\ chan[p] # <<>>
  BY <1>1, <1>3, <1>4, ZenonT(40) DEF handleReceivedBlock, TypeOK
<1>6. 1 \in 1..Len(chan[p]) /\ Head(chan[p]) = chan[p][1] /\ Head(chan[p]) \in BlockId
  BY <1>5
<1>7. PICK c : c = Head(chan[p])
  BY Zenon
<1>8. c \in BlockId /\ validatorOf(c) = s /\ s # n
  <2>1. \A i \in 1..Len(chan[p]) : validatorOf(chan[p][i]) = p[1] /\ p[1] # p[2]
    BY <1>1, <1>4, ZenonT(40) DEF FreshInv
  <2>2. validatorOf(chan[p][1]) = p[1] /\ p[1] # p[2]
    BY <1>6, <2>1, Zenon
  <2> QED
    BY <1>4, <1>6, <1>7, <2>2, Zenon
<1>9. UNCHANGED dag \/ AddBlock(n, c)
  BY <1>3, <1>7, Zenon DEF handleReceivedBlock, dagState
<1>10. ASSUME NEW b \in BlockId, roundOf(b) > 1, previousOwn(b) \in dag'[validatorOf(b)]
       PROVE  previousOwn(b) \in dag[validatorOf(b)]
  <2>1. validatorOf(b) \in Node /\ validatorOf(previousOwn(b)) = validatorOf(b)
    BY <1>10, BlockIdParts, PreviousOwnParts, Zenon
  <2>2. CASE UNCHANGED dag
    BY <1>10, <2>2, Zenon
  <2>3. CASE AddBlock(n, c) /\ validatorOf(b) = n
    <3>1. previousOwn(b) # c
      BY <1>8, <2>1, <2>3, Zenon
    <3> QED
      BY <1>1, <1>8, <1>10, <2>1, <2>3, <3>1, AddOther, Zenon
  <2>4. CASE AddBlock(n, c) /\ validatorOf(b) # n
    <3>1. dag'[validatorOf(b)] = dag[validatorOf(b)]
      BY <1>1, <2>1, <2>4, ZenonT(40) DEF AddBlock, TypeOK
    <3> QED
      BY <1>10, <3>1, Zenon
  <2> QED
    BY <1>9, <2>2, <2>3, <2>4, Zenon
<1>11. OwnBlockReferenced'
  BY <1>1, <1>2, <1>10, Zenon DEF OwnBlockReferenced
<1> QED
  BY <1>2, <1>11, TurnElsewhere, Zenon

\* After a restart no block of the new life has been started.
LEMMA RestartOwn ==
  ASSUME OwnInv, NEW n \in Node, restart(n)
  PROVE  StartedInv' /\ TurnInv' /\ OwnBlockReferenced'
<1>1. TypeOK /\ CreationInv /\ StartedInv /\ TurnInv /\ OwnBlockReferenced
  BY Zenon DEF OwnInv, KeptInv
<1>2. /\ life' = [life EXCEPT ![n] = @ + 1] /\ currentRound' = [currentRound EXCEPT ![n] = 0]
      /\ dag' = [dag EXCEPT ![n] = {}] /\ UNCHANGED references
      /\ \A b \in BlockId : at'[b] = IF b \in creating(n) THEN "killed" ELSE at[b]
  BY Zenon DEF restart
<1>3. /\ life'[n] = life[n] + 1 /\ currentRound'[n] = 0
      /\ \A m \in Node : m # n => /\ life'[m] = life[m] /\ dag'[m] = dag[m]
                                  /\ currentRound'[m] = currentRound[m]
  BY <1>1, <1>2, Zenon DEF TypeOK
<1>4. \A b \in BlockId : validatorOf(b) # n => at'[b] = at[b]
  BY <1>2, Zenon DEF creating
<1>5. ASSUME NEW b \in BlockId, validatorOf(b) = n, lifeOf(b) = life'[n]
      PROVE  at'[b] = "idle" /\ ~(roundOf(b) <= currentRound'[n])
  <2>1. life[n] \in Nat /\ roundOf(b) \in Nat \ {0}
    <3>1. life[n] \in 0..MaxRestarts /\ roundOf(b) \in 1..MaxRound
      BY <1>1, BlockIdParts, ZenonT(40) DEF TypeOK, RoundNo
    <3> QED
      BY <3>1, ConstantTypes
  <2>2. lifeOf(b) > life[validatorOf(b)]
    BY <1>3, <1>5, <2>1
  <2>3. at[b] = "idle"
    BY <1>1, <2>2, Zenon DEF CreationInv
  <2>4. at'[b] = "idle"
    BY <1>2, <2>3, Zenon DEF creating
  <2> QED
    BY <1>3, <2>1, <2>4
<1>6. ASSUME NEW b \in BlockId, lifeOf(b) = life'[validatorOf(b)], validatorOf(b) # n
      PROVE  /\ lifeOf(b) = life[validatorOf(b)] /\ at'[b] = at[b]
             /\ dag'[validatorOf(b)] = dag[validatorOf(b)]
             /\ currentRound'[validatorOf(b)] = currentRound[validatorOf(b)]
             /\ roundOf(b) > 1 => at'[previousOwn(b)] = at[previousOwn(b)]
  <2>1. validatorOf(b) \in Node
    BY BlockIdParts, Zenon
  <2>2. roundOf(b) > 1 => at'[previousOwn(b)] = at[previousOwn(b)]
    BY <1>4, <1>6, PreviousOwnParts, Zenon
  <2> QED
    BY <1>3, <1>4, <1>6, <2>1, <2>2, Zenon
<1>7. StartedInv'
  BY <1>1, <1>5, <1>6, Zenon DEF StartedInv
<1>8. TurnInv'
  BY <1>1, <1>5, <1>6, Zenon DEF TurnInv
<1>9. OwnBlockReferenced'
  BY <1>1, <1>2, <1>5, <1>6, ZenonT(40) DEF OwnBlockReferenced
<1> QED
  BY <1>7, <1>8, <1>9, Zenon

\* OwnInv is inductive.
LEMMA OwnStep == OwnInv /\ [Next]_vars => OwnInv'
<1> SUFFICES ASSUME OwnInv, [Next]_vars PROVE OwnInv'
  BY Zenon
<1>0. KeptInv'
  BY KeptStep, Zenon DEF OwnInv
<1> SUFFICES StartedInv' /\ TurnInv' /\ OwnBlockReferenced'
  BY <1>0, Zenon DEF OwnInv
<1>1. CASE UNCHANGED <<at, references, dag, life, currentRound>>
  <2>1. OwnBlockReferenced'
    BY <1>1, Zenon DEF OwnInv, OwnBlockReferenced
  <2> QED
    BY <1>1, <2>1, TurnElsewhere, Zenon
<1>2. CASE \E n \in Node : advanceRound(n)
  BY <1>2, AdvanceOwn, Zenon
<1>3. CASE \E n \in Node : restart(n)
  BY <1>3, RestartOwn, Zenon
<1>4. CASE \E b \in BlockId : createRoundBlock(b)
  BY <1>4, CreateOwn, Zenon
<1>5. CASE \E n, s \in Node : handleReceivedBlock(n, s)
  BY <1>5, ReceiveOwn, Zenon
<1>6. CASE \/ \E n, s \in Node :
                trackReceivedBlock(n, s) \/ connectToPeer(n, s) \/ breakConnection(n, s)
           \/ \E n \in Node, tx \in Tx : AddPendingTransaction(n, tx)
           \/ UNCHANGED vars
  <2>1. UNCHANGED <<at, references, dag, life, currentRound>>
    BY <1>6, Zenon DEF trackReceivedBlock, connectToPeer, breakConnection,
                       AddPendingTransaction, vars, creation, dagState
  <2> QED
    BY <1>1, <2>1, Zenon
<1> QED
  BY <1>2, <1>3, <1>4, <1>5, <1>6, ZenonT(40) DEF Next

\* Where the creations of a validator do not overlap, every block past round 1
\* references the validator's block of the round before as long as the DAG holds
\* it, though trackOwnBlock's cleanup deletes it from roundBlocks in the first
\* rounds: getPreviousRoundReferences looks in the DAG also.
THEOREM OwnBlockAlwaysReferenced == Spec => []OwnBlockReferenced
<1>1. Init => OwnInv
  <2> SUFFICES ASSUME Init PROVE OwnInv
    OBVIOUS
  <2>1. KeptInv
    BY KeptInit, Zenon
  <2>2. /\ \A b \in BlockId : at[b] = "idle"
        /\ \A n \in Node : currentRound[n] = 0
    BY Zenon DEF Init
  <2>3. \A b \in BlockId : validatorOf(b) \in Node /\ ~(roundOf(b) <= 0)
    BY ConstantTypes, BlockIdParts DEF RoundNo
  <2>4. StartedInv
    BY <2>2, <2>3, Zenon DEF StartedInv
  <2>5. TurnInv /\ OwnBlockReferenced
    BY <2>2, Zenon DEF TurnInv, OwnBlockReferenced
  <2> QED
    BY <2>1, <2>4, <2>5, Zenon DEF OwnInv
<1>2. OwnInv => OwnBlockReferenced
  BY Zenon DEF OwnInv
<1> QED
  BY <1>1, <1>2, OwnStep, PTL DEF Spec

=============================================================================
