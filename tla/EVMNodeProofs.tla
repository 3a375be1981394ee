--------------------------- MODULE EVMNodeProofs ---------------------------
(***************************************************************************)
(* Theorems about EVMNode, for every set of accounts and requests and      *)
(* every capacity of the channel: its safety properties, the supply, the   *)
(* nonces, the receipts, and that the executor implements AccountLedger.   *)
(***************************************************************************)
EXTENDS EVMNode, TotalsProofs

\* A request that is in the channel, is executed or has succeeded got its nonce
\* before, and gets no other.
PhaseInv ==
  /\ \A i \in 1..Len(pendingTxChan) : phase[pendingTxChan[i]] \in {"queued", "done"}
  /\ executing # None => phase[executing] \in {"queued", "done"}
  /\ \A r \in succeeded : phase[r] \in {"queued", "done"}
  /\ \A r \in Request : phase[r] # "new" /\ r.to = NewContract => txNonce[r] < MaxNonce

\* The nonce of an account is past that of its successful transactions, and
\* past those in the addresses of the contracts it has created.
NonceInv ==
  /\ \A r \in succeeded : txNonce[r] < nonce[r.from]
  /\ \A c \in Contract : nonce[c] # 0 => c[2] < nonce[c[1]]

Inv == TypeOK /\ PhaseInv /\ NonceInv /\ OneSuccessPerNonce /\ AcceptedIsVisible

-----------------------------------------------------------------------------
(* The operators *)

\* What the constants are, for one request.
LEMMA RequestTypes ==
  ASSUME NEW r \in Request
  PROVE  /\ r.from \in Account /\ r.from \in Addr /\ r.from \notin Contract
         /\ r.to \in Addr \cup {NewContract}
         /\ r.value \in Nat /\ r.gasLimit \in Nat /\ r.gasPrice \in Nat
         /\ hashOf(r) \in TxHash
         /\ r # None
<1>1. r.from \in Account /\ r.to \in Addr \cup {NewContract}
      /\ {r.value, r.gasLimit, r.gasPrice} \subseteq Nat
  BY ConstantTypes, Zenon
<1>2. r.from \in Addr /\ r.from \notin Contract
  BY <1>1, ConstantTypes, Zenon DEF Addr
<1>3. hashOf(r) \in TxHash
  BY Zenon DEF TxHash
<1>4. r # None
  BY ConstantTypes, Zenon
<1> QED BY <1>1, <1>2, <1>3, <1>4

\* Less gas costs less.
LEMMA GasCost ==
  ASSUME NEW g \in Nat, NEW l \in Nat, NEW p \in Nat, g <= l
  PROVE  g * p \in Nat /\ l * p \in Nat /\ g * p <= l * p
<1>1. PICK d \in Nat : l = g + d
  <2> WITNESS l - g \in Nat
  <2> QED BY SMT
<1>2. l * p = g * p + d * p
  BY <1>1, SMT
<1>3. g * p \in Nat /\ d * p \in Nat
  BY SMT
<1> QED BY <1>2, <1>3, SMT

\* A transaction that passes validateTransaction can pay its value and the gas
\* it uses; a contract creation gets an address no contract has.
LEMMA ValidPays ==
  ASSUME TypeOK, PhaseInv, NonceInv, NEW r \in Request, phase[r] # "new", valid(r),
         NEW gas \in gasUsed(r)
  PROVE  /\ gas * r.gasPrice \in Nat
         /\ balance[r.from] >= r.value + gas * r.gasPrice
         /\ nonce[r.from] = txNonce[r] /\ txNonce[r] \in Nat /\ balance[r.from] \in Nat
         /\ r.to # NewContract => receiver(r) = r.to
         /\ receiver(r) \in Addr
         /\ r.to = NewContract => /\ receiver(r) \in Contract
                                  /\ receiver(r)[1] = r.from /\ receiver(r)[2] = txNonce[r] + 1
                                  /\ nonce[receiver(r)] = 0
<1>1. gas \in Nat /\ gas <= r.gasLimit
  BY RequestTypes, SMT DEF gasUsed
<1>2. gas * r.gasPrice \in Nat /\ r.gasLimit * r.gasPrice \in Nat
      /\ gas * r.gasPrice <= r.gasLimit * r.gasPrice
  BY <1>1, GasCost, RequestTypes, Zenon
<1>3. balance[r.from] \in Nat /\ txNonce[r] \in Nat /\ nonce \in [Addr -> Nat]
  BY RequestTypes, Zenon DEF TypeOK
<1>4. nonce[r.from] = txNonce[r] /\ balance[r.from] >= r.gasLimit * r.gasPrice + r.value
  BY Zenon DEF valid, totalCost
<1>5. balance[r.from] >= r.value + gas * r.gasPrice
  BY <1>2, <1>3, <1>4, RequestTypes, SMT
<1>6. r.to # NewContract => receiver(r) = r.to /\ receiver(r) \in Addr
  BY RequestTypes, Zenon DEF receiver
<1>7. ASSUME r.to = NewContract
      PROVE  /\ receiver(r) \in Contract /\ receiver(r) \in Addr
             /\ receiver(r)[1] = r.from /\ receiver(r)[2] = txNonce[r] + 1
             /\ nonce[receiver(r)] = 0
  <2>1. txNonce[r] < MaxNonce
    BY <1>7, Zenon DEF PhaseInv
  <2>2. MaxNonce \in Nat
    BY ConstantTypes, Zenon
  <2>3. receiver(r) = <<r.from, txNonce[r] + 1>>
    BY <1>7, Zenon DEF receiver
  <2>4. txNonce[r] + 1 \in 0..MaxNonce
    BY <2>1, <2>2, <1>3, SMT
  <2>5. receiver(r) \in Contract
    BY <2>3, <2>4, RequestTypes, SMT DEF Contract
  <2>6. receiver(r)[1] = r.from /\ receiver(r)[2] = txNonce[r] + 1
    BY <2>3, SMT
  <2>7. nonce[receiver(r)] # 0 => receiver(r)[2] < nonce[receiver(r)[1]]
    BY <2>5, Zenon DEF NonceInv
  <2>8. ~(txNonce[r] + 1 < txNonce[r])
    BY <1>3, SMT
  <2>9. nonce[receiver(r)] = 0
    BY <2>6, <2>7, <2>8, <1>4, Zenon
  <2>10. receiver(r) \in Addr
    BY <2>5, Zenon DEF Addr
  <2> QED BY <2>5, <2>6, <2>9, <2>10, Zenon
<1> QED BY <1>2, <1>3, <1>4, <1>5, <1>6, <1>7, Zenon

\* The effect of a successful transaction: types, nonces and the step of the
\* ledger.
LEMMA ApplyEffect ==
  ASSUME TypeOK, PhaseInv, NonceInv, NEW r \in Request, phase[r] # "new", valid(r),
         NEW gas \in gasUsed(r), apply(r, gas)
  PROVE  /\ balance' \in [Addr -> Nat] /\ nonce' \in [Addr -> Nat] /\ burnt' \in Nat
         /\ succeeded' = succeeded \cup {r}
         /\ \A a \in Account : nonce[a] <= nonce'[a]
         /\ txNonce[r] < nonce'[r.from]
         /\ \A c \in Contract : nonce'[c] # 0 => c[2] < nonce'[c[1]]
         /\ Ledger!LedgerNext
<1> DEFINE fee == gas * r.gasPrice
           to == receiver(r)
<1>1. /\ fee \in Nat
      /\ balance[r.from] >= r.value + fee
      /\ nonce[r.from] = txNonce[r] /\ txNonce[r] \in Nat /\ balance[r.from] \in Nat
      /\ to \in Addr
  BY ValidPays, Zenon
<1>2. /\ balance' = [a \in Addr |-> balance[a] + (IF a = to THEN r.value ELSE 0)
                                          - (IF a = r.from THEN r.value + fee ELSE 0)]
      /\ burnt' = burnt + fee
      /\ succeeded' = succeeded \cup {r}
  BY Zenon DEF apply, paid, used
<1>3. balance \in [Addr -> Nat] /\ nonce \in [Addr -> Nat] /\ burnt \in Nat
  BY Zenon DEF TypeOK
<1>4. r.from \in Account /\ r.from \in Addr /\ r.from \notin Contract /\ r.value \in Nat
  BY RequestTypes, Zenon
<1> HIDE DEF fee, to
<1>5. balance' \in [Addr -> Nat]
  <2>1. ASSUME NEW a \in Addr
        PROVE  balance[a] + (IF a = to THEN r.value ELSE 0)
                 - (IF a = r.from THEN r.value + fee ELSE 0) \in Nat
    <3>1. balance[a] \in Nat
      BY <1>3, Zenon
    <3>2. CASE a = r.from
      BY <3>1, <3>2, <1>1, <1>4, SMT
    <3>3. CASE a # r.from
      BY <3>1, <3>3, <1>4, SMT
    <3> QED BY <3>2, <3>3, Zenon
  <2> QED BY <2>1, <1>2, Zenon
<1>6. burnt' \in Nat
  BY <1>1, <1>2, <1>3, SMT
<1>7. CASE r.to = NewContract
  <2>1. nonce' = [nonce EXCEPT ![r.from] = txNonce[r] + 2, ![to] = 1]
    BY <1>7, Zenon DEF apply, paid, used, to
  <2>2. /\ to \in Contract /\ to[1] = r.from /\ to[2] = txNonce[r] + 1 /\ nonce[to] = 0
        /\ to # r.from
    BY <1>7, <1>4, ValidPays, Zenon DEF to
  <2>3. /\ nonce'[to] = 1
        /\ nonce'[r.from] = txNonce[r] + 2
        /\ \A a \in Addr : a # to /\ a # r.from => nonce'[a] = nonce[a]
    BY <2>1, <2>2, <1>1, <1>3, <1>4, SMT
  <2>4. nonce' \in [Addr -> Nat]
    BY <2>1, <1>1, <1>3, SMT
  <2>5. ASSUME NEW a \in Account
        PROVE  a \in Addr /\ a # to /\ nonce[a] <= nonce'[a]
    <3>1. a \in Addr /\ a # to
      BY <2>2, ConstantTypes, Zenon DEF Addr
    <3>2. nonce[a] \in Nat
      BY <3>1, <1>3, Zenon
    <3> QED BY <3>1, <3>2, <2>3, <1>1, SMT
  <2>6. ASSUME NEW c \in Contract, nonce'[c] # 0
        PROVE  c[2] < nonce'[c[1]]
    <3>1. c \in Addr /\ c[1] \in Account /\ c[2] \in Nat /\ c # r.from
      BY <1>4, ConstantTypes, SMT DEF Contract, Addr
    <3>2. CASE c = to
      BY <3>2, <2>2, <2>3, <1>1, SMT
    <3>3. CASE c # to
      <4>1. nonce[c] # 0
        BY <3>1, <3>3, <2>3, <2>6, Zenon
      <4>2. c[2] < nonce[c[1]]
        BY <4>1, Zenon DEF NonceInv
      <4>3. nonce[c[1]] <= nonce'[c[1]]
        BY <3>1, <2>5, Zenon
      <4>4. nonce[c[1]] \in Nat /\ nonce'[c[1]] \in Nat
        BY <3>1, <2>4, <2>5, <1>3, Zenon
      <4> QED BY <4>2, <4>3, <4>4, <3>1, SMT
    <3> QED BY <3>2, <3>3, Zenon
  <2>7. Ledger!Create(r.from, to, r.value, fee)
    <3>1. nonce' = [nonce EXCEPT ![r.from] = @ + 2, ![to] = 1]
      BY <2>1, <1>1, Zenon
    <3> QED BY <3>1, <2>2, <1>1, <1>2, Zenon DEF Ledger!Create, Ledger!move
  <2>8. Ledger!LedgerNext
    <3>1. r.from \in Addr \ Contract /\ fee \in 0..balance[r.from] /\ r.value \in 0..balance[r.from]
      BY <1>1, <1>4, SMT
    <3> QED BY <3>1, <2>2, <2>7, <1>2, Zenon DEF Ledger!LedgerNext
  <2>9. txNonce[r] < nonce'[r.from]
    BY <2>3, <1>1, SMT
  <2> QED BY <2>4, <2>5, <2>6, <2>8, <2>9, <1>2, <1>5, <1>6, Zenon
<1>8. CASE r.to # NewContract
  <2>1. nonce' = [nonce EXCEPT ![r.from] = txNonce[r] + 1]
    BY <1>8, Zenon DEF apply, paid, used
  <2>2. /\ nonce'[r.from] = txNonce[r] + 1
        /\ \A a \in Addr : a # r.from => nonce'[a] = nonce[a]
    BY <2>1, <1>3, <1>4, Zenon
  <2>3. nonce' \in [Addr -> Nat]
    <3>1. txNonce[r] + 1 \in Nat
      BY <1>1, SMT
    <3> QED BY <3>1, <2>1, <1>3, Zenon
  <2>4. ASSUME NEW a \in Account
        PROVE  a \in Addr /\ nonce[a] <= nonce'[a]
    <3>1. a \in Addr
      BY Zenon DEF Addr
    <3>2. nonce[a] \in Nat
      BY <3>1, <1>3, Zenon
    <3> QED BY <3>1, <3>2, <2>2, <1>1, SMT
  <2>5. ASSUME NEW c \in Contract, nonce'[c] # 0
        PROVE  c[2] < nonce'[c[1]]
    <3>1. c \in Addr /\ c[1] \in Account /\ c[2] \in Nat /\ c # r.from
      BY <1>4, ConstantTypes, SMT DEF Contract, Addr
    <3>2. c[2] < nonce[c[1]]
      BY <3>1, <2>2, <2>5, Zenon DEF NonceInv
    <3>3. nonce[c[1]] <= nonce'[c[1]]
      BY <3>1, <2>4, Zenon
    <3>4. nonce[c[1]] \in Nat /\ nonce'[c[1]] \in Nat
      BY <3>1, <2>3, <2>4, <1>3, Zenon
    <3> QED BY <3>1, <3>2, <3>3, <3>4, SMT
  <2>6. Ledger!Pay(r.from, to, r.value, fee)
    <3>1. nonce' = [nonce EXCEPT ![r.from] = @ + 1]
      BY <2>1, <1>1, Zenon
    <3> QED BY <3>1, <1>1, <1>2, Zenon DEF Ledger!Pay, Ledger!move
  <2>7. Ledger!LedgerNext
    <3>1. r.from \in Addr \ Contract /\ fee \in 0..balance[r.from] /\ r.value \in 0..balance[r.from]
      BY <1>1, <1>4, SMT
    <3> QED BY <3>1, <2>6, <1>1, <1>2, Zenon DEF Ledger!LedgerNext
  <2>8. txNonce[r] < nonce'[r.from]
    BY <2>2, <1>1, SMT
  <2> QED BY <2>3, <2>4, <2>5, <2>7, <2>8, <1>2, <1>5, <1>6, Zenon
<1> QED BY <1>7, <1>8, Zenon

-----------------------------------------------------------------------------
(* The steps *)

\* The request at the head of the channel, and the rest of the channel.
LEMMA HeadOfChannel ==
  ASSUME TypeOK, PhaseInv, pendingTxChan # <<>>
  PROVE  /\ Head(pendingTxChan) \in Request /\ phase[Head(pendingTxChan)] \in {"queued", "done"}
         /\ Tail(pendingTxChan) \in Seq(Request)
         /\ \A i \in 1..Len(Tail(pendingTxChan)) : phase[Tail(pendingTxChan)[i]] \in {"queued", "done"}
<1>1. pendingTxChan \in Seq(Request)
  BY Zenon DEF TypeOK
<1>2. \A i \in 1..Len(pendingTxChan) : phase[pendingTxChan[i]] \in {"queued", "done"}
  BY Zenon DEF PhaseInv
<1>3. Len(pendingTxChan) \in Nat /\ Len(pendingTxChan) > 0
  BY <1>1, SMT
<1>4. Head(pendingTxChan) = pendingTxChan[1] /\ Head(pendingTxChan) \in Request
      /\ Tail(pendingTxChan) \in Seq(Request)
  BY <1>1, SMT
<1>5. phase[pendingTxChan[1]] \in {"queued", "done"}
  BY <1>2, <1>3, SMT
<1>6. ASSUME NEW i \in 1..Len(Tail(pendingTxChan))
      PROVE  phase[Tail(pendingTxChan)[i]] \in {"queued", "done"}
  <2>1. i + 1 \in 1..Len(pendingTxChan) /\ Tail(pendingTxChan)[i] = pendingTxChan[i + 1]
    BY <1>1, <1>3, SMT
  <2> QED BY <2>1, <1>2, Zenon
<1> QED BY <1>4, <1>5, <1>6, Zenon

\* parseTransaction gives a nonce to a request that has none yet.
LEMMA ParseStep ==
  ASSUME Inv, NEW r \in Request, parseTransaction(r)
  PROVE  Inv'
<1>1. /\ phase[r] = "new" /\ nonceInBounds(r)
      /\ phase' = [phase EXCEPT ![r] = "parsed"]
      /\ txNonce' = [txNonce EXCEPT ![r] = nonce[r.from]]
      /\ UNCHANGED <<balance, nonce, burnt, succeeded>>
      /\ UNCHANGED <<pendingTxs, pendingTxChan, executing, txReceipts, forwarded>>
  BY Zenon DEF parseTransaction, state, server
<1>2. TypeOK /\ PhaseInv /\ NonceInv /\ OneSuccessPerNonce /\ AcceptedIsVisible
  BY Zenon DEF Inv
<1>3. nonce[r.from] \in Nat
  BY <1>2, RequestTypes, Zenon DEF TypeOK
<1>4. phase \in [Request -> {"new", "parsed", "rejected", "accepted", "queued", "dropped", "done"}]
      /\ txNonce \in [Request -> Nat] /\ succeeded \subseteq Request
      /\ pendingTxChan \in Seq(Request) /\ executing \in Request \cup {None}
  BY <1>2, Zenon DEF TypeOK
<1>5. TypeOK'
  BY <1>1, <1>2, <1>3, Zenon DEF TypeOK
<1>6. /\ phase'[r] = "parsed" /\ txNonce'[r] = nonce[r.from]
      /\ \A s \in Request : s # r => phase'[s] = phase[s] /\ txNonce'[s] = txNonce[s]
  BY <1>1, <1>4, Zenon
<1>7. PhaseInv'
  <2>1. ASSUME NEW i \in 1..Len(pendingTxChan)
        PROVE  phase'[pendingTxChan[i]] \in {"queued", "done"}
    <3>1. pendingTxChan[i] \in Request
      BY <1>4, SMT
    <3> QED BY <3>1, <1>1, <1>2, <1>6, Zenon DEF PhaseInv
  <2>2. executing # None => phase'[executing] \in {"queued", "done"}
    BY <1>1, <1>2, <1>4, <1>6, Zenon DEF PhaseInv
  <2>3. \A s \in succeeded : phase'[s] \in {"queued", "done"}
    BY <1>1, <1>2, <1>4, <1>6, Zenon DEF PhaseInv
  <2>4. \A s \in Request : phase'[s] # "new" /\ s.to = NewContract => txNonce'[s] < MaxNonce
    BY <1>1, <1>2, <1>6, Zenon DEF PhaseInv, nonceInBounds
  <2> QED BY <2>1, <2>2, <2>3, <2>4, <1>1, Zenon DEF PhaseInv
<1>8. \A s \in succeeded : s # r /\ s \in Request
  BY <1>1, <1>2, <1>4, Zenon DEF PhaseInv
<1>9. NonceInv' /\ OneSuccessPerNonce'
  <2>1. \A s \in succeeded : txNonce'[s] = txNonce[s]
    BY <1>6, <1>8, Zenon
  <2>2. NonceInv'
    BY <2>1, <1>1, <1>2, Zenon DEF NonceInv
  <2>3. OneSuccessPerNonce'
    <3>1. ASSUME NEW s \in succeeded', NEW t \in succeeded', s # t, s.from = t.from
          PROVE  txNonce'[s] # txNonce'[t]
      BY <3>1, <2>1, <1>1, <1>2, Zenon DEF OneSuccessPerNonce
    <3> QED BY <3>1, Zenon DEF OneSuccessPerNonce
  <2> QED BY <2>2, <2>3, Zenon
<1>10. AcceptedIsVisible'
  BY <1>1, <1>2, <1>6, Zenon DEF AcceptedIsVisible, getTransactionReceipt
<1> QED BY <1>5, <1>7, <1>9, <1>10, Zenon DEF Inv

\* The end of sendTransaction: a request is turned away, becomes pending, and
\* gets into the channel or not.
LEMMA SendStep ==
  ASSUME Inv, NEW r \in Request,
         rejectTransaction(r) \/ acceptTransaction(r) \/ queueTransaction(r)
  PROVE  Inv'
<1>1. /\ UNCHANGED <<balance, nonce, burnt, succeeded, txNonce>>
      /\ UNCHANGED <<executing, txReceipts, forwarded>>
  BY Zenon DEF rejectTransaction, acceptTransaction, queueTransaction, state, server
<1>2. TypeOK /\ PhaseInv /\ NonceInv /\ OneSuccessPerNonce /\ AcceptedIsVisible
  BY Zenon DEF Inv
<1>3. phase \in [Request -> {"new", "parsed", "rejected", "accepted", "queued", "dropped", "done"}]
      /\ txNonce \in [Request -> Nat] /\ succeeded \subseteq Request
      /\ pendingTxChan \in Seq(Request) /\ executing \in Request \cup {None}
      /\ pendingTxs \in [TxHash -> Request \cup {None}]
  BY <1>2, Zenon DEF TypeOK
<1>4. /\ phase[r] \in {"parsed", "accepted"}
      /\ \E p \in {"rejected", "accepted", "queued", "dropped"} :
           phase' = [phase EXCEPT ![r] = p]
  BY Zenon DEF rejectTransaction, acceptTransaction, queueTransaction
<1>5. \A s \in Request : s # r => phase'[s] = phase[s]
  BY <1>3, <1>4, Zenon
<1>6. phase' \in [Request -> {"new", "parsed", "rejected", "accepted", "queued", "dropped", "done"}]
  BY <1>3, <1>4, Zenon
<1>7. \/ UNCHANGED pendingTxChan
      \/ pendingTxChan' = Append(pendingTxChan, r) /\ phase'[r] = "queued"
  BY <1>3, Zenon DEF rejectTransaction, acceptTransaction, queueTransaction, server
<1>8. \/ UNCHANGED pendingTxs
      \/ pendingTxs' = [pendingTxs EXCEPT ![hashOf(r)] = r]
  BY Zenon DEF rejectTransaction, acceptTransaction, queueTransaction, server
<1>9. TypeOK'
  <2>1. pendingTxChan' \in Seq(Request)
    <3>1. Append(pendingTxChan, r) \in Seq(Request)
      BY <1>3, SMT
    <3> QED BY <3>1, <1>3, <1>7, Zenon
  <2>2. pendingTxs' \in [TxHash -> Request \cup {None}]
    BY <1>3, <1>8, Zenon
  <2> QED BY <2>1, <2>2, <1>1, <1>2, <1>6, Zenon DEF TypeOK
<1>10. PhaseInv'
  <2>1. ASSUME NEW i \in 1..Len(pendingTxChan')
        PROVE  phase'[pendingTxChan'[i]] \in {"queued", "done"}
    <3>1. ASSUME i \in 1..Len(pendingTxChan)
          PROVE  phase'[pendingTxChan[i]] \in {"queued", "done"}
      <4>1. pendingTxChan[i] \in Request
        BY <3>1, <1>3, SMT
      <4>2. phase[pendingTxChan[i]] \in {"queued", "done"}
        BY <3>1, <1>2, Zenon DEF PhaseInv
      <4> QED BY <4>1, <4>2, <1>4, <1>5, Zenon
    <3>2. CASE UNCHANGED pendingTxChan
      BY <3>1, <3>2, Zenon
    <3>3. CASE pendingTxChan' = Append(pendingTxChan, r) /\ phase'[r] = "queued"
      <4>1. \/ i \in 1..Len(pendingTxChan) /\ pendingTxChan'[i] = pendingTxChan[i]
            \/ pendingTxChan'[i] = r
        BY <3>3, <1>3, SMT
      <4> QED BY <4>1, <3>1, <3>3, Zenon
    <3> QED BY <3>2, <3>3, <1>7, Zenon
  <2>2. executing # None => phase'[executing] \in {"queued", "done"}
    BY <1>2, <1>3, <1>4, <1>5, Zenon DEF PhaseInv
  <2>3. \A s \in succeeded : phase'[s] \in {"queued", "done"}
    BY <1>2, <1>3, <1>4, <1>5, Zenon DEF PhaseInv
  <2>4. \A s \in Request : phase'[s] # "new" /\ s.to = NewContract => txNonce[s] < MaxNonce
    BY <1>2, <1>4, <1>5, Zenon DEF PhaseInv
  <2> QED BY <2>1, <2>2, <2>3, <2>4, <1>1, Zenon DEF PhaseInv
<1>11. NonceInv' /\ OneSuccessPerNonce'
  BY <1>1, <1>2, Zenon DEF NonceInv, OneSuccessPerNonce
<1>12. AcceptedIsVisible'
  <2>1. ASSUME NEW s \in Request, phase'[s] \in {"accepted", "queued", "dropped", "done"}
        PROVE  pendingTxs'[hashOf(s)] # None \/ txReceipts[hashOf(s)] # None
    <3>1. hashOf(s) \in TxHash /\ hashOf(r) \in TxHash /\ r # None
      BY RequestTypes, Zenon
    <3>2. pendingTxs[hashOf(s)] # None => pendingTxs'[hashOf(s)] # None
      BY <3>1, <1>3, <1>8, Zenon
    <3>3. CASE s # r
      BY <3>2, <3>3, <2>1, <1>2, <1>5, Zenon DEF AcceptedIsVisible, getTransactionReceipt
    <3>4. CASE s = r /\ acceptTransaction(r)
      BY <3>1, <3>4, <1>3, Zenon DEF acceptTransaction
    <3>5. CASE s = r /\ queueTransaction(r)
      BY <3>2, <3>5, <1>2, Zenon DEF AcceptedIsVisible, getTransactionReceipt, queueTransaction
    <3>6. CASE s = r /\ rejectTransaction(r)
      <4>1. phase'[r] = "rejected"
        BY <3>6, <1>3, Zenon DEF rejectTransaction
      <4> QED BY <4>1, <3>6, <2>1, Zenon
    <3> QED BY <3>3, <3>4, <3>5, <3>6, Zenon
  <2> QED BY <2>1, <1>1, Zenon DEF AcceptedIsVisible, getTransactionReceipt
<1> QED BY <1>9, <1>10, <1>11, <1>12, Zenon DEF Inv

\* ExecuteTransaction changes the state as the ledger may, or not at all.
LEMMA ExecuteStep ==
  ASSUME Inv, ExecuteTransaction
  PROVE  Inv' /\ (Ledger!LedgerNext \/ UNCHANGED <<balance, nonce, burnt>>)
<1> DEFINE r == Head(pendingTxChan)
<1>1. /\ pendingTxChan # <<>> /\ pendingTxChan' = Tail(pendingTxChan) /\ executing' = r
      /\ UNCHANGED <<phase, txNonce, pendingTxs, txReceipts, forwarded>>
  BY Zenon DEF ExecuteTransaction
<1>2. \/ valid(r) /\ \E gas \in gasUsed(r) : apply(r, gas)
      \/ UNCHANGED <<balance, nonce, burnt, succeeded>>
  BY Zenon DEF ExecuteTransaction, discard, state
<1>3. TypeOK /\ PhaseInv /\ NonceInv /\ OneSuccessPerNonce /\ AcceptedIsVisible
  BY Zenon DEF Inv
<1>4. /\ r \in Request /\ phase[r] \in {"queued", "done"} /\ r # None
      /\ Tail(pendingTxChan) \in Seq(Request)
      /\ \A i \in 1..Len(Tail(pendingTxChan)) : phase[Tail(pendingTxChan)[i]] \in {"queued", "done"}
  BY <1>1, <1>3, HeadOfChannel, RequestTypes, Zenon
<1>5. AcceptedIsVisible'
  BY <1>1, <1>3, Zenon DEF AcceptedIsVisible, getTransactionReceipt
<1> HIDE DEF r
<1>6. CASE UNCHANGED <<balance, nonce, burnt, succeeded>>
  <2>1. TypeOK'
    BY <1>1, <1>3, <1>4, <1>6, Zenon DEF TypeOK
  <2>2. PhaseInv'
    BY <1>1, <1>3, <1>4, <1>6, Zenon DEF PhaseInv
  <2>3. NonceInv' /\ OneSuccessPerNonce'
    BY <1>1, <1>3, <1>6, Zenon DEF NonceInv, OneSuccessPerNonce
  <2> QED BY <2>1, <2>2, <2>3, <1>5, <1>6, Zenon DEF Inv
<1>7. CASE valid(r) /\ \E gas \in gasUsed(r) : apply(r, gas)
  <2>1. phase[r] # "new"
    BY <1>4, Zenon
  <2>2. /\ balance' \in [Addr -> Nat] /\ nonce' \in [Addr -> Nat] /\ burnt' \in Nat
        /\ succeeded' = succeeded \cup {r}
        /\ \A a \in Account : nonce[a] <= nonce'[a]
        /\ txNonce[r] < nonce'[r.from]
        /\ \A c \in Contract : nonce'[c] # 0 => c[2] < nonce'[c[1]]
        /\ Ledger!LedgerNext
    BY <2>1, <1>3, <1>4, <1>7, ApplyEffect, Zenon
  <2>3. TypeOK'
    BY <2>2, <1>1, <1>3, <1>4, Zenon DEF TypeOK
  <2>4. PhaseInv'
    BY <2>2, <1>1, <1>3, <1>4, Zenon DEF PhaseInv
  <2>5. ASSUME NEW s \in succeeded
        PROVE  s \in Request /\ txNonce[s] < nonce[s.from] /\ txNonce[s] < nonce'[s.from]
    <3>1. s \in Request /\ txNonce[s] < nonce[s.from]
      BY <1>3, Zenon DEF TypeOK, NonceInv
    <3>2. s.from \in Account /\ s.from \in Addr
      BY <3>1, RequestTypes, Zenon
    <3>3. nonce[s.from] \in Nat /\ nonce'[s.from] \in Nat /\ txNonce[s] \in Nat
      BY <3>1, <3>2, <2>2, <1>3, Zenon DEF TypeOK
    <3>4. nonce[s.from] <= nonce'[s.from]
      BY <3>2, <2>2, Zenon
    <3>5. txNonce[s] < nonce'[s.from]
      BY <3>1, <3>3, <3>4, SMT
    <3> QED BY <3>1, <3>5, Zenon
  <2>6. NonceInv'
    BY <2>2, <2>5, <1>1, Zenon DEF NonceInv
  <2>7. nonce[r.from] = txNonce[r] /\ txNonce[r] \in Nat
    BY <1>3, <1>4, <1>7, Zenon DEF valid, TypeOK
  <2>8. ASSUME NEW s \in succeeded, s.from = r.from
        PROVE  txNonce[s] # txNonce[r]
    <3>1. txNonce[s] < txNonce[r]
      BY <2>5, <2>7, <2>8, Zenon
    <3>2. txNonce[s] \in Nat
      BY <2>5, <1>3, Zenon DEF TypeOK
    <3> QED BY <3>1, <3>2, <2>7, SMT
  <2>9. OneSuccessPerNonce'
    <3>1. ASSUME NEW s \in succeeded', NEW u \in succeeded', s # u, s.from = u.from
          PROVE  txNonce[s] # txNonce[u]
      <4>1. s \in succeeded \/ s = r
        BY <2>2, Zenon
      <4>2. u \in succeeded \/ u = r
        BY <2>2, Zenon
      <4>3. CASE s \in succeeded /\ u \in succeeded
        BY <4>3, <3>1, <1>3, Zenon DEF OneSuccessPerNonce
      <4>4. CASE s \in succeeded /\ u = r
        BY <4>4, <3>1, <2>8, Zenon
      <4>5. CASE s = r /\ u \in succeeded
        BY <4>5, <3>1, <2>8, Zenon
      <4> QED BY <4>1, <4>2, <4>3, <4>4, <4>5, <3>1, Zenon
    <3>2. txNonce' = txNonce
      BY <1>1, Zenon
    <3> QED BY <3>1, <3>2, Zenon DEF OneSuccessPerNonce
  <2> QED BY <2>2, <2>3, <2>4, <2>6, <2>9, <1>5, Zenon DEF Inv
<1> QED BY <1>2, <1>6, <1>7, Zenon

\* storeReceipt removes what is pending under the hash it files a receipt for.
LEMMA ReceiptStep ==
  ASSUME Inv, storeReceipt
  PROVE  Inv'
<1>1. /\ executing # None /\ executing' = None
      /\ phase' = [phase EXCEPT ![executing] = "done"]
      /\ txReceipts' = [txReceipts EXCEPT ![hashOf(executing)] =
           [request |-> executing, status |-> executing \in succeeded]]
      /\ pendingTxs' = [pendingTxs EXCEPT ![hashOf(executing)] = None]
      /\ UNCHANGED <<balance, nonce, burnt, succeeded, txNonce, pendingTxChan, forwarded>>
  BY Zenon DEF storeReceipt, state
<1>2. TypeOK /\ PhaseInv /\ NonceInv /\ OneSuccessPerNonce /\ AcceptedIsVisible
  BY Zenon DEF Inv
<1>3. phase \in [Request -> {"new", "parsed", "rejected", "accepted", "queued", "dropped", "done"}]
      /\ executing \in Request /\ succeeded \subseteq Request
      /\ pendingTxChan \in Seq(Request)
      /\ pendingTxs \in [TxHash -> Request \cup {None}]
      /\ txReceipts \in [TxHash -> [request : Request, status : BOOLEAN] \cup {None}]
  BY <1>1, <1>2, Zenon DEF TypeOK
<1>4. hashOf(executing) \in TxHash
  BY <1>3, RequestTypes, Zenon
<1> DEFINE receipt == [request |-> executing, status |-> executing \in succeeded]
<1>5. receipt \in [request : Request, status : BOOLEAN] /\ receipt # None
  <2>1. receipt \in [request : Request, status : BOOLEAN]
    <3>1. (executing \in succeeded) \in BOOLEAN
      BY SMT
    <3> QED BY <3>1, <1>3, SMT
  <2> QED BY <2>1, ConstantTypes, Zenon
<1> HIDE DEF receipt
<1>6. TypeOK'
  BY <1>1, <1>2, <1>3, <1>5, Zenon DEF TypeOK, receipt
<1>7. /\ phase'[executing] = "done"
      /\ \A s \in Request : s # executing => phase'[s] = phase[s]
  BY <1>1, <1>3, Zenon
<1>8. phase[executing] \in {"queued", "done"}
  BY <1>1, <1>2, Zenon DEF PhaseInv
<1>9. PhaseInv'
  <2>1. ASSUME NEW i \in 1..Len(pendingTxChan)
        PROVE  phase'[pendingTxChan[i]] \in {"queued", "done"}
    <3>1. pendingTxChan[i] \in Request
      BY <1>3, SMT
    <3> QED BY <3>1, <1>2, <1>7, Zenon DEF PhaseInv
  <2>2. \A s \in succeeded : phase'[s] \in {"queued", "done"}
    BY <1>2, <1>3, <1>7, Zenon DEF PhaseInv
  <2>3. \A s \in Request : phase'[s] # "new" /\ s.to = NewContract => txNonce[s] < MaxNonce
    BY <1>2, <1>7, <1>8, Zenon DEF PhaseInv
  <2> QED BY <2>1, <2>2, <2>3, <1>1, Zenon DEF PhaseInv
<1>10. NonceInv' /\ OneSuccessPerNonce'
  BY <1>1, <1>2, Zenon DEF NonceInv, OneSuccessPerNonce
<1>11. AcceptedIsVisible'
  <2>1. ASSUME NEW s \in Request, phase'[s] \in {"accepted", "queued", "dropped", "done"}
        PROVE  pendingTxs'[hashOf(s)] # None \/ txReceipts'[hashOf(s)] # None
    <3>1. hashOf(s) \in TxHash
      BY RequestTypes, Zenon
    <3>2. CASE hashOf(s) = hashOf(executing)
      BY <3>1, <3>2, <1>1, <1>3, <1>5, Zenon DEF receipt
    <3>3. CASE hashOf(s) # hashOf(executing)
      <4>1. s # executing
        BY <3>3, Zenon
      <4>2. pendingTxs[hashOf(s)] # None \/ txReceipts[hashOf(s)] # None
        BY <4>1, <2>1, <1>2, <1>7, Zenon DEF AcceptedIsVisible, getTransactionReceipt
      <4> QED BY <4>2, <3>1, <3>3, <1>1, <1>3, Zenon
    <3> QED BY <3>2, <3>3, Zenon
  <2> QED BY <2>1, Zenon DEF AcceptedIsVisible, getTransactionReceipt
<1> QED BY <1>6, <1>9, <1>10, <1>11, Zenon DEF Inv

\* connectEVMToDAG counts, no more.
LEMMA ForwardStep ==
  ASSUME Inv, connectEVMToDAG
  PROVE  Inv' /\ UNCHANGED <<balance, nonce, burnt>>
<1>1. /\ UNCHANGED <<balance, nonce, burnt, succeeded, phase, txNonce>>
      /\ UNCHANGED <<pendingTxs, pendingTxChan, executing, txReceipts>>
      /\ forwarded' = [r \in Request |->
           IF r \in pendingRequests /\ forwarded[r] < MaxForwards THEN forwarded[r] + 1 ELSE forwarded[r]]
  BY Zenon DEF connectEVMToDAG, state, server
<1>2. TypeOK /\ PhaseInv /\ NonceInv /\ OneSuccessPerNonce /\ AcceptedIsVisible
  BY Zenon DEF Inv
<1>3. forwarded \in [Request -> 0..MaxForwards] /\ MaxForwards \in Nat
  BY <1>2, ConstantTypes, Zenon DEF TypeOK
<1>4. forwarded' \in [Request -> 0..MaxForwards]
  BY <1>1, <1>3, SMT
<1>5. TypeOK'
  BY <1>1, <1>2, <1>4, Zenon DEF TypeOK
<1>6. PhaseInv' /\ NonceInv' /\ OneSuccessPerNonce' /\ AcceptedIsVisible'
  BY <1>1, <1>2, Zenon DEF PhaseInv, NonceInv, OneSuccessPerNonce, AcceptedIsVisible, getTransactionReceipt
<1> QED BY <1>1, <1>5, <1>6, Zenon DEF Inv

-----------------------------------------------------------------------------
(* The theorems *)

\* The invariant holds when the node starts, where the state is that of a new
\* ledger.
LEMMA InitInv == Init => Inv /\ Ledger!LedgerInit
<1> SUFFICES ASSUME Init
             PROVE  Inv /\ Ledger!LedgerInit
  OBVIOUS
<1>1. /\ balance = [a \in Addr |-> IF a \in Account THEN Genesis[a] ELSE 0]
      /\ nonce = [a \in Addr |-> 0] /\ burnt = 0 /\ succeeded = {}
      /\ phase = [r \in Request |-> "new"] /\ txNonce = [r \in Request |-> 0]
      /\ pendingTxs = [h \in TxHash |-> None] /\ pendingTxChan = <<>> /\ executing = None
      /\ txReceipts = [h \in TxHash |-> None] /\ forwarded = [r \in Request |-> 0]
  BY Zenon DEF Init, initialBalance
<1>2. Genesis \in [Account -> Nat] /\ MaxForwards \in Nat
  BY ConstantTypes, Zenon
<1>3. balance \in [Addr -> Nat] /\ nonce \in [Addr -> Nat] /\ burnt \in Nat
  BY <1>1, <1>2, SMT
<1>4. /\ phase \in [Request -> {"new", "parsed", "rejected", "accepted", "queued", "dropped", "done"}]
      /\ txNonce \in [Request -> Nat] /\ forwarded \in [Request -> 0..MaxForwards]
  BY <1>1, <1>2, SMT
<1>5. /\ pendingTxs \in [TxHash -> Request \cup {None}]
      /\ txReceipts \in [TxHash -> [request : Request, status : BOOLEAN] \cup {None}]
  BY <1>1, Zenon
<1>6. pendingTxChan \in Seq(Request) /\ Len(pendingTxChan) = 0
  BY <1>1, SMT
<1>7. TypeOK
  BY <1>1, <1>3, <1>4, <1>5, <1>6, Zenon DEF TypeOK
<1>8. PhaseInv
  <2>1. \A i \in 1..Len(pendingTxChan) : phase[pendingTxChan[i]] \in {"queued", "done"}
    BY <1>6, SMT
  <2> QED BY <2>1, <1>1, Zenon DEF PhaseInv
<1>9. NonceInv /\ OneSuccessPerNonce
  <2>1. \A c \in Contract : nonce[c] = 0
    BY <1>1, Zenon DEF Addr
  <2> QED BY <2>1, <1>1, Zenon DEF NonceInv, OneSuccessPerNonce
<1>10. AcceptedIsVisible
  BY <1>1, Zenon DEF AcceptedIsVisible, getTransactionReceipt
<1>11. Ledger!LedgerInit
  BY <1>1, Zenon DEF Ledger!LedgerInit, initialBalance
<1> QED BY <1>7, <1>8, <1>9, <1>10, <1>11, Zenon DEF Inv

\* Every step keeps the invariant, and is a step of the ledger or leaves the
\* ledger alone.
LEMMA NextInv ==
  Inv /\ [Next]_vars => Inv' /\ [Ledger!LedgerNext]_(Ledger!ledgerVars)
<1> SUFFICES ASSUME Inv, [Next]_vars
             PROVE  Inv' /\ (Ledger!LedgerNext \/ UNCHANGED <<balance, nonce, burnt>>)
  BY Zenon DEF Ledger!ledgerVars
<1>1. CASE \E r \in Request : parseTransaction(r)
  BY <1>1, ParseStep, Zenon DEF parseTransaction, state
<1>2. CASE \E r \in Request : rejectTransaction(r) \/ acceptTransaction(r) \/ queueTransaction(r)
  BY <1>2, SendStep, Zenon DEF rejectTransaction, acceptTransaction, queueTransaction, state
<1>3. CASE ExecuteTransaction
  BY <1>3, ExecuteStep, Zenon
<1>4. CASE storeReceipt
  BY <1>4, ReceiptStep, Zenon DEF storeReceipt, state
<1>5. CASE connectEVMToDAG
  BY <1>5, ForwardStep, Zenon
<1>6. CASE UNCHANGED vars
  BY <1>6, Zenon DEF vars, state, server, Inv, TypeOK, PhaseInv, NonceInv, OneSuccessPerNonce,
     AcceptedIsVisible, getTransactionReceipt
<1> QED BY <1>1, <1>2, <1>3, <1>4, <1>5, <1>6, Zenon DEF Next

\* The invariant holds in every reachable state.
LEMMA InvAlways == Spec => []Inv
<1> QED BY InitInv, NextInv, PTL DEF Spec

\* The variables have their types in every reachable state; in particular no
\* balance the executor computes is negative.
THEOREM TypeCorrect == Spec => []TypeOK
<1>1. Inv => TypeOK
  BY Zenon DEF Inv
<1> QED BY <1>1, InvAlways, PTL

\* Of the transactions of a sender that got the same nonce from
\* parseTransaction, the executor lets at most one succeed.
THEOREM OneSuccessPerNonceAlways == Spec => []OneSuccessPerNonce
<1>1. Inv => OneSuccessPerNonce
  BY Zenon DEF Inv
<1> QED BY <1>1, InvAlways, PTL

\* A transaction sendTransaction accepted is pending or has a receipt, under
\* the hash the client got.
THEOREM AcceptedAlwaysVisible == Spec => []AcceptedIsVisible
<1>1. Inv => AcceptedIsVisible
  BY Zenon DEF Inv
<1> QED BY <1>1, InvAlways, PTL

\* The node implements the ledger: it starts as one, and each step of the
\* executor's state is the effect of one transaction its sender could pay for.
THEOREM NodeImplementsLedger == Spec => ImplementsLedger
<1> QED BY InitInv, NextInv, InvAlways, PTL DEF Spec, ImplementsLedger, Ledger!LedgerSpec

-----------------------------------------------------------------------------
(* Money and nonces *)

\* What ExecuteTransaction keeps: the supply, and nonces that count.
CountInv == IsFiniteSet(succeeded) /\ SupplyConserved /\ NonceCountsSuccesses

\* The state has finitely many accounts.
LEMMA FiniteAddr == IsFiniteSet(Addr)
<1>1. IsFiniteSet(Account) /\ MaxNonce \in Nat
  BY ConstantTypes, Zenon
<1>2. IsFiniteSet(0..MaxNonce)
  BY <1>1, FS_Interval
<1>3. IsFiniteSet(Contract)
  BY <1>1, <1>2, FS_Product, Zenon DEF Contract
<1> QED BY <1>1, <1>3, FS_Union, Zenon DEF Addr

\* What the sender pays, the receiver gets or is burnt; sender and receiver
\* may be the same.
LEMMA ApplyConserves ==
  ASSUME balance \in [Addr -> Nat], NEW from \in Addr, NEW to \in Addr,
         NEW value \in Nat, NEW fee \in Nat,
         balance' = [a \in Addr |-> balance[a] + (IF a = to THEN value ELSE 0)
                                             - (IF a = from THEN value + fee ELSE 0)]
  PROVE  total(balance') = total(balance) - fee
<1>1. PICK f : f = balance
  BY Zenon
<1>2. PICK g : g = [a \in Addr |-> f[a] + (IF a = to THEN value ELSE 0)]
  BY Zenon
<1>3. PICK h : h = [a \in Addr |-> g[a] - (IF a = from THEN value + fee ELSE 0)]
  BY Zenon
<1>4. h = balance'
  <2>1. \A a \in Addr : g[a] = balance[a] + (IF a = to THEN value ELSE 0)
    BY <1>1, <1>2, Zenon
  <2>2. ASSUME NEW a \in Addr
        PROVE  h[a] = balance'[a]
    <3>1. h[a] = g[a] - (IF a = from THEN value + fee ELSE 0)
      BY <1>3, Zenon
    <3>2. balance'[a] = balance[a] + (IF a = to THEN value ELSE 0)
                          - (IF a = from THEN value + fee ELSE 0)
      BY Zenon
    <3>3. g[a] = balance[a] + (IF a = to THEN value ELSE 0)
      BY <2>1, Zenon
    <3> QED BY <3>1, <3>2, <3>3
  <2>3. DOMAIN h = Addr /\ h = [a \in Addr |-> h[a]]
    BY <1>3, Zenon
  <2>4. balance' = [a \in Addr |-> balance'[a]]
    BY Zenon
  <2> QED BY <2>2, <2>3, <2>4, Zenon
<1>5. DOMAIN f = Addr /\ DOMAIN g = Addr /\ DOMAIN h = Addr
  BY <1>1, <1>2, <1>3, Zenon
<1>6. \A a \in Addr : f[a] \in Int
  <2>1. \A a \in Addr : f[a] \in Nat
    BY <1>1, Zenon
  <2> QED BY <2>1, SMT
<1>7. \A a \in Addr : g[a] \in Int
  BY <1>2, <1>6, SMT
<1>8. \A a \in Addr : h[a] \in Int
  BY <1>3, <1>7, SMT
<1>9. total(g) = total(f) + g[to] - f[to]
  <2>1. \A a \in Addr \ {to} : g[a] = f[a]
    BY <1>2, <1>6, SMT
  <2> QED BY <2>1, <1>5, <1>6, <1>7, FiniteAddr, TotalChange
<1>10. total(h) = total(g) + h[from] - g[from]
  <2>1. \A a \in Addr \ {from} : h[a] = g[a]
    BY <1>3, <1>7, SMT
  <2> QED BY <2>1, <1>5, <1>7, <1>8, FiniteAddr, TotalChange
<1>11. g[to] = f[to] + value /\ h[from] = g[from] - (value + fee)
  BY <1>2, <1>3, Zenon
<1>12. total(f) \in Int
  BY <1>5, <1>6, FiniteAddr, TotalType, Zenon
<1>13. f[to] \in Int /\ g[from] \in Int
  BY <1>6, <1>7, Zenon
<1>14. total(h) = total(f) - fee
  BY <1>9, <1>10, <1>11, <1>12, <1>13, SMT
<1> QED BY <1>1, <1>4, <1>14, Zenon

\* A transaction that is executed with success keeps the supply and counts.
LEMMA ApplyCounts ==
  ASSUME TypeOK, PhaseInv, NonceInv, CountInv, NEW r \in Request, phase[r] # "new", valid(r),
         NEW gas \in gasUsed(r), apply(r, gas)
  PROVE  CountInv'
<1>1. PICK fee : fee = gas * r.gasPrice
  BY Zenon
<1>2. PICK to : to = receiver(r)
  BY Zenon
<1>3. /\ fee \in Nat /\ nonce[r.from] = txNonce[r] /\ txNonce[r] \in Nat /\ to \in Addr
      /\ r.to = NewContract => to \in Contract
  BY <1>1, <1>2, ValidPays, Zenon
<1>4. /\ balance' = [a \in Addr |-> balance[a] + (IF a = to THEN r.value ELSE 0)
                                          - (IF a = r.from THEN r.value + fee ELSE 0)]
      /\ burnt' = burnt + fee
      /\ succeeded' = succeeded \cup {r}
      /\ nonce' = used(r)
  BY <1>1, <1>2, Zenon DEF apply, paid
<1>5. balance \in [Addr -> Nat] /\ nonce \in [Addr -> Nat] /\ burnt \in Nat
  BY Zenon DEF TypeOK
<1>6. r.from \in Account /\ r.from \in Addr /\ r.from \notin Contract /\ r.value \in Nat
  BY RequestTypes, Zenon
<1>7. SupplyConserved'
  <2>1. total(balance') = total(balance) - fee
    <3>1. PICK x : x = r.from
      BY Zenon
    <3>2. PICK v : v = r.value
      BY Zenon
    <3>3. x \in Addr /\ v \in Nat /\ fee \in Nat /\ to \in Addr /\ balance \in [Addr -> Nat]
      BY <3>1, <3>2, <1>3, <1>5, <1>6, Zenon
    <3>4. balance' = [a \in Addr |-> balance[a] + (IF a = to THEN v ELSE 0)
                                             - (IF a = x THEN v + fee ELSE 0)]
      BY <3>1, <3>2, <1>4, Zenon
    <3> QED BY <3>3, <3>4, ApplyConserves, Zenon
  <2>2. total(balance) + burnt = total(Genesis)
    BY Zenon DEF CountInv, SupplyConserved
  <2>3. total(balance) \in Int
    <3>1. DOMAIN balance = Addr /\ \A a \in Addr : balance[a] \in Nat
      BY <1>5, Zenon
    <3>2. \A a \in Addr : balance[a] \in Int
      BY <3>1, SMT
    <3> QED BY <3>1, <3>2, FiniteAddr, TotalType, Zenon
  <2>4. total(balance') + burnt' = total(Genesis)
    BY <2>1, <2>2, <2>3, <1>3, <1>4, <1>5, SMT
  <2> QED BY <2>4, Zenon DEF SupplyConserved
<1>8. r \notin succeeded
  <2>1. r \in succeeded => txNonce[r] < nonce[r.from]
    BY Zenon DEF NonceInv
  <2> QED BY <2>1, <1>3, SMT
<1>9. IsFiniteSet(succeeded) /\ IsFiniteSet(succeeded')
  BY <1>4, FS_AddElement, Zenon DEF CountInv
<1>10. ASSUME NEW x \in Account
       PROVE  nonce'[x] = IF r.from = x THEN (IF r.to = NewContract THEN nonce[x] + 2 ELSE nonce[x] + 1)
                          ELSE nonce[x]
  <2>1. x \in Addr /\ x \notin Contract
    BY ConstantTypes, Zenon DEF Addr
  <2>2. CASE r.to = NewContract
    <3>1. nonce' = [nonce EXCEPT ![r.from] = txNonce[r] + 2, ![to] = 1] /\ x # to
      BY <2>1, <2>2, <1>2, <1>3, <1>4, Zenon DEF used
    <3> QED BY <3>1, <2>1, <2>2, <1>3, <1>5, <1>6, SMT
  <2>3. CASE r.to # NewContract
    <3>1. nonce' = [nonce EXCEPT ![r.from] = txNonce[r] + 1]
      BY <2>3, <1>4, Zenon DEF used
    <3> QED BY <3>1, <2>1, <2>3, <1>3, <1>5, <1>6, Zenon
  <2> QED BY <2>2, <2>3, Zenon
<1>11. ASSUME NEW x \in Account
       PROVE  LET own2 == {s \in succeeded' : s.from = x}
              IN  nonce'[x] = Cardinality(own2) + Cardinality({s \in own2 : s.to = NewContract})
  <2>1. PICK own : own = {s \in succeeded : s.from = x}
    BY Zenon
  <2>2. PICK made : made = {s \in own : s.to = NewContract}
    BY Zenon
  <2>3. PICK own2 : own2 = {s \in succeeded' : s.from = x}
    BY Zenon
  <2>4. PICK made2 : made2 = {s \in own2 : s.to = NewContract}
    BY Zenon
  <2>5. nonce[x] = Cardinality(own) + Cardinality(made)
    BY <2>1, <2>2, Zenon DEF CountInv, NonceCountsSuccesses
  <2>6. /\ Cardinality(own) \in Nat /\ Cardinality(made) \in Nat
        /\ Cardinality(own2) = IF r.from = x THEN Cardinality(own) + 1 ELSE Cardinality(own)
        /\ Cardinality(made2) = IF r.from = x /\ r.to = NewContract THEN Cardinality(made) + 1
                               ELSE Cardinality(made)
    <3>1. own \subseteq succeeded /\ made \subseteq succeeded /\ r \notin own /\ r \notin made
      BY <2>1, <2>2, <1>8, Zenon
    <3>2. IsFiniteSet(own) /\ IsFiniteSet(made)
      BY <3>1, <1>9, FS_Subset, Zenon
    <3>3. own2 = IF r.from = x THEN own \cup {r} ELSE own
      BY <2>1, <2>3, <1>4, Zenon
    <3>4. made2 = IF r.from = x /\ r.to = NewContract THEN made \cup {r} ELSE made
      BY <3>3, <2>2, <2>4, Zenon
    <3>5. Cardinality(own) \in Nat /\ Cardinality(made) \in Nat
      BY <3>2, FS_CardinalityType, Zenon
    <3>6. Cardinality(own \cup {r}) = Cardinality(own) + 1
          /\ Cardinality(made \cup {r}) = Cardinality(made) + 1
      BY <3>1, <3>2, FS_AddElement, Zenon
    <3> QED BY <3>3, <3>4, <3>5, <3>6, Zenon
  <2>7. nonce'[x] = Cardinality(own2) + Cardinality(made2)
    BY <2>5, <2>6, <1>10, SMT
  <2> QED BY <2>3, <2>4, <2>7, Zenon
<1>12. NonceCountsSuccesses'
  BY <1>11, Zenon DEF NonceCountsSuccesses
<1> QED BY <1>7, <1>9, <1>12, Zenon DEF CountInv

\* Every step keeps the supply and the nonces.
LEMMA StepCounts ==
  ASSUME Inv, CountInv, [Next]_vars
  PROVE  CountInv'
<1>1. CASE UNCHANGED state
  BY <1>1, Zenon DEF state, CountInv, SupplyConserved, NonceCountsSuccesses
<1>2. CASE ExecuteTransaction
  <2>1. PICK r : r = Head(pendingTxChan)
    BY Zenon
  <2>2. \/ valid(r) /\ \E gas \in gasUsed(r) : apply(r, gas)
        \/ UNCHANGED state
    BY <1>2, <2>1, Zenon DEF ExecuteTransaction, discard
  <2>3. TypeOK /\ PhaseInv /\ NonceInv /\ pendingTxChan # <<>>
    BY <1>2, Zenon DEF Inv, ExecuteTransaction
  <2>4. r \in Request /\ phase[r] \in {"queued", "done"}
    BY <2>1, <2>3, HeadOfChannel, Zenon
  <2>5. phase[r] # "new"
    BY <2>4, Zenon
  <2> QED BY <2>2, <2>3, <2>4, <2>5, <1>1, ApplyCounts, Zenon
<1> QED BY <1>1, <1>2, Zenon DEF Next, parseTransaction, rejectTransaction, acceptTransaction,
          queueTransaction, storeReceipt, connectEVMToDAG, vars

\* When the node starts the accounts have what Genesis gives them, contracts
\* have nothing, and nothing has been executed.
LEMMA InitCounts == Init => CountInv
<1> SUFFICES ASSUME Init
             PROVE  CountInv
  OBVIOUS
<1>1. /\ balance = [a \in Addr |-> IF a \in Account THEN Genesis[a] ELSE 0]
      /\ nonce = [a \in Addr |-> 0] /\ burnt = 0 /\ succeeded = {}
  BY Zenon DEF Init, initialBalance
<1>2. Genesis \in [Account -> Nat] /\ Account \subseteq Addr
  BY ConstantTypes, Zenon DEF Addr
<1>3. Genesis \in [Account -> Int] /\ balance \in [Addr -> Int]
  BY <1>1, <1>2, SMT
<1>4. (\A a \in Account : balance[a] = Genesis[a]) /\ (\A a \in Addr \ Account : balance[a] = 0)
  BY <1>1, <1>2, Zenon
<1>5. total(balance) = total(Genesis)
  BY <1>2, <1>3, <1>4, FiniteAddr, TotalPad
<1>6. total(Genesis) \in Int
  <2>1. DOMAIN Genesis = Account /\ (\A a \in Account : Genesis[a] \in Int) /\ IsFiniteSet(Account)
    BY <1>3, ConstantTypes, Zenon
  <2> QED BY <2>1, TotalType, Zenon
<1>7. SupplyConserved
  BY <1>1, <1>5, <1>6, SMT DEF SupplyConserved
<1>8. IsFiniteSet(succeeded) /\ Cardinality({}) = 0
  BY <1>1, FS_EmptySet, Zenon
<1>9. NonceCountsSuccesses
  <2>1. ASSUME NEW x \in Account
        PROVE  LET own == {s \in succeeded : s.from = x}
               IN  nonce[x] = Cardinality(own) + Cardinality({s \in own : s.to = NewContract})
    <3>1. PICK own : own = {s \in succeeded : s.from = x}
      BY Zenon
    <3>2. own = {} /\ {s \in own : s.to = NewContract} = {}
      BY <3>1, <1>1, Zenon
    <3>3. nonce[x] = 0
      BY <1>1, <1>2, Zenon
    <3>4. nonce[x] = Cardinality({}) + Cardinality({})
      BY <3>3, <1>8
    <3> QED BY <3>1, <3>2, <3>4, Zenon
  <2> QED BY <2>1, Zenon DEF NonceCountsSuccesses
<1> QED BY <1>7, <1>8, <1>9, Zenon DEF CountInv

\* The supply and the nonces in every reachable state.
LEMMA CountAlways == Spec => []CountInv
<1> QED BY InitCounts, StepCounts, InvAlways, PTL DEF Spec

\* Transactions move money and burn gas; they make no money and lose none,
\* whatever transactions are executed and whatever gas they use.
THEOREM SupplyAlwaysConserved == Spec => []SupplyConserved
<1>1. CountInv => SupplyConserved
  BY Zenon DEF CountInv
<1> QED BY <1>1, CountAlways, PTL

\* The nonce of an account is the number of its transactions that succeeded,
\* contract creations counted twice: validateTransaction accepts the next one
\* of a client that counts so, and failed transactions leave no gap.
THEOREM NonceAlwaysCounts == Spec => []NonceCountsSuccesses
<1>1. CountInv => NonceCountsSuccesses
  BY Zenon DEF CountInv
<1> QED BY <1>1, CountAlways, PTL

-----------------------------------------------------------------------------
(* What a receipt says *)

\* A request is in the channel once, and is gone from it when it is executed:
\* the processor comes to it once.
QueueInv ==
  /\ \A i \in 1..Len(pendingTxChan) : phase[pendingTxChan[i]] = "queued"
  /\ \A i, j \in 1..Len(pendingTxChan) : i # j => pendingTxChan[i] # pendingTxChan[j]
  /\ executing # None =>
       /\ phase[executing] = "queued"
       /\ \A i \in 1..Len(pendingTxChan) : pendingTxChan[i] # executing
  /\ \A r \in succeeded : phase[r] = "done" \/ r = executing

\* A receipt is under the hash of its transaction, and its status is whether
\* the state has the effect of that transaction.
receiptTrue(h) ==
  hashOf(txReceipts[h].request) = h /\ phase[txReceipts[h].request] = "done"
  /\ (txReceipts[h].status <=> txReceipts[h].request \in succeeded)
ReceiptsTrue == \A h \in TxHash : txReceipts[h] # None => receiptTrue(h)

\* A transaction the processor is done with has taken effect or never will.
DoneIsFinal ==
  [][\A r \in Request : phase[r] = "done" => (r \in succeeded' <=> r \in succeeded)]_vars

\* A step of sendTransaction for r, which is not in the channel yet.
LEMMA SendKeepsQueue ==
  ASSUME TypeOK, QueueInv, ReceiptsTrue, NEW r \in Request,
         \/ parseTransaction(r) \/ rejectTransaction(r) \/ acceptTransaction(r)
         \/ queueTransaction(r)
  PROVE  QueueInv' /\ ReceiptsTrue' /\ UNCHANGED succeeded
<1>1. UNCHANGED <<succeeded, executing, txReceipts>>
  BY Zenon DEF parseTransaction, rejectTransaction, acceptTransaction, queueTransaction, state, server
<1>2. phase[r] \in {"new", "parsed", "accepted"} /\ \E p : phase' = [phase EXCEPT ![r] = p]
  BY Zenon DEF parseTransaction, rejectTransaction, acceptTransaction, queueTransaction
<1>3. phase[r] # "queued" /\ phase[r] # "done"
  BY <1>2, Zenon
<1>4. /\ DOMAIN phase = Request /\ pendingTxChan \in Seq(Request) /\ succeeded \subseteq Request
      /\ executing \in Request \cup {None}
      /\ txReceipts \in [TxHash -> [request : Request, status : BOOLEAN] \cup {None}]
  BY Zenon DEF TypeOK
<1>5. \A s \in Request : s # r => phase'[s] = phase[s]
  BY <1>2, <1>4, Zenon
<1>6. ASSUME NEW i \in 1..Len(pendingTxChan)
      PROVE  pendingTxChan[i] # r /\ phase'[pendingTxChan[i]] = "queued"
  <2>1. pendingTxChan[i] \in Request
    BY <1>4, SMT
  <2>2. phase[pendingTxChan[i]] = "queued"
    BY Zenon DEF QueueInv
  <2> QED BY <2>1, <2>2, <1>3, <1>5, Zenon
<1>7. executing # None => executing # r /\ phase'[executing] = "queued"
  BY <1>3, <1>4, <1>5, Zenon DEF QueueInv
<1>8. \A s \in succeeded : phase'[s] = "done" \/ s = executing
  BY <1>3, <1>4, <1>5, Zenon DEF QueueInv
<1>9. \/ UNCHANGED pendingTxChan
      \/ pendingTxChan' = Append(pendingTxChan, r) /\ phase'[r] = "queued"
  BY <1>4, Zenon DEF parseTransaction, rejectTransaction, acceptTransaction, queueTransaction, server
<1>10. QueueInv'
  <2>1. CASE UNCHANGED pendingTxChan
    <3>1. pendingTxChan' = pendingTxChan /\ executing' = executing /\ succeeded' = succeeded
      BY <2>1, <1>1, Zenon
    <3>2. \A i, j \in 1..Len(pendingTxChan) : i # j => pendingTxChan[i] # pendingTxChan[j]
      BY Zenon DEF QueueInv
    <3>3. executing # None => \A i \in 1..Len(pendingTxChan) : pendingTxChan[i] # executing
      BY Zenon DEF QueueInv
    <3>4. \A i \in 1..Len(pendingTxChan) : phase'[pendingTxChan[i]] = "queued"
      BY <1>6, Zenon
    <3> QED BY <3>1, <3>2, <3>3, <3>4, <1>7, <1>8, ZenonT(40) DEF QueueInv
  <2>2. CASE pendingTxChan' = Append(pendingTxChan, r) /\ phase'[r] = "queued"
    <3>1. ASSUME NEW i \in 1..Len(pendingTxChan')
          PROVE  \/ i \in 1..Len(pendingTxChan) /\ pendingTxChan'[i] = pendingTxChan[i]
                 \/ i = Len(pendingTxChan) + 1 /\ pendingTxChan'[i] = r
      BY <2>2, <1>4, SMT
    <3>2. \A i \in 1..Len(pendingTxChan') : phase'[pendingTxChan'[i]] = "queued"
      BY <3>1, <2>2, <1>6, Zenon
    <3>3. ASSUME NEW i \in 1..Len(pendingTxChan'), NEW j \in 1..Len(pendingTxChan'), i # j
          PROVE  pendingTxChan'[i] # pendingTxChan'[j]
      <4>1. \A k, l \in 1..Len(pendingTxChan) : k # l => pendingTxChan[k] # pendingTxChan[l]
        BY Zenon DEF QueueInv
      <4>2. /\ \/ i \in 1..Len(pendingTxChan) /\ pendingTxChan'[i] = pendingTxChan[i]
               \/ i = Len(pendingTxChan) + 1 /\ pendingTxChan'[i] = r
            /\ \/ j \in 1..Len(pendingTxChan) /\ pendingTxChan'[j] = pendingTxChan[j]
               \/ j = Len(pendingTxChan) + 1 /\ pendingTxChan'[j] = r
        BY <3>1, Zenon
      <4> QED BY <4>1, <4>2, <3>3, <1>6, Zenon
    <3>4. executing # None => \A i \in 1..Len(pendingTxChan') : pendingTxChan'[i] # executing
      BY <3>1, <1>7, Zenon DEF QueueInv
    <3> QED BY <3>2, <3>3, <3>4, <1>1, <1>7, <1>8, Zenon DEF QueueInv
  <2> QED BY <2>1, <2>2, <1>9, Zenon
<1>11. ReceiptsTrue'
  <2>1. ASSUME NEW h \in TxHash, txReceipts[h] # None
        PROVE  /\ receiptTrue(h) /\ txReceipts[h].request \in Request
               /\ phase'[txReceipts[h].request] = "done"
    <3>1. receiptTrue(h)
      BY <2>1, Zenon DEF ReceiptsTrue
    <3>2. txReceipts[h] \in [request : Request, status : BOOLEAN]
      BY <2>1, <1>4, Zenon
    <3>3. txReceipts[h].request \in Request
      BY <3>2, SMT
    <3>4. phase[txReceipts[h].request] = "done"
      BY <3>1, Zenon DEF receiptTrue
    <3> QED BY <3>1, <3>3, <3>4, <1>3, <1>5, Zenon
  <2> QED BY <2>1, <1>1, Zenon DEF ReceiptsTrue, receiptTrue
<1> QED BY <1>1, <1>10, <1>11, Zenon

\* ExecuteTransaction takes a request from the channel that is not done.
LEMMA ExecuteKeepsQueue ==
  ASSUME TypeOK, QueueInv, ReceiptsTrue, ExecuteTransaction
  PROVE  /\ QueueInv' /\ ReceiptsTrue'
         /\ \A s \in Request : phase[s] = "done" => (s \in succeeded' <=> s \in succeeded)
<1>1. PICK r : r = Head(pendingTxChan)
  BY Zenon
<1>2. /\ executing = None /\ pendingTxChan # <<>>
      /\ pendingTxChan' = Tail(pendingTxChan) /\ executing' = r
      /\ UNCHANGED <<phase, txReceipts>>
  BY <1>1, Zenon DEF ExecuteTransaction
<1>3. succeeded' = succeeded \cup {r} \/ UNCHANGED succeeded
  BY <1>1, Zenon DEF ExecuteTransaction, apply, discard, state
<1>4. pendingTxChan \in Seq(Request) /\ succeeded \subseteq Request
      /\ txReceipts \in [TxHash -> [request : Request, status : BOOLEAN] \cup {None}]
  BY Zenon DEF TypeOK
<1>5. /\ Len(pendingTxChan) \in Nat /\ 1 \in 1..Len(pendingTxChan) /\ r = pendingTxChan[1]
      /\ r \in Request
  BY <1>1, <1>2, <1>4, SMT
<1>6. phase[r] = "queued" /\ phase[r] # "done"
  BY <1>5, Zenon DEF QueueInv
<1>7. ASSUME NEW i \in 1..Len(pendingTxChan')
      PROVE  /\ i + 1 \in 1..Len(pendingTxChan) /\ pendingTxChan'[i] = pendingTxChan[i + 1]
             /\ i + 1 # 1 /\ i \in Int
  BY <1>2, <1>4, <1>5, SMT
<1>8. \A i \in 1..Len(pendingTxChan') : phase[pendingTxChan'[i]] = "queued" /\ pendingTxChan'[i] # r
  <2>1. \A k \in 1..Len(pendingTxChan) : phase[pendingTxChan[k]] = "queued"
    BY Zenon DEF QueueInv
  <2>2. \A k \in 1..Len(pendingTxChan) : k # 1 => pendingTxChan[k] # pendingTxChan[1]
    BY <1>5, Zenon DEF QueueInv
  <2>3. ASSUME NEW i \in 1..Len(pendingTxChan')
        PROVE  phase[pendingTxChan'[i]] = "queued" /\ pendingTxChan'[i] # r
    <3>1. PICK k \in 1..Len(pendingTxChan) : k # 1 /\ pendingTxChan'[i] = pendingTxChan[k]
      BY <1>7, Zenon
    <3> QED BY <3>1, <2>1, <2>2, <1>5, Zenon
  <2> QED BY <2>3, Zenon
<1>9. ASSUME NEW i \in 1..Len(pendingTxChan'), NEW j \in 1..Len(pendingTxChan'), i # j
      PROVE  pendingTxChan'[i] # pendingTxChan'[j]
  <2>1. i \in Int /\ j \in Int
    BY <1>7, Zenon
  <2>2. i + 1 # j + 1
    BY <2>1, <1>9, SMT
  <2>3. /\ i + 1 \in 1..Len(pendingTxChan) /\ pendingTxChan'[i] = pendingTxChan[i + 1]
        /\ j + 1 \in 1..Len(pendingTxChan) /\ pendingTxChan'[j] = pendingTxChan[j + 1]
    BY <1>7, Zenon
  <2>4. \A k, l \in 1..Len(pendingTxChan) : k # l => pendingTxChan[k] # pendingTxChan[l]
    BY Zenon DEF QueueInv
  <2>5. pendingTxChan[i + 1] # pendingTxChan[j + 1]
    BY <2>2, <2>3, <2>4, Zenon
  <2> QED BY <2>3, <2>5, Zenon
<1>10. \A s \in succeeded' : phase[s] = "done" \/ s = r
  BY <1>2, <1>3, <1>4, RequestTypes, Zenon DEF QueueInv
<1>11. QueueInv'
  BY <1>2, <1>6, <1>8, <1>9, <1>10, Zenon DEF QueueInv
<1>12. \A s \in Request : phase[s] = "done" => (s \in succeeded' <=> s \in succeeded)
  BY <1>3, <1>6, Zenon
<1>13. ReceiptsTrue'
  <2>1. ASSUME NEW h \in TxHash, txReceipts[h] # None
        PROVE  receiptTrue(h)'
    <3>1. receiptTrue(h)
      BY <2>1, Zenon DEF ReceiptsTrue
    <3>2. txReceipts[h] \in [request : Request, status : BOOLEAN]
      BY <2>1, <1>4, Zenon
    <3>3. txReceipts[h].request \in Request
      BY <3>2, SMT
    <3> QED BY <3>1, <3>3, <1>2, <1>12, Zenon DEF receiptTrue
  <2> QED BY <2>1, <1>2, Zenon DEF ReceiptsTrue
<1> QED BY <1>11, <1>12, <1>13, Zenon

\* storeReceipt files what ExecuteTransaction did.
LEMMA StoreKeepsQueue ==
  ASSUME TypeOK, QueueInv, ReceiptsTrue, storeReceipt
  PROVE  QueueInv' /\ ReceiptsTrue' /\ UNCHANGED succeeded
<1>1. PICK r : r = executing
  BY Zenon
<1>2. PICK c : c = [request |-> r, status |-> r \in succeeded]
  BY Zenon
<1>3. /\ r # None /\ executing' = None
      /\ phase' = [phase EXCEPT ![r] = "done"]
      /\ txReceipts' = [txReceipts EXCEPT ![hashOf(r)] = c]
      /\ UNCHANGED <<succeeded, pendingTxChan>>
  BY <1>1, <1>2, Zenon DEF storeReceipt, state
<1>4. /\ pendingTxChan \in Seq(Request) /\ succeeded \subseteq Request /\ r \in Request
      /\ DOMAIN phase = Request
      /\ txReceipts \in [TxHash -> [request : Request, status : BOOLEAN] \cup {None}]
  BY <1>1, <1>3, Zenon DEF TypeOK
<1>5. phase'[r] = "done" /\ \A s \in Request : s # r => phase'[s] = phase[s]
  BY <1>3, <1>4, Zenon
<1>6. ASSUME NEW i \in 1..Len(pendingTxChan)
      PROVE  phase'[pendingTxChan[i]] = "queued"
  <2>1. pendingTxChan[i] \in Request
    BY <1>4, SMT
  <2>2. phase[pendingTxChan[i]] = "queued" /\ pendingTxChan[i] # r
    BY <1>1, <1>3, Zenon DEF QueueInv
  <2> QED BY <2>1, <2>2, <1>5, Zenon
<1>7. \A s \in succeeded : phase'[s] = "done"
  BY <1>1, <1>4, <1>5, Zenon DEF QueueInv
<1>8. QueueInv'
  <2>1. pendingTxChan' = pendingTxChan /\ succeeded' = succeeded /\ executing' = None
    BY <1>3, Zenon
  <2>2. \A i, j \in 1..Len(pendingTxChan) : i # j => pendingTxChan[i] # pendingTxChan[j]
    BY Zenon DEF QueueInv
  <2>3. \A i \in 1..Len(pendingTxChan') : phase'[pendingTxChan'[i]] = "queued"
    BY <2>1, <1>6, Zenon
  <2>4. \A i, j \in 1..Len(pendingTxChan') : i # j => pendingTxChan'[i] # pendingTxChan'[j]
    BY <2>1, <2>2, Zenon
  <2>5. \A s \in succeeded' : phase'[s] = "done"
    BY <2>1, <1>7, Zenon
  <2>6. executing' = None
    BY <2>1, Zenon
  <2> QED BY <2>3, <2>4, <2>5, <2>6, Zenon DEF QueueInv
<1>9. hashOf(r) \in TxHash /\ c.request = r /\ (c.status <=> r \in succeeded)
  <2>1. hashOf(r) \in TxHash
    BY <1>4, RequestTypes, Zenon
  <2>2. c.request = r /\ c.status = (r \in succeeded)
    BY <1>2, SMT
  <2> QED BY <2>1, <2>2, Zenon
<1>10. ASSUME NEW h \in TxHash, txReceipts'[h] # None
       PROVE  receiptTrue(h)'
  <2>1. CASE h = hashOf(r)
    <3>1. txReceipts'[h] = c
      BY <2>1, <1>3, <1>4, <1>9, Zenon
    <3> QED BY <3>1, <2>1, <1>3, <1>5, <1>9, Zenon DEF receiptTrue
  <2>2. CASE h # hashOf(r)
    <3>1. txReceipts'[h] = txReceipts[h]
      BY <2>2, <1>3, <1>4, Zenon
    <3>2. receiptTrue(h)
      BY <3>1, <1>10, Zenon DEF ReceiptsTrue
    <3>3. txReceipts[h] \in [request : Request, status : BOOLEAN]
      BY <3>1, <1>4, <1>10, Zenon
    <3>4. txReceipts[h].request \in Request
      BY <3>3, SMT
    <3>5. phase'[txReceipts[h].request] = "done"
      BY <3>2, <3>4, <1>5, Zenon DEF receiptTrue
    <3>6. PICK d : d = txReceipts[h]
      BY Zenon
    <3>7. /\ hashOf(d.request) = h /\ phase'[d.request] = "done"
          /\ (d.status <=> d.request \in succeeded)
      BY <3>2, <3>5, <3>6, Zenon DEF receiptTrue
    <3>8. txReceipts'[h] = d /\ succeeded' = succeeded
      BY <3>1, <3>6, <1>3, Zenon
    <3> QED BY <3>7, <3>8, Zenon DEF receiptTrue
  <2> QED BY <2>1, <2>2, Zenon
<1> QED BY <1>3, <1>8, <1>10, Zenon DEF ReceiptsTrue

\* Every step keeps the queue and the receipts, and what is done.
LEMMA StepReceipts ==
  ASSUME TypeOK, QueueInv, ReceiptsTrue, [Next]_vars
  PROVE  /\ QueueInv' /\ ReceiptsTrue'
         /\ \A r \in Request : phase[r] = "done" => (r \in succeeded' <=> r \in succeeded)
<1>1. CASE \E r \in Request : \/ parseTransaction(r) \/ rejectTransaction(r)
                              \/ acceptTransaction(r) \/ queueTransaction(r)
  BY <1>1, SendKeepsQueue, Zenon
<1>2. CASE ExecuteTransaction
  BY <1>2, ExecuteKeepsQueue, Zenon
<1>3. CASE storeReceipt
  BY <1>3, StoreKeepsQueue, Zenon
<1>4. CASE UNCHANGED <<succeeded, phase, pendingTxChan, executing, txReceipts>>
  BY <1>4, Zenon DEF QueueInv, ReceiptsTrue, receiptTrue
<1>5. CASE connectEVMToDAG \/ UNCHANGED vars
  BY <1>4, <1>5, Zenon DEF connectEVMToDAG, vars, state, server
<1> QED BY <1>1, <1>2, <1>3, <1>5, Zenon DEF Next

\* Nothing is queued or filed when the node starts.
LEMMA InitReceipts == Init => QueueInv /\ ReceiptsTrue
<1> SUFFICES ASSUME Init
             PROVE  QueueInv /\ ReceiptsTrue
  OBVIOUS
<1>1. pendingTxChan = <<>> /\ executing = None /\ succeeded = {}
      /\ txReceipts = [h \in TxHash |-> None]
  BY Zenon DEF Init
<1>2. \A i \in 1..Len(pendingTxChan) : FALSE
  BY <1>1, SMT
<1>3. QueueInv
  BY <1>1, <1>2, Zenon DEF QueueInv
<1>4. ReceiptsTrue
  BY <1>1, Zenon DEF ReceiptsTrue
<1> QED BY <1>3, <1>4, Zenon

\* The queue and the receipts in every reachable state.
LEMMA ReceiptsInv == Spec => [](QueueInv /\ ReceiptsTrue)
<1>1. Inv => TypeOK
  BY Zenon DEF Inv
<1> QED BY <1>1, InitReceipts, StepReceipts, InvAlways, PTL DEF Spec

\* What eth_getTransactionReceipt returns for a hash is the receipt of a
\* transaction with that hash, and says success exactly if the state of the
\* executor has the effect of the transaction.
THEOREM ReceiptsAlwaysTrue == Spec => []ReceiptsTrue
<1> QED BY ReceiptsInv, PTL

\* The verdict on a transaction is final: processSingleTransaction comes to a
\* request once, so one that failed does not take effect later, and the effect
\* of one that succeeded is not taken back.
THEOREM DoneStaysFinal == Spec => DoneIsFinal
<1>1. Inv => TypeOK
  BY Zenon DEF Inv
<1> QED BY <1>1, StepReceipts, ReceiptsInv, InvAlways, PTL DEF Spec, DoneIsFinal
=============================================================================
