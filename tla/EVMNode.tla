------------------------------ MODULE EVMNode ------------------------------
(***************************************************************************)
(* The EVM side of the integrated node: the RPC server                     *)
(* (internal/api/rpc.go) with its table of pending transactions, its       *)
(* channel, its processor goroutine and its receipts, the executor with    *)
(* its state (internal/evm/execution.go, state.go, account.go, types.go),  *)
(* and the goroutine that hands pending transactions to the DAG            *)
(* (cmd/integrated-node/main.go).  cmd/evm-node runs the same server       *)
(* without the processor and without the DAG.                              *)
(*                                                                         *)
(* Every HTTP request runs in a goroutine of its own.  parseTransaction    *)
(* reads the nonce, validateTransactionBasic the balance, and both may     *)
(* have changed when the processor executes the transaction.  A receipt    *)
(* and a pending transaction are filed under CreateHash, which covers the  *)
(* sender, the receiver and the data only.                                 *)
(*                                                                         *)
(* What go-ethereum does is taken from how execution.go uses it: a         *)
(* transfer costs no gas, code uses some gas and succeeds or fails, and    *)
(* Create uses up one more nonce of the sender.  Value that contract code  *)
(* moves on its own is left out.                                           *)
(***************************************************************************)
EXTENDS Integers, Sequences, FiniteSets, Totals

CONSTANTS
  Account,         \* accounts with a key
  Genesis,         \* their balances when the node starts
  Request,         \* eth_sendTransaction requests: records id, from, to, value,
                   \* gasLimit, gasPrice, data
  NewContract,     \* the receiver of a contract creation
  None,            \* no entry in a table
  ChanCapacity,    \* capacity of pendingTxChan (1000)
  MaxNonce,        \* bound: nonces of an account
  MaxForwards      \* bound: times a request is handed to the DAG

\* A contract has an address made of its creator and a nonce.
Contract == Account \X (0..MaxNonce)
Addr == Account \cup Contract

ASSUME ConstantTypes ==
  /\ IsFiniteSet(Account)
  /\ Genesis \in [Account -> Nat]
  /\ {ChanCapacity, MaxNonce, MaxForwards} \subseteq Nat
  /\ Account \cap Contract = {}
  /\ NewContract \notin Addr
  /\ \A r \in Request :
       /\ r.from \in Account
       /\ r.to \in Addr \cup {NewContract}
       /\ {r.value, r.gasLimit, r.gasPrice} \subseteq Nat
  /\ None \notin Request \cup [request : Request, status : BOOLEAN]

VARIABLES
  balance,        \* balances of the executor's state
  nonce,          \* nonces of the executor's state
  burnt,          \* history: gas costs deducted, which nobody gets
  phase,          \* how far a request is
  txNonce,        \* the nonce parseTransaction gave it
  pendingTxs,     \* s.pendingTxs: hash -> request
  pendingTxChan,  \* s.pendingTxChan
  executing,      \* request the processor executed and has to file a receipt for
  txReceipts,     \* s.txReceipts: hash -> request and status
  succeeded,      \* history: requests that were executed with success
  forwarded       \* times a request was handed to AddPendingTransaction

state == <<balance, nonce, burnt, succeeded>>
server == <<pendingTxs, pendingTxChan, executing, txReceipts>>
vars == <<state, phase, txNonce, server, forwarded>>

\* CreateHash.
hashOf(r) == <<r.from, r.to, r.data>>
TxHash == {hashOf(r) : r \in Request}
\* Mutant of totalCost: the value is left out.
gasCost(r) == r.gasLimit * r.gasPrice

totalCost(r) == r.gasLimit * r.gasPrice + r.value

\* CreateTestAccounts; any other account is empty.
initialBalance == [a \in Addr |-> IF a \in Account THEN Genesis[a] ELSE 0]

Init ==
  /\ balance = initialBalance
  /\ nonce = [a \in Addr |-> 0]
  /\ burnt = 0
  /\ succeeded = {}
  /\ phase = [r \in Request |-> "new"]
  /\ txNonce = [r \in Request |-> 0]
  /\ pendingTxs = [h \in TxHash |-> None]
  /\ pendingTxChan = <<>>
  /\ executing = None
  /\ txReceipts = [h \in TxHash |-> None]
  /\ forwarded = [r \in Request |-> 0]

-----------------------------------------------------------------------------
(* sendTransaction *)

\* The bound on nonces: a contract has an address in Addr.
nonceInBounds(r) == r.to = NewContract => nonce[r.from] < MaxNonce

parseTransaction(r) ==
  /\ phase[r] = "new"
  /\ nonceInBounds(r)
  /\ phase' = [phase EXCEPT ![r] = "parsed"]
  /\ txNonce' = [txNonce EXCEPT ![r] = nonce[r.from]]
  /\ UNCHANGED <<state, server, forwarded>>

validateTransactionBasic(r) == balance[r.from] >= totalCost(r)

rejectTransaction(r) ==
  /\ phase[r] = "parsed"
  /\ ~validateTransactionBasic(r)
  /\ phase' = [phase EXCEPT ![r] = "rejected"]
  /\ UNCHANGED <<state, txNonce, server, forwarded>>

acceptTransaction(r) ==
  /\ phase[r] = "parsed"
  /\ validateTransactionBasic(r)
  /\ phase' = [phase EXCEPT ![r] = "accepted"]
  /\ pendingTxs' = [pendingTxs EXCEPT ![hashOf(r)] = r]
  /\ UNCHANGED <<state, txNonce, pendingTxChan, executing, txReceipts, forwarded>>

\* Mutant of queueTransaction: a transaction that finds the channel full is
\* no longer pending.
queueOrForget(r) ==
  /\ phase[r] = "accepted"
  /\ \/ /\ Len(pendingTxChan) < ChanCapacity
        /\ pendingTxChan' = Append(pendingTxChan, r)
        /\ phase' = [phase EXCEPT ![r] = "queued"]
        /\ UNCHANGED pendingTxs
     \/ /\ Len(pendingTxChan) = ChanCapacity
        /\ phase' = [phase EXCEPT ![r] = "dropped"]
        /\ pendingTxs' = [pendingTxs EXCEPT ![hashOf(r)] = None]
        /\ UNCHANGED pendingTxChan
  /\ UNCHANGED <<state, txNonce, executing, txReceipts, forwarded>>

\* The select with a default: a transaction that finds the channel full is
\* not sent again.
queueTransaction(r) ==
  /\ phase[r] = "accepted"
  /\ \/ /\ Len(pendingTxChan) < ChanCapacity
        /\ pendingTxChan' = Append(pendingTxChan, r)
        /\ phase' = [phase EXCEPT ![r] = "queued"]
     \/ /\ Len(pendingTxChan) = ChanCapacity
        /\ phase' = [phase EXCEPT ![r] = "dropped"]
        /\ UNCHANGED pendingTxChan
  /\ UNCHANGED <<state, txNonce, pendingTxs, executing, txReceipts, forwarded>>

-----------------------------------------------------------------------------
(* The executor *)

\* Mutant of valid: the nonce is not checked.
validAnyNonce(r) == balance[r.from] >= totalCost(r)

\* validateTransaction.
valid(r) == nonce[r.from] = txNonce[r] /\ balance[r.from] >= totalCost(r)

\* evm.Create derives the address of a contract from the nonce it finds, which
\* executeInternal has incremented already.
receiver(r) == IF r.to = NewContract THEN <<r.from, txNonce[r] + 1>> ELSE r.to

\* The gas evm.Call or evm.Create may use: none when no code runs.
gasUsed(r) == IF r.to \in Account THEN {0} ELSE 0..r.gasLimit

\* Mutant of paid: the value is credited and not debited.
creditedOnly(r, gas) ==
  [a \in Addr |-> balance[a] + (IF a = receiver(r) THEN r.value ELSE 0)
                             - (IF a = r.from THEN gas * r.gasPrice ELSE 0)]

\* The balances after the transfer of the value and the deduction of the gas.
paid(r, gas) ==
  [a \in Addr |-> balance[a] + (IF a = receiver(r) THEN r.value ELSE 0)
                             - (IF a = r.from THEN r.value + gas * r.gasPrice ELSE 0)]

\* The nonces after it.
used(r) ==
  IF r.to = NewContract THEN [nonce EXCEPT ![r.from] = txNonce[r] + 2, ![receiver(r)] = 1]
  ELSE [nonce EXCEPT ![r.from] = txNonce[r] + 1]

\* The snapshot after executeInternal, which becomes the state of the executor.
apply(r, gas) ==
  /\ balance' = paid(r, gas)
  /\ nonce' = used(r)
  /\ burnt' = burnt + gas * r.gasPrice
  /\ succeeded' = succeeded \cup {r}

\* Mutant of discard: the snapshot of a failed transaction becomes the state.
discardLate(r) == nonce' = [nonce EXCEPT ![r.from] = @ + 1] /\ UNCHANGED <<balance, burnt, succeeded>>

\* An invalid or failed transaction changes nothing: no nonce, no gas.
discard(r) == UNCHANGED state

\* ExecuteTransaction, called by the processor goroutine.
ExecuteTransaction ==
  LET r == Head(pendingTxChan)
  IN  /\ executing = None
      /\ pendingTxChan # <<>>
      /\ pendingTxChan' = Tail(pendingTxChan)
      /\ executing' = r
      /\ \/ valid(r) /\ \E gas \in gasUsed(r) : apply(r, gas)
         \/ valid(r) /\ r.to \notin Account /\ discard(r)
         \/ ~valid(r) /\ discard(r)
      /\ UNCHANGED <<phase, txNonce, pendingTxs, txReceipts, forwarded>>

\* Mutant of storeReceipt: no receipt for a transaction that failed.
storeReceiptOfSuccess ==
  /\ executing # None
  /\ executing' = None
  /\ phase' = [phase EXCEPT ![executing] = "done"]
  /\ txReceipts' = [txReceipts EXCEPT ![hashOf(executing)] =
       IF executing \in succeeded THEN [request |-> executing, status |-> TRUE] ELSE @]
  /\ pendingTxs' = [pendingTxs EXCEPT ![hashOf(executing)] = None]
  /\ UNCHANGED <<state, txNonce, pendingTxChan, forwarded>>

\* The end of processSingleTransaction, under the lock of the server.
storeReceipt ==
  /\ executing # None
  /\ executing' = None
  /\ phase' = [phase EXCEPT ![executing] = "done"]
  /\ txReceipts' = [txReceipts EXCEPT ![hashOf(executing)] =
       [request |-> executing, status |-> executing \in succeeded]]
  /\ pendingTxs' = [pendingTxs EXCEPT ![hashOf(executing)] = None]
  /\ UNCHANGED <<state, txNonce, pendingTxChan, forwarded>>

-----------------------------------------------------------------------------
(* The integrated node *)

pendingRequests == {pendingTxs[h] : h \in TxHash} \ {None}

\* A tick: every pending transaction is handed to the DAG, again and again
\* until it has a receipt.
connectEVMToDAG ==
  /\ \E r \in pendingRequests : forwarded[r] < MaxForwards
  /\ forwarded' = [r \in Request |->
       IF r \in pendingRequests /\ forwarded[r] < MaxForwards THEN forwarded[r] + 1 ELSE forwarded[r]]
  /\ UNCHANGED <<state, phase, txNonce, server>>

\* What a client is told about its transaction.
getTransactionReceipt(r) == txReceipts[hashOf(r)]

process == ExecuteTransaction \/ storeReceipt

Next ==
  \/ \E r \in Request : parseTransaction(r) \/ rejectTransaction(r) \/ acceptTransaction(r)
                          \/ queueTransaction(r)
  \/ ExecuteTransaction
  \/ storeReceipt
  \/ connectEVMToDAG

Spec == Init /\ [][Next]_vars

\* The goroutine of a request ends its work, the processor loops, the ticker
\* of the bridge goes on.
Fairness ==
  /\ \A r \in Request : WF_vars(queueTransaction(r))
  /\ WF_vars(process)
  /\ WF_vars(connectEVMToDAG)
FairSpec == Spec /\ Fairness

-----------------------------------------------------------------------------
(* Properties *)

\* The types of the variables.
TypeOK ==
  /\ balance \in [Addr -> Nat]
  /\ nonce \in [Addr -> Nat]
  /\ burnt \in Nat
  /\ succeeded \subseteq Request
  /\ phase \in [Request -> {"new", "parsed", "rejected", "accepted", "queued", "dropped", "done"}]
  /\ txNonce \in [Request -> Nat]
  /\ pendingTxs \in [TxHash -> Request \cup {None}]
  /\ pendingTxChan \in Seq(Request)
  /\ executing \in Request \cup {None}
  /\ txReceipts \in [TxHash -> [request : Request, status : BOOLEAN] \cup {None}]
  /\ forwarded \in [Request -> 0..MaxForwards]

\* Money is neither made nor lost: the balances and the gas that was deducted
\* add up to what the accounts had when the node started.
SupplyConserved == total(balance) + burnt = total(Genesis)

\* The nonce of an account counts its transactions that succeeded, a contract
\* creation twice; a transaction that failed in between leaves no gap.
NonceCountsSuccesses ==
  \A x \in Account :
    LET own == {r \in succeeded : r.from = x}
    IN  nonce[x] = Cardinality(own) + Cardinality({r \in own : r.to = NewContract})

\* Two transactions of a sender that succeeded had different nonces: of
\* requests that read the same nonce the executor lets one through.
OneSuccessPerNonce ==
  \A r, s \in succeeded : r # s /\ r.from = s.from => txNonce[r] # txNonce[s]

\* A client that got a hash from sendTransaction finds the transaction pending
\* or a receipt under the hash, also when another request shares the hash.
AcceptedIsVisible ==
  \A r \in Request : phase[r] \in {"accepted", "queued", "dropped", "done"} =>
    pendingTxs[hashOf(r)] # None \/ getTransactionReceipt(r) # None

\* A transaction that got into the channel gets a receipt under its hash.
QueuedGetsReceipt ==
  \A r \in Request : phase[r] = "queued" ~> getTransactionReceipt(r) # None

\* A transaction sendTransaction accepted is executed or, when the channel was
\* full, at least handed to the DAG.
AcceptedIsHandled ==
  \A r \in Request : phase[r] = "accepted" ~>
    \/ getTransactionReceipt(r) # None
    \/ \E s \in Request : hashOf(s) = hashOf(r) /\ forwarded[s] > 0

\* The executor implements the ledger: whatever requests do at the same time,
\* each step of the state is the effect of one transaction that was paid for.
Ledger == INSTANCE AccountLedger WITH Creatable <- Contract, InitialBalance <- initialBalance
ImplementsLedger == Ledger!LedgerSpec
=============================================================================
