--------------------------- MODULE AccountLedger ---------------------------
(***************************************************************************)
(* What a ledger of accounts promises its users, whatever executes the     *)
(* transactions: a step is the effect of one transaction of one sender.    *)
(* It moves a value to one other account, burns a fee the sender can pay   *)
(* next to the value, and uses up nonces of the sender.  EVMNode           *)
(* implements it.                                                          *)
(***************************************************************************)
EXTENDS Integers

CONSTANTS
  Addr,            \* accounts
  Creatable,       \* accounts that come into being with a transaction
  InitialBalance   \* balances at the start

VARIABLES
  balance,  \* balance[a]: what the account holds
  nonce,    \* nonce[a]: nonces of the account that are used up
  burnt     \* fees taken so far

ledgerVars == <<balance, nonce, burnt>>

LedgerInit ==
  /\ balance = InitialBalance
  /\ nonce = [a \in Addr |-> 0]
  /\ burnt = 0

move(from, to, value, fee) ==
  balance' = [a \in Addr |-> balance[a] + (IF a = to THEN value ELSE 0)
                                        - (IF a = from THEN value + fee ELSE 0)]

\* A transfer or a call uses one nonce.
Pay(from, to, value, fee) ==
  /\ balance[from] >= value + fee
  /\ nonce' = [nonce EXCEPT ![from] = @ + 1]
  /\ move(from, to, value, fee)

\* The creation of an account uses two, and marks the new account as taken.
Create(from, to, value, fee) ==
  /\ balance[from] >= value + fee
  /\ nonce[to] = 0
  /\ nonce' = [nonce EXCEPT ![from] = @ + 2, ![to] = 1]
  /\ move(from, to, value, fee)

LedgerNext ==
  \E from \in Addr \ Creatable : \E fee \in 0..balance[from] :
    /\ burnt' = burnt + fee
    /\ \E value \in 0..balance[from] :
         \/ \E to \in Addr : Pay(from, to, value, fee)
         \/ \E to \in Creatable : Create(from, to, value, fee)

LedgerSpec == LedgerInit /\ [][LedgerNext]_ledgerVars
=============================================================================
