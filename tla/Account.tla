------------------------------ MODULE Account ------------------------------
(***************************************************************************)
(* The environment of the executor: the bot's account on the chain, the    *)
(* node's pool and the relay's bundles, as far as the code can tell.       *)
(*                                                                         *)
(* None of it is in the repository. It is modelled from how the executor   *)
(* uses it: get_transaction_count is the number of transactions mined, a   *)
(* transaction is mined at its nonce and at no other, an accepted one may  *)
(* be mined at any later time or never, and a node refuses a nonce that is *)
(* used up and a replacement that does not pay more.                       *)
(***************************************************************************)
EXTENDS Integers

VARIABLES
  chainNonce,       \* get_transaction_count: transactions mined so far
  pool,             \* accepted by the node, not mined
  bundles,          \* accepted by the Flashbots relay, not mined
  ledger            \* the bot's mined transactions, with their receipt status

chainVars == <<chainNonce, pool, bundles, ledger>>

\* Trades are numbered. Two transactions of one trade with the same nonce and fee are the same
\* signed bytes, hence the same hash.
Tx == [trade : Nat, nonce : Nat, fee : Nat]

Receipt(tx, ok) == [tx |-> tx, ok |-> ok]

AccountInit ==
  /\ chainNonce \in {0, 1}      \* a fresh account, or one used before
  /\ pool = {} /\ bundles = {} /\ ledger = {}

NodeAdmits(tx) ==
  /\ tx.nonce >= chainNonce
  /\ \A p \in pool : p.nonce = tx.nonce => p.fee < tx.fee

\* A block takes the transaction at the account's nonce; what else was signed
\* for that nonce can never be mined.
Mine(tx, ok) ==
  /\ tx \in pool \union bundles
  /\ tx.nonce = chainNonce
  /\ ledger' = ledger \union {Receipt(tx, ok)}
  /\ chainNonce' = chainNonce + 1
  /\ pool' = {p \in pool : p.nonce > chainNonce}
  /\ bundles' = {b \in bundles : b.nonce > chainNonce}

\* The target block of a bundle passes without it.
BundleExpires(tx) ==
  /\ tx \in bundles
  /\ bundles' = bundles \ {tx}
  /\ UNCHANGED <<chainNonce, pool, ledger>>

AccountTypeOK ==
  /\ chainNonce \in Nat
  /\ pool \subseteq Tx /\ bundles \subseteq Tx
  /\ ledger \subseteq [tx : Tx, ok : BOOLEAN]

\* Trades that took effect on the chain.
Executed == {r.tx.trade : r \in {q \in ledger : q.ok}}
=============================================================================
