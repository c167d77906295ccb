---------------------------- MODULE Broadcaster ----------------------------
(***************************************************************************)
(* crates/executor/src/broadcaster.rs: the private routes. The transaction *)
(* is signed by a TxSigner of its own, with the nonce the chain reports at *)
(* that moment, and submitted to the relay for a future block: once for    *)
(* FlashbotsBundle, once per chunk for SplitExecution - the same signed    *)
(* transaction each time. The answer does not wait for a block.            *)
(***************************************************************************)
EXTENDS Account, Dispatch

CONSTANT MaxChunks      \* chunks compute_chunks can return, at most

ASSUME Chunks == MaxChunks \in Nat \ {0}

VARIABLES
  bundle,           \* the signed transaction of this call
  chunksLeft        \* submissions left; 0 outside a call

broadcasterVars == <<bundle, chunksLeft>>

NoBundle == [trade |-> 0, nonce |-> 0, fee |-> 0]

BroadcasterInit == bundle = NoBundle /\ chunksLeft = 0

Called == order.at = "sent" /\ order.route # "Public"

\* Paper mode, and every error before the first submission.
ReturnUnsubmitted(paper) ==
  /\ Called /\ chunksLeft = 0
  /\ Return(IF paper THEN "simulated" ELSE "failed")
  /\ UNCHANGED <<bundle, chunksLeft>>
  /\ UNCHANGED chainVars

\* sign_tx: the nonce is get_transaction_count, the fee the node's estimate.
SignTx ==
  /\ Called /\ chunksLeft = 0
  /\ bundle' = [trade |-> order.trade, nonce |-> chainNonce, fee |-> 1]
  /\ chunksLeft' \in IF order.route = "Flashbots" THEN {1} ELSE 1 .. MaxChunks
  /\ UNCHANGED dispatchVars
  /\ UNCHANGED chainVars

RelayTakes ==
  /\ bundles' = bundles \union {bundle}
  /\ UNCHANGED <<chainNonce, pool, ledger>>

SubmitBundle ==
  /\ Called /\ chunksLeft > 0
  /\ RelayTakes
  /\ chunksLeft' = chunksLeft - 1
  /\ UNCHANGED bundle
  /\ IF chunksLeft = 1 THEN Return("accepted") ELSE UNCHANGED dispatchVars

\* The relay refuses, or its answer is lost: the chunks submitted before stay
\* submitted.
SubmitFails ==
  /\ Called /\ chunksLeft > 0
  /\ RelayTakes \/ UNCHANGED chainVars
  /\ chunksLeft' = 0
  /\ UNCHANGED bundle
  /\ Return("failed")

BroadcasterTypeOK ==
  /\ bundle \in Tx
  /\ chunksLeft \in 0 .. MaxChunks
=============================================================================
