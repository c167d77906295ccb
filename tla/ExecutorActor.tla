--------------------------- MODULE ExecutorActor ---------------------------
(***************************************************************************)
(* crates/executor/src/actor.rs: the task that owns the signer's nonce.    *)
(*                                                                         *)
(* One order at a time: sign with the actor's nonce, send, wait for the    *)
(* receipt at most ATTEMPT_TIMEOUT_SECS, and on a timeout send again with  *)
(* the same nonce and a higher fee, MAX_RETRIES times in all. Every await  *)
(* is a step, so blocks are mined between any two of them, and every RPC   *)
(* call can fail, the sending one after the node took the transaction.     *)
(***************************************************************************)
EXTENDS Account, Dispatch

CONSTANT MAX_RETRIES    \* attempts per order

ASSUME Retries == MAX_RETRIES \in Nat \ {0}

VARIABLES
  isPaper,          \* VERTEXA_PAPER, fixed at start
  nonce,            \* self.nonce
  actor,            \* where execute_real is
  signed            \* history: transactions the actor signed

actorVars == <<isPaper, nonce, actor, signed>>

\* `sent` is the transaction whose receipt is awaited, `level` the number of
\* escalations so far.
Idle == [at |-> "idle", attempt |-> 0, level |-> 0]

ActorSteps == {"starting", "idle", "sending", "waiting"}

ActorInit ==
  /\ isPaper \in BOOLEAN
  /\ nonce = 0
  /\ actor = [Idle EXCEPT !.at = "starting"]
  /\ signed = {}

\* run: get_transaction_count, whose failure is logged and leaves nonce 0.
InitNonce ==
  /\ actor.at = "starting"
  /\ nonce' \in IF isPaper THEN {0} ELSE {chainNonce, 0}
  /\ actor' = Idle
  /\ UNCHANGED <<isPaper, signed>>
  /\ UNCHANGED <<chainVars, dispatchVars>>

\* Answer the order and go back to the channel.
Reply(verdict) ==
  /\ Return(verdict)
  /\ actor' = Idle
  /\ UNCHANGED chainVars

Received ==
  /\ actor.at = "idle"
  /\ order.at = "sent" /\ order.route = "Public"

ExecutePaper ==
  /\ Received /\ isPaper
  /\ Reply("simulated")
  /\ UNCHANGED <<isPaper, nonce, signed>>

\* connect, estimate_gas or get_fee_history fails before the first attempt.
PrepareFails ==
  /\ Received /\ ~isPaper
  /\ Reply("failed")
  /\ UNCHANGED <<isPaper, nonce, signed>>

Prepare ==
  /\ Received /\ ~isPaper
  /\ actor' = [Idle EXCEPT !.at = "sending"]
  /\ UNCHANGED <<isPaper, nonce, signed>>
  /\ UNCHANGED <<chainVars, dispatchVars>>

-----------------------------------------------------------------------------
(* One attempt of the escalation loop.                                     *)

\* max_fee after `level` escalations, clamped to the profitability cap.
Fee(level, cap) == IF level + 1 > cap THEN cap ELSE level + 1

Attempt == [trade |-> order.trade, nonce |-> nonce,
            fee |-> Fee(actor.level, order.cap)]

\* Mutant: 0..=MAX_RETRIES.
AttemptingMut == actor.at = "sending" /\ actor.attempt <= MAX_RETRIES

Attempting == actor.at = "sending" /\ actor.attempt < MAX_RETRIES

Send ==
  /\ Attempting
  /\ NodeAdmits(Attempt)
  /\ pool' = pool \union {Attempt}
  /\ signed' = signed \union {Attempt}
  /\ actor' = [actor EXCEPT !.at = "waiting"]
  /\ UNCHANGED <<isPaper, nonce, chainNonce, bundles, ledger>>
  /\ UNCHANGED dispatchVars

\* The node refuses, or its answer is lost: the next attempt bids the same fee.
\* The node may have taken the transaction although the answer was an error.
\* (sign_hash with a local key does not fail; a failure would sign nothing.)
SendFails ==
  /\ Attempting
  /\ \/ pool' = pool
     \/ NodeAdmits(Attempt) /\ pool' = pool \union {Attempt}
  /\ signed' = signed \union {Attempt}
  /\ actor' = [actor EXCEPT !.attempt = @ + 1]
  /\ UNCHANGED <<isPaper, nonce, chainNonce, bundles, ledger>>
  /\ UNCHANGED dispatchVars

Waiting == actor.at = "waiting"

\* Mutant: a mined transaction counts as filled, reverted or not.
ConfirmedRevertMut(ok) ==
  /\ Waiting
  /\ Receipt(Attempt, ok) \in ledger
  /\ nonce' = nonce + 1
  /\ Reply("filled")
  /\ UNCHANGED <<isPaper, signed>>

\* Mutant: any transaction mined at the nonce is taken for the order's.
ConfirmedNonceMut(ok) ==
  /\ Waiting
  /\ \E r \in ledger : r.tx.nonce = nonce /\ r.ok = ok
  /\ nonce' = nonce + 1
  /\ Reply(IF ok THEN "filled" ELSE "failed")
  /\ UNCHANGED <<isPaper, signed>>

\* get_receipt: the transaction is mined; a revert is a failure.
Confirmed(ok) ==
  /\ Waiting
  /\ Receipt(Attempt, ok) \in ledger
  /\ nonce' = nonce + 1
  /\ Reply(IF ok THEN "filled" ELSE "failed")
  /\ UNCHANGED <<isPaper, signed>>

NextAttempt(level) ==
  /\ Waiting
  /\ actor' = [at |-> "sending", attempt |-> actor.attempt + 1, level |-> level]
  /\ UNCHANGED <<isPaper, nonce, signed>>
  /\ UNCHANGED <<chainVars, dispatchVars>>

ReceiptFails == NextAttempt(actor.level)

\* Mutant: the retry takes the next nonce.
TimeoutNonceMut ==
  /\ Waiting
  /\ actor' = [at |-> "sending", attempt |-> actor.attempt + 1, level |-> actor.level + 1]
  /\ nonce' = nonce + 1
  /\ UNCHANGED <<isPaper, signed>>
  /\ UNCHANGED <<chainVars, dispatchVars>>

\* Mutant: the receipt is awaited without a timeout.
TimeoutNeverMut == Waiting /\ FALSE /\ NextAttempt(actor.level)

Timeout == NextAttempt(actor.level + 1)

\* Mutant: the nonce of the abandoned order is used again.
ExhaustedMut ==
  /\ actor.at = "sending" /\ actor.attempt = MAX_RETRIES
  /\ Reply("failed")
  /\ UNCHANGED <<isPaper, nonce, signed>>

\* The nonce is spent even if nothing reached the node, and the transactions
\* that did are forgotten.
Exhausted ==
  /\ actor.at = "sending" /\ actor.attempt = MAX_RETRIES
  /\ nonce' = nonce + 1
  /\ Reply("failed")
  /\ UNCHANGED <<isPaper, signed>>

\* What the task does by itself, each RPC call returning one way or the other.
ActorProgress ==
  \/ InitNonce \/ ExecutePaper \/ PrepareFails \/ Prepare \/ Send \/ SendFails
  \/ \E ok \in BOOLEAN : Confirmed(ok)
  \/ Timeout \/ Exhausted

ActorTypeOK ==
  /\ isPaper \in BOOLEAN
  /\ nonce \in Nat
  /\ actor \in [at : ActorSteps, attempt : 0 .. MAX_RETRIES, level : Nat]
  /\ signed \subseteq Tx
=============================================================================
