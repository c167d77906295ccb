--------------------------- MODULE MempoolMonitor ---------------------------
(***************************************************************************)
(* crates/mev_guard/src/detector.rs: the task that keeps the last pending  *)
(* swaps for the MEV guard. It hears of a transaction, asks the node for   *)
(* it, and queues it if it is a swap; when the connection ends it waits    *)
(* and connects again. The queue belongs to the process, not to the        *)
(* connection. Of a transaction the guard only looks at the sender.        *)
(***************************************************************************)
EXTENDS Integers, Sequences

CONSTANTS
  Senders,          \* senders of swaps
  MaxMempoolSize,   \* MAX_MEMPOOL_SIZE: 500
  MaxSwaps          \* bound: swaps the node returns in a behaviour

ASSUME MempoolConfig == MaxMempoolSize \in Nat \ {0} /\ MaxSwaps \in Nat

VARIABLES
  monitor,          \* "connect", "listen", "fetch", "queue" or "sleep"
  retryDelay,       \* seconds
  swap,             \* sender of the swap that waits for the queue's lock
  pendingTxs,       \* the queue, the oldest first
  swaps             \* history: every swap that was queued

mempoolVars == <<monitor, retryDelay, swap, pendingTxs, swaps>>

Nobody == "nobody"

MempoolInit ==
  /\ monitor = "connect" /\ retryDelay = 1 /\ swap = Nobody
  /\ pendingTxs = <<>> /\ swaps = <<>>

Connect ==
  /\ monitor = "connect" /\ monitor' = "listen"
  /\ UNCHANGED <<retryDelay, swap, pendingTxs, swaps>>

Hear ==
  /\ monitor = "listen" /\ monitor' = "fetch"
  /\ UNCHANGED <<retryDelay, swap, pendingTxs, swaps>>

\* The node no longer has it, answers with an error, or it is not a swap.
FetchNothing ==
  /\ monitor = "fetch" /\ monitor' = "listen"
  /\ UNCHANGED <<retryDelay, swap, pendingTxs, swaps>>

FetchSwap ==
  /\ monitor = "fetch" /\ Len(swaps) < MaxSwaps
  /\ \E from \in Senders : swap' = from
  /\ monitor' = "queue"
  /\ UNCHANGED <<retryDelay, pendingTxs, swaps>>

\* Mutant: the length is compared after the push would be within the bound.
MakeRoomMut(queue) == IF Len(queue) > MaxMempoolSize THEN Tail(queue) ELSE queue

MakeRoom(queue) == IF Len(queue) >= MaxMempoolSize THEN Tail(queue) ELSE queue

\* Mutant: a full queue refuses the new swap.
PushMut ==
  /\ monitor = "queue" /\ monitor' = "listen"
  /\ pendingTxs' = IF Len(pendingTxs) >= MaxMempoolSize THEN pendingTxs
                   ELSE Append(pendingTxs, swap)
  /\ swaps' = Append(swaps, swap) /\ swap' = Nobody
  /\ UNCHANGED retryDelay

Push ==
  /\ monitor = "queue" /\ monitor' = "listen"
  /\ pendingTxs' = Append(MakeRoom(pendingTxs), swap)
  /\ swaps' = Append(swaps, swap) /\ swap' = Nobody
  /\ UNCHANGED retryDelay

\* Connecting or subscribing fails, or the stream ends.
ConnectionEnds ==
  /\ monitor \in {"connect", "listen"} /\ monitor' = "sleep"
  /\ UNCHANGED <<retryDelay, swap, pendingTxs, swaps>>

\* The delay doubles after every sleep and is never reset.
SleepOver ==
  /\ monitor = "sleep" /\ monitor' = "connect"
  /\ retryDelay' = IF 2 * retryDelay <= 30 THEN 2 * retryDelay ELSE 30
  /\ UNCHANGED <<swap, pendingTxs, swaps>>

Monitor == Connect \/ Hear \/ FetchNothing \/ FetchSwap \/ Push \/ ConnectionEnds \/ SleepOver
=============================================================================
