----------------------------- MODULE MarketData -----------------------------
(***************************************************************************)
(* crates/ingestion: the pool's price, liquidity and tick as the bot sees  *)
(* them.                                                                   *)
(*                                                                         *)
(* Two tasks write the same cells, each behind a lock of its own: the      *)
(* event stream (pool_events.rs), which applies the pool's logs one cell   *)
(* after the other and can be cut off at any of those awaits, and the      *)
(* poller (pool_reader.rs), which overwrites price and liquidity with what *)
(* the RPC answers and tells the stream to start anew when the prices      *)
(* diverge.                                                                *)
(*                                                                         *)
(* A cell holds the block its value is of, 0 before it is written; the     *)
(* value follows from the chain. What nothing in the program reads is left *)
(* out: the map of ticks that Mint and Burn logs change, and the poller's  *)
(* block number, which is only logged. The back-off has no length.         *)
(***************************************************************************)
EXTENDS Integers, Sequences

CONSTANTS
  Prices,           \* prices a swap can leave the pool at
  ReplayBlocks,     \* blocks a subscription asks for again: 10
  MaxBlocks         \* bound: blocks of a behaviour

ASSUME MarketConfig ==
  /\ Prices \subseteq Nat \ {0} /\ Prices # {}
  /\ ReplayBlocks \in Nat /\ MaxBlocks \in Nat \ {0}

VARIABLES
  chain,            \* the pool's logs, one per block: a swap's price, or
                    \* NoSwap for a Mint or a Burn
  price, liquidity, \* pool_price, pool_liquidity
  tick,             \* tick_liquidity.current_tick and current_liquidity
  permit,           \* the Notify permit of reset_signal
  stream,           \* the event task, and the next block of its subscription
  poller,           \* the poller, and the RPC's last answer
  seen,             \* history: last block the stream applied
  lost,             \* history: an outage outlasted the replayed blocks
  owed              \* history: a divergence was found, no restart since

cells    == <<price, liquidity, tick>>
histVars == <<seen, lost, owed>>
vars     == <<chain, cells, permit, stream, poller, histVars>>

NoSwap == 0
IsSwap(log) == log # NoSwap

Latest == Len(chain)

\* What slot0 answers: the price of the last swap.
LastSwap == CHOOSE b \in 1 .. Latest : /\ IsSwap(chain[b])
                                     /\ \A c \in b + 1 .. Latest : ~IsSwap(chain[c])

\* The pool has traded before.
Init ==
  /\ chain \in {<<p>> : p \in Prices}
  /\ price = 0 /\ liquidity = 0 /\ tick = 0
  /\ permit = FALSE
  /\ stream = [at |-> "connect", next |-> 1]
  /\ poller = [at |-> "slot0", answer |-> 0]
  /\ seen = 0 /\ lost = FALSE /\ owed = FALSE

NewBlock ==
  /\ Latest < MaxBlocks
  /\ \E log \in Prices \union {NoSwap} : chain' = Append(chain, log)
  /\ UNCHANGED <<cells, permit, stream, poller, histVars>>

-----------------------------------------------------------------------------
(* pool_events.rs: start and run_stream.                                   *)

\* Mutant: only blocks after the current one are asked for.
FromBlockMut(latest) == latest

\* Mutant: the subtraction is not guarded.
FromBlockWrapMut(latest) == latest - ReplayBlocks

FromBlock(latest) == IF latest > ReplayBlocks THEN latest - ReplayBlocks ELSE 0

\* get_block_number, 0 if it fails, and then the subscription.
Subscribe(latest) ==
  /\ stream.at = "connect"
  /\ stream' = [at |-> "receive", next |-> IF FromBlock(latest) = 0 THEN 1 ELSE FromBlock(latest)]
  /\ lost' = (lost \/ latest > seen + ReplayBlocks + 1)
  /\ UNCHANGED <<chain, cells, permit, poller, seen, owed>>

ReceiveSwap ==
  /\ stream.at = "receive" /\ stream.next <= Latest
  /\ IsSwap(chain[stream.next])
  /\ stream' = [stream EXCEPT !.at = "price"]
  /\ UNCHANGED <<chain, cells, permit, poller, histVars>>

StorePrice ==
  /\ stream.at = "price"
  /\ price' = stream.next
  /\ stream' = [stream EXCEPT !.at = "liquidity"]
  /\ UNCHANGED <<chain, liquidity, tick, permit, poller, histVars>>

StoreLiquidity ==
  /\ stream.at = "liquidity"
  /\ liquidity' = stream.next
  /\ stream' = [stream EXCEPT !.at = "tick"]
  /\ UNCHANGED <<chain, price, tick, permit, poller, histVars>>

StoreTick ==
  /\ stream.at = "tick"
  /\ tick' = stream.next
  /\ seen' = stream.next
  /\ stream' = [at |-> "receive", next |-> stream.next + 1]
  /\ UNCHANGED <<chain, price, liquidity, permit, poller, lost, owed>>

ReceiveMintOrBurn ==
  /\ stream.at = "receive" /\ stream.next <= Latest
  /\ ~IsSwap(chain[stream.next])
  /\ seen' = stream.next
  /\ stream' = [stream EXCEPT !.next = @ + 1]
  /\ UNCHANGED <<chain, cells, permit, poller, lost, owed>>

\* run_stream is dropped where it stands, a swap half applied or not.
Restart ==
  /\ stream.at # "backoff"
  /\ stream' = [stream EXCEPT !.at = "backoff"]
  /\ owed' = FALSE
  /\ UNCHANGED <<chain, cells, poller, seen, lost>>

\* The connection fails or the stream ends, where it awaits the node.
StreamEnds ==
  /\ stream.at \in {"connect", "receive"}
  /\ Restart
  /\ UNCHANGED permit

Notified == permit /\ permit' = FALSE /\ Restart

BackOff ==
  /\ stream.at = "backoff"
  /\ stream' = [stream EXCEPT !.at = "connect"]
  /\ UNCHANGED <<chain, cells, permit, poller, histVars>>

-----------------------------------------------------------------------------
(* pool_reader.rs: one turn of the poller.                                 *)

PollerGoes(from, to, answer) ==
  /\ poller.at = from
  /\ poller' = [at |-> to, answer |-> answer]
  /\ UNCHANGED <<chain, tick, stream, seen, lost>>

ReadSlot0 ==
  /\ PollerGoes("slot0", "compare", LastSwap)
  /\ UNCHANGED <<price, liquidity, permit, owed>>

\* Divergence of more than 0.1 % from the price in the cell.
Diverged(answer) ==
  /\ price # 0
  /\ LET rpc == chain[answer]  own == chain[price]
     IN  1000 * (IF rpc > own THEN rpc - own ELSE own - rpc) > own

\* Mutant: the divergence is logged, nobody is notified.
CompareMut ==
  /\ PollerGoes("compare", "overwrite", poller.answer)
  /\ owed' = (owed \/ (Diverged(poller.answer) /\ stream.at # "backoff"))
  /\ UNCHANGED <<price, liquidity, permit>>

\* A restart that is already under way answers a divergence too.
Compare ==
  /\ PollerGoes("compare", "overwrite", poller.answer)
  /\ permit' = (permit \/ Diverged(poller.answer))
  /\ owed' = (owed \/ (Diverged(poller.answer) /\ stream.at # "backoff"))
  /\ UNCHANGED <<price, liquidity>>

\* Mutant: a price that does not diverge is left to the events.
OverwriteMut ==
  /\ PollerGoes("overwrite", "liquidity", 0)
  /\ price' = IF price = 0 \/ Diverged(poller.answer) THEN poller.answer ELSE price
  /\ UNCHANGED <<liquidity, permit, owed>>

\* The answer is stored whatever the events have written since it was given.
Overwrite ==
  /\ PollerGoes("overwrite", "liquidity", 0)
  /\ price' = poller.answer
  /\ UNCHANGED <<liquidity, permit, owed>>

Slot0Fails ==
  /\ PollerGoes("slot0", "liquidity", 0)
  /\ UNCHANGED <<price, liquidity, permit, owed>>

ReadLiquidity ==
  /\ PollerGoes("liquidity", "store", Latest)
  /\ UNCHANGED <<price, liquidity, permit, owed>>

LiquidityFails ==
  /\ PollerGoes("liquidity", "slot0", 0)
  /\ UNCHANGED <<price, liquidity, permit, owed>>

OverwriteLiquidity ==
  /\ PollerGoes("store", "slot0", 0)
  /\ liquidity' = poller.answer
  /\ UNCHANGED <<price, permit, owed>>

-----------------------------------------------------------------------------
ApplyLog == ReceiveSwap \/ StorePrice \/ StoreLiquidity \/ StoreTick \/ ReceiveMintOrBurn

Stream ==
  \/ \E latest \in {Latest, 0} : Subscribe(latest)
  \/ ApplyLog \/ StreamEnds \/ Notified \/ BackOff

Poller ==
  \/ ReadSlot0 \/ Slot0Fails \/ Compare \/ Overwrite
  \/ ReadLiquidity \/ LiquidityFails \/ OverwriteLiquidity

Next == NewBlock \/ Stream \/ Poller

\* The poller's task runs and neither of its calls fails for ever; the select!
\* of the event task takes a permit in the end; what the node does is not fair.
Spec ==
  /\ Init /\ [][Next]_vars
  /\ WF_vars(Poller) /\ SF_vars(ReadSlot0) /\ SF_vars(ReadLiquidity)
  /\ WF_vars(Notified)

-----------------------------------------------------------------------------
StreamSteps == {"connect", "receive", "price", "liquidity", "tick", "backoff"}

TypeOK ==
  /\ chain \in Seq(Prices \union {NoSwap}) /\ Latest \in 1 .. MaxBlocks
  /\ price \in 0 .. Latest /\ liquidity \in 0 .. Latest /\ tick \in 0 .. Latest
  /\ permit \in BOOLEAN
  /\ stream \in [at : StreamSteps, next : 1 .. Latest + 1]
  /\ poller \in [at : {"slot0", "compare", "overwrite", "liquidity", "store"}, answer : 0 .. Latest]
  /\ seen \in 0 .. Latest
  /\ lost \in BOOLEAN /\ owed \in BOOLEAN

CaughtUp == stream.at = "receive" /\ stream.next = Latest + 1

\* A stream that has caught up knows the pool's tick, whatever restarts, half
\* applied swaps and late answers came before, unless an outage outlasted the
\* blocks a subscription asks for again.
TickSurvivesRestarts == CaughtUp /\ ~lost => tick = LastSwap

\* "Divergence checks and automatic re-sync": the stream starts anew after every
\* divergence, one found while it was starting anew included.
DivergenceRestartsStream == owed ~> ~owed

\* However the events are lost, replayed or late, price and liquidity are the
\* pool's again and again.
CellsKeepUp == []<>(price = LastSwap) /\ []<>(liquidity = Latest)
=============================================================================
