-------------------------- MODULE MarketDataProofs --------------------------
(***************************************************************************)
(* Proofs about MarketData: its type invariant, and that the tick survives *)
(* every restart of the stream, for all prices, replay lengths and chains. *)
(*                                                                         *)
(* TickSurvivesRestarts speaks of a stream that has caught up; that it has *)
(* missed nothing on the way there is what the invariant adds: between the *)
(* tick and the last block applied there is no swap, and a subscription    *)
(* asks for no block beyond the next one, unless an outage was too long.   *)
(***************************************************************************)
EXTENDS MarketData, TLAPS

Applying == {"price", "liquidity", "tick"}

\* The pool has traded, so that its price is that of some last swap.
Traded == \E b \in 1 .. Latest : /\ IsSwap(chain[b])
                                 /\ \A c \in b + 1 .. Latest : ~IsSwap(chain[c])

\* The stream applies a log of the chain, and swaps as swaps.
AppliesSwaps == stream.at \in Applying => stream.next <= Latest /\ IsSwap(chain[stream.next])

TickIsASwap == tick # 0 => IsSwap(chain[tick])

NothingSkipped ==
  ~lost => /\ \A c \in tick + 1 .. seen : ~IsSwap(chain[c])
           /\ stream.at \in Applying \union {"receive"} => stream.next <= seen + 1

IInv == TypeOK /\ Traded /\ AppliesSwaps /\ TickIsASwap /\ NothingSkipped

-----------------------------------------------------------------------------
\* The pool's price is that of a block, the last one with a swap.
LEMMA LastSwapIsOne ==
  ASSUME TypeOK, Traded
  PROVE  /\ LastSwap \in 1 .. Latest
         /\ IsSwap(chain[LastSwap])
         /\ \A c \in LastSwap + 1 .. Latest : ~IsSwap(chain[c])
  BY DEF Traded, LastSwap

\* A block with a swap and none behind it is the last swap.
LEMMA LastSwapUnique ==
  ASSUME TypeOK, Traded, NEW b \in 1 .. Latest, IsSwap(chain[b]),
         \A c \in b + 1 .. Latest : ~IsSwap(chain[c])
  PROVE  b = LastSwap
  <1>1. Latest \in Nat
    BY DEF TypeOK, Latest
  <1>2. LastSwap \in 1 .. Latest /\ ~(LastSwap < b) /\ ~(b < LastSwap)
    BY <1>1, LastSwapIsOne
  <1>. QED BY <1>1, <1>2

\* A new block leaves the blocks before it as they were.
LEMMA ChainGrows ==
  ASSUME TypeOK, NewBlock
  PROVE  /\ chain' \in Seq(Prices \union {NoSwap})
         /\ Latest' = Latest + 1 /\ Latest' <= MaxBlocks
         /\ \A b \in 1 .. Latest : chain'[b] = chain[b]
  <1>. DEFINE Logs == Prices \union {NoSwap}
  <1>1. PICK log \in Logs : chain' = Append(chain, log)
    BY DEF NewBlock
  <1>2. chain \in Seq(Logs) /\ Len(chain) \in Nat /\ MaxBlocks \in Nat
    BY MarketConfig DEF TypeOK
  <1>. HIDE DEF Logs
  <1>3. /\ chain' \in Seq(Logs) /\ Len(chain') = Len(chain) + 1
        /\ \A b \in 1 .. Len(chain) : chain'[b] = chain[b]
    BY <1>1, <1>2
  <1>. QED BY <1>2, <1>3 DEF NewBlock, Latest, Logs

-----------------------------------------------------------------------------
LEMMA InitIInv == Init => IInv
  <1>. SUFFICES ASSUME Init PROVE IInv
    OBVIOUS
  <1>1. PICK p \in Prices : chain = <<p>>
    BY DEF Init
  <1>2. p # NoSwap /\ p \in Prices \union {NoSwap}
    BY MarketConfig DEF NoSwap
  <1>3. chain \in Seq(Prices \union {NoSwap}) /\ Latest = 1 /\ chain[1] = p
    BY <1>1, <1>2 DEF Latest
  <1>4. TypeOK
    <2>1. permit \in BOOLEAN /\ lost \in BOOLEAN /\ owed \in BOOLEAN
      BY DEF Init
    <2>2. /\ stream \in [at : StreamSteps, next : 1 .. Latest + 1]
          /\ poller \in [at : {"slot0", "compare", "overwrite", "liquidity", "store"},
                         answer : 0 .. Latest]
      BY <1>3 DEF Init, StreamSteps
    <2>3. /\ Latest \in 1 .. MaxBlocks /\ seen \in 0 .. Latest
          /\ price \in 0 .. Latest /\ liquidity \in 0 .. Latest /\ tick \in 0 .. Latest
      BY <1>3, MarketConfig DEF Init
    <2>. QED BY <1>3, <2>1, <2>2, <2>3 DEF TypeOK
  <1>5. Traded
    BY <1>2, <1>3 DEF Traded, IsSwap
  <1>6. AppliesSwaps /\ TickIsASwap /\ NothingSkipped
    BY DEF Init, AppliesSwaps, TickIsASwap, NothingSkipped, Applying
  <1>. QED BY <1>4, <1>5, <1>6 DEF IInv

\* A log that the pool adds.
LEMMA NewBlockIInv == IInv /\ NewBlock => IInv'
  <1>. SUFFICES ASSUME IInv, NewBlock PROVE IInv'
    OBVIOUS
  <1>. USE DEF IInv
  <1>1. /\ chain' \in Seq(Prices \union {NoSwap})
        /\ Latest' = Latest + 1 /\ Latest' <= MaxBlocks
        /\ \A b \in 1 .. Latest : chain'[b] = chain[b]
    BY ChainGrows
  <1>2. Latest \in Nat \ {0} /\ tick \in 0 .. Latest /\ seen \in 0 .. Latest
    BY MarketConfig DEF TypeOK
  <1>3. TypeOK'
    BY <1>1, <1>2 DEF TypeOK, NewBlock, cells, histVars
  <1>4. Traded'
    <2>1. PICK b \in 1 .. Latest : /\ IsSwap(chain[b])
                                   /\ \A c \in b + 1 .. Latest : ~IsSwap(chain[c])
      BY DEF Traded
    <2>2. CASE IsSwap(chain'[Latest + 1])
      BY <2>2, <1>1, <1>2 DEF Traded, IsSwap
    <2>3. CASE ~IsSwap(chain'[Latest + 1])
      <3>1. b \in 1 .. Latest' /\ IsSwap(chain'[b])
        BY <2>1, <1>1, <1>2 DEF IsSwap
      <3>2. \A c \in b + 1 .. Latest' : ~IsSwap(chain'[c])
        BY <2>1, <2>3, <1>1, <1>2 DEF IsSwap
      <3>. QED BY <3>1, <3>2 DEF Traded, IsSwap
    <2>. QED BY <2>2, <2>3
  <1>5. AppliesSwaps' /\ TickIsASwap'
    <2>1. UNCHANGED <<stream, tick>> /\ stream.next \in 1 .. Latest + 1
      BY DEF NewBlock, cells, TypeOK
    <2>2. stream.next <= Latest => chain'[stream.next] = chain[stream.next]
      BY <2>1, <1>1, <1>2
    <2>3. tick # 0 => chain'[tick] = chain[tick]
      BY <1>1, <1>2
    <2>4. AppliesSwaps'
      BY <2>1, <2>2, <1>1, <1>2 DEF AppliesSwaps, IsSwap
    <2>. QED BY <2>1, <2>3, <2>4 DEF TickIsASwap, IsSwap
  <1>6. NothingSkipped'
    <2>1. UNCHANGED <<stream, tick, seen, lost>>
      BY DEF NewBlock, cells, histVars
    <2>2. \A c \in tick + 1 .. seen : chain'[c] = chain[c]
      BY <1>1, <1>2
    <2>. QED BY <2>1, <2>2 DEF NothingSkipped, IsSwap
  <1>. QED BY <1>3, <1>4, <1>5, <1>6

\* A subscription that misses nothing asks for no block beyond the next one.
LEMMA SubscribeIInv ==
  ASSUME IInv, NEW latest \in {Latest, 0}, Subscribe(latest)
  PROVE  IInv'
  <1>. DEFINE from == IF FromBlock(latest) = 0 THEN 1 ELSE FromBlock(latest)
  <1>1. /\ Latest \in Nat \ {0} /\ latest \in Nat /\ latest <= Latest
        /\ seen \in Nat /\ ReplayBlocks \in Nat
    BY MarketConfig DEF IInv, TypeOK
  <1>2. from \in 1 .. Latest + 1 /\ (latest <= seen + ReplayBlocks + 1 => from <= seen + 1)
    BY <1>1 DEF FromBlock
  <1>3. stream' = [at |-> "receive", next |-> from] /\ UNCHANGED <<chain, Latest, tick, seen>>
    BY DEF Subscribe, Latest, cells
  <1>4. lost' = (lost \/ latest > seen + ReplayBlocks + 1) /\ lost \in BOOLEAN
    BY DEF Subscribe, IInv, TypeOK
  <1>. HIDE DEF from
  <1>5. TypeOK'
    BY <1>2, <1>3, <1>4 DEF IInv, TypeOK, Subscribe, cells, StreamSteps
  <1>6. Traded' /\ AppliesSwaps' /\ TickIsASwap'
    BY <1>3 DEF IInv, Traded, AppliesSwaps, TickIsASwap, Applying
  <1>7. NothingSkipped'
    <2>. SUFFICES ASSUME ~lost'
                  PROVE  /\ \A c \in tick + 1 .. seen : ~IsSwap(chain[c])
                         /\ from <= seen + 1
      BY <1>3 DEF NothingSkipped
    <2>1. ~lost /\ ~(latest > seen + ReplayBlocks + 1)
      BY <1>4
    <2>. QED BY <2>1, <1>1, <1>2 DEF IInv, NothingSkipped
  <1>. QED BY <1>5, <1>6, <1>7 DEF IInv

\* One cell, or one log without a swap, is applied.
LEMMA ApplyLogIInv == IInv /\ ApplyLog => IInv'
  <1>. SUFFICES ASSUME IInv, ApplyLog PROVE IInv'
    OBVIOUS
  <1>1. /\ Latest \in Nat \ {0} /\ Latest' = Latest /\ chain' = chain
        /\ stream \in [at : StreamSteps, next : 1 .. Latest + 1]
        /\ tick \in 0 .. Latest /\ seen \in 0 .. Latest
    BY MarketConfig DEF IInv, TypeOK, ApplyLog, ReceiveSwap, StorePrice, StoreLiquidity, StoreTick,
                        ReceiveMintOrBurn, Latest
  <1>2. Traded'
    BY <1>1 DEF IInv, Traded
  <1>3. CASE ReceiveSwap
    <2>1. stream' = [at |-> "price", next |-> stream.next] /\ UNCHANGED <<tick, seen, lost>>
      BY <1>3, <1>1 DEF ReceiveSwap, cells, histVars
    <2>2. TypeOK'
      BY <1>3, <1>1, <2>1 DEF IInv, TypeOK, ReceiveSwap, cells, histVars, StreamSteps
    <2>3. AppliesSwaps' /\ TickIsASwap' /\ NothingSkipped'
      BY <1>3, <1>1, <2>1 DEF IInv, AppliesSwaps, TickIsASwap, NothingSkipped, Applying, ReceiveSwap
    <2>. QED BY <1>2, <2>2, <2>3 DEF IInv
  <1>4. CASE StorePrice
    <2>1. stream' = [at |-> "liquidity", next |-> stream.next] /\ UNCHANGED <<tick, seen, lost>>
      BY <1>4, <1>1 DEF StorePrice, histVars
    <2>2. stream.next \in 0 .. Latest
      BY <1>4, <1>1 DEF StorePrice, IInv, AppliesSwaps, Applying
    <2>3. TypeOK'
      BY <1>4, <1>1, <2>1, <2>2 DEF IInv, TypeOK, StorePrice, histVars, StreamSteps
    <2>4. AppliesSwaps' /\ TickIsASwap' /\ NothingSkipped'
      BY <1>4, <1>1, <2>1 DEF IInv, AppliesSwaps, TickIsASwap, NothingSkipped, Applying, StorePrice
    <2>. QED BY <1>2, <2>3, <2>4 DEF IInv
  <1>5. CASE StoreLiquidity
    <2>1. stream' = [at |-> "tick", next |-> stream.next] /\ UNCHANGED <<tick, seen, lost>>
      BY <1>5, <1>1 DEF StoreLiquidity, histVars
    <2>2. stream.next \in 0 .. Latest
      BY <1>5, <1>1 DEF StoreLiquidity, IInv, AppliesSwaps, Applying
    <2>3. TypeOK'
      BY <1>5, <1>1, <2>1, <2>2 DEF IInv, TypeOK, StoreLiquidity, histVars, StreamSteps
    <2>4. AppliesSwaps' /\ TickIsASwap' /\ NothingSkipped'
      BY <1>5, <1>1, <2>1 DEF IInv, AppliesSwaps, TickIsASwap, NothingSkipped, Applying,
                              StoreLiquidity
    <2>. QED BY <1>2, <2>3, <2>4 DEF IInv
  <1>6. CASE StoreTick
    <2>1. /\ stream' = [at |-> "receive", next |-> stream.next + 1]
          /\ tick' = stream.next /\ seen' = stream.next /\ lost' = lost
      BY <1>6 DEF StoreTick
    <2>2. stream.next \in 0 .. Latest /\ IsSwap(chain[stream.next])
      BY <1>6, <1>1 DEF StoreTick, IInv, AppliesSwaps, Applying
    <2>3. TypeOK'
      BY <1>6, <1>1, <2>1, <2>2 DEF IInv, TypeOK, StoreTick, StreamSteps
    <2>4. AppliesSwaps' /\ TickIsASwap' /\ NothingSkipped'
      BY <1>1, <2>1, <2>2 DEF AppliesSwaps, TickIsASwap, NothingSkipped, Applying
    <2>. QED BY <1>2, <2>3, <2>4 DEF IInv
  <1>7. CASE ReceiveMintOrBurn
    <2>1. /\ stream' = [at |-> "receive", next |-> stream.next + 1]
          /\ seen' = stream.next /\ tick' = tick /\ lost' = lost
      BY <1>7, <1>1 DEF ReceiveMintOrBurn, cells
    <2>2. stream.next \in 1 .. Latest /\ ~IsSwap(chain[stream.next]) /\ stream.at = "receive"
      BY <1>7, <1>1 DEF ReceiveMintOrBurn
    <2>3. TypeOK'
      BY <1>7, <1>1, <2>1, <2>2 DEF IInv, TypeOK, ReceiveMintOrBurn, cells, StreamSteps
    <2>4. AppliesSwaps' /\ TickIsASwap'
      BY <1>1, <2>1 DEF IInv, AppliesSwaps, TickIsASwap, Applying
    <2>5. NothingSkipped'
      BY <1>1, <2>1, <2>2 DEF IInv, NothingSkipped
    <2>. QED BY <1>2, <2>3, <2>4, <2>5 DEF IInv
  <1>. QED BY <1>3, <1>4, <1>5, <1>6, <1>7 DEF ApplyLog

\* The stream is dropped where it stands, or waits for its next attempt.
LEMMA PauseIInv == IInv /\ (StreamEnds \/ Notified \/ BackOff) => IInv'
  <1>. SUFFICES ASSUME IInv, StreamEnds \/ Notified \/ BackOff PROVE IInv'
    OBVIOUS
  <1>1. stream \in [at : StreamSteps, next : 1 .. Latest + 1]
    BY DEF IInv, TypeOK
  <1>2. PICK at \in {"backoff", "connect"} : stream' = [at |-> at, next |-> stream.next]
    BY <1>1 DEF StreamEnds, Notified, BackOff, Restart
  <1>3. UNCHANGED <<chain, Latest, cells, poller, seen, lost>>
    BY DEF StreamEnds, Notified, BackOff, Restart, histVars, Latest
  <1>4. permit' \in BOOLEAN /\ owed' \in BOOLEAN
    BY DEF StreamEnds, Notified, BackOff, Restart, histVars, IInv, TypeOK
  <1>5. TypeOK'
    BY <1>1, <1>2, <1>3, <1>4 DEF IInv, TypeOK, StreamSteps, cells
  <1>6. Traded' /\ AppliesSwaps' /\ TickIsASwap' /\ NothingSkipped'
    BY <1>2, <1>3 DEF IInv, Traded, AppliesSwaps, TickIsASwap, NothingSkipped, Applying, cells
  <1>. QED BY <1>5, <1>6 DEF IInv

\* The poller never touches the tick.
LEMMA PollerIInv == IInv /\ Poller => IInv'
  <1>. SUFFICES ASSUME IInv, Poller PROVE IInv'
    OBVIOUS
  <1>. DEFINE Ats == {"slot0", "compare", "overwrite", "liquidity", "store"}
  <1>1. UNCHANGED <<chain, Latest, tick, stream, seen, lost>>
    BY DEF Poller, ReadSlot0, Slot0Fails, Compare, Overwrite, ReadLiquidity, LiquidityFails,
           OverwriteLiquidity, PollerGoes, Latest
  <1>2. LastSwap \in 0 .. Latest /\ Latest \in Nat \ {0} /\ poller.answer \in 0 .. Latest
    BY LastSwapIsOne, MarketConfig DEF IInv, TypeOK
  <1>3. \E at \in Ats, answer \in 0 .. Latest : poller' = [at |-> at, answer |-> answer]
    BY <1>2 DEF Poller, ReadSlot0, Slot0Fails, Compare, Overwrite, ReadLiquidity, LiquidityFails,
                OverwriteLiquidity, PollerGoes
  <1>4. /\ price' \in 0 .. Latest /\ liquidity' \in 0 .. Latest
        /\ permit' \in BOOLEAN /\ owed' \in BOOLEAN
    BY <1>2 DEF Poller, ReadSlot0, Slot0Fails, Compare, Overwrite, ReadLiquidity, LiquidityFails,
                OverwriteLiquidity, IInv, TypeOK
  <1>5. TypeOK'
    BY <1>1, <1>3, <1>4 DEF IInv, TypeOK
  <1>6. Traded' /\ AppliesSwaps' /\ TickIsASwap' /\ NothingSkipped'
    BY <1>1 DEF IInv, Traded, AppliesSwaps, TickIsASwap, NothingSkipped
  <1>. QED BY <1>5, <1>6 DEF IInv

LEMMA NextIInv == IInv /\ [Next]_vars => IInv'
  <1>. SUFFICES ASSUME IInv, [Next]_vars PROVE IInv'
    OBVIOUS
  <1>1. CASE NewBlock
    BY <1>1, NewBlockIInv
  <1>2. CASE Stream
    BY <1>2, SubscribeIInv, ApplyLogIInv, PauseIInv DEF Stream
  <1>3. CASE Poller
    BY <1>3, PollerIInv
  <1>4. CASE UNCHANGED vars
    <2>1. UNCHANGED <<chain, Latest, price, liquidity, tick, permit, stream, poller, seen, lost, owed>>
      BY <1>4 DEF vars, cells, histVars, Latest
    <2>2. TypeOK'
      BY <2>1 DEF IInv, TypeOK
    <2>. QED BY <2>1, <2>2 DEF IInv, Traded, AppliesSwaps, TickIsASwap, NothingSkipped
  <1>. QED BY <1>1, <1>2, <1>3, <1>4 DEF Next

-----------------------------------------------------------------------------
\* The parts above hold together in every reachable state.
THEOREM Invariant == Spec => []IInv
  BY InitIInv, NextIInv, PTL DEF Spec

\* The cells hold blocks of the chain, and so does what the two tasks carry.
THEOREM TypeCorrect == Spec => []TypeOK
  <1>1. IInv => TypeOK
    BY DEF IInv
  <1>. QED BY <1>1, Invariant, PTL

\* A stream that has caught up knows the pool's tick, whatever restarts, half
\* applied swaps and late answers of the poller came before (pool_events.rs).
THEOREM TickSurvives == Spec => []TickSurvivesRestarts
  <1>1. IInv => TickSurvivesRestarts
    <2>. SUFFICES ASSUME IInv, CaughtUp, ~lost PROVE tick = LastSwap
      BY DEF TickSurvivesRestarts
    <2>1. Latest \in Nat \ {0} /\ tick \in 0 .. Latest /\ seen \in 0 .. Latest
      BY MarketConfig DEF IInv, TypeOK
    <2>2. seen = Latest
      BY <2>1 DEF CaughtUp, IInv, NothingSkipped
    <2>3. \A c \in tick + 1 .. Latest : ~IsSwap(chain[c])
      BY <2>2 DEF IInv, NothingSkipped
    <2>4. tick # 0
      BY <2>1, <2>3 DEF IInv, Traded
    <2>. QED BY <2>1, <2>3, <2>4, LastSwapUnique DEF IInv, TickIsASwap
  <1>. QED BY <1>1, Invariant, PTL

\* While the stream has lost nothing, the tick is never older than a swap it
\* has applied, a replay in progress included.
THEOREM NoSwapSkipped == Spec => []NothingSkipped
  <1>1. IInv => NothingSkipped
    BY DEF IInv
  <1>. QED BY <1>1, Invariant, PTL

-----------------------------------------------------------------------------
(* What DivergenceRestartsStream rests on: fairness of Notified is enough   *)
(* if it can be taken for as long as a restart is owed.                     *)

DivergenceKnown == owed => permit /\ stream.at # "backoff"

LEMMA NextDivergenceKnown == IInv /\ DivergenceKnown /\ [Next]_vars => DivergenceKnown'
  <1>. SUFFICES ASSUME IInv, DivergenceKnown, [Next]_vars PROVE DivergenceKnown'
    OBVIOUS
  <1>1. stream \in [at : StreamSteps, next : 1 .. Latest + 1] /\ owed \in BOOLEAN /\ permit \in BOOLEAN
    BY DEF IInv, TypeOK
  <1>2. CASE NewBlock \/ UNCHANGED vars
    BY <1>2 DEF NewBlock, vars, histVars, DivergenceKnown
  <1>3. CASE ApplyLog
    <2>1. /\ UNCHANGED <<owed, permit>> /\ stream.at # "backoff"
          /\ \E at \in {"price", "liquidity", "tick", "receive"} :
               \E next : stream' = [at |-> at, next |-> next]
      BY <1>1, <1>3 DEF ApplyLog, ReceiveSwap, StorePrice, StoreLiquidity, StoreTick,
                        ReceiveMintOrBurn, cells, histVars
    <2>. QED BY <2>1 DEF DivergenceKnown
  <1>4. CASE \E latest \in {Latest, 0} : Subscribe(latest)
    BY <1>4 DEF Subscribe, DivergenceKnown
  <1>5. CASE StreamEnds \/ Notified
    BY <1>5 DEF StreamEnds, Notified, Restart, DivergenceKnown
  <1>6. CASE BackOff
    BY <1>6 DEF BackOff, histVars, DivergenceKnown
  <1>7. CASE Compare
    BY <1>1, <1>7 DEF Compare, PollerGoes, DivergenceKnown
  <1>8. CASE Poller /\ ~Compare
    <2>1. UNCHANGED <<owed, permit, stream>>
      BY <1>8 DEF Poller, ReadSlot0, Slot0Fails, Overwrite, ReadLiquidity, LiquidityFails,
                  OverwriteLiquidity, PollerGoes
    <2>. QED BY <2>1 DEF DivergenceKnown
  <1>. QED BY <1>2, <1>3, <1>4, <1>5, <1>6, <1>7, <1>8 DEF Next, Stream

\* A divergence that no restart has answered yet is on record: the permit of
\* reset_signal is there and the stream is at an await where select! can take it.
THEOREM DivergenceOnRecord == Spec => []DivergenceKnown
  <1>1. Init => DivergenceKnown
    BY DEF Init, DivergenceKnown
  <1>. QED BY <1>1, NextDivergenceKnown, Invariant, PTL DEF Spec
=============================================================================
