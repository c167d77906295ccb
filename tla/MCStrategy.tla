----------------------------- MODULE MCStrategy ------------------------------
(* Strategy for TLC: a sale and a purchase, both a whale's at the higher     *)
(* price only, and a swap that nothing decodes, a whale's at either.         *)
EXTENDS Strategy

ThreeSwaps == {[direction |-> "Sell",    value |-> 48,  weight |-> 1],
               [direction |-> "Unknown", value |-> 60,  weight |-> 2],
               [direction |-> "Buy",     value |-> 49,  weight |-> 1]}

Thousandths == 0 .. 1000
OnlyNoMacro == {NoMacro}
=============================================================================
