--------------------------- MODULE OrderLifecycle --------------------------
(***************************************************************************)
(* What the execution side promises the trading loop about an order,       *)
(* whatever the network does. An order is opened once and closed once.     *)
(* Its trade takes effect on the chain at most once and never before it    *)
(* is opened - but possibly long after it is closed, and even after it was *)
(* closed as failed. Only "filled" says that it has taken effect.          *)
(***************************************************************************)
CONSTANT Trades

VARIABLES
  opened,           \* trades handed over
  closed,           \* trades answered, with the verdict
  executed          \* trades that took effect

orderVars == <<opened, closed, executed>>

Closed == {c.trade : c \in closed}

Init == opened = {} /\ closed = {} /\ executed = {}

Open(t) ==
  /\ t \in Trades \ opened
  /\ opened \subseteq Closed
  /\ opened' = opened \union {t}
  /\ UNCHANGED <<closed, executed>>

Execute(t) ==
  /\ t \in opened \ executed
  /\ executed' = executed \union {t}
  /\ UNCHANGED <<opened, closed>>

Close(t, verdict) ==
  /\ t \in opened \ Closed
  /\ verdict = "filled" => t \in executed
  /\ closed' = closed \union {[trade |-> t, verdict |-> verdict]}
  /\ UNCHANGED <<opened, executed>>

Next == \E t \in Trades :
  \/ Open(t) \/ Execute(t)
  \/ \E verdict \in {"filled", "accepted", "simulated", "failed"} : Close(t, verdict)

Spec == Init /\ [][Next]_orderVars
=============================================================================
