------------------------------- MODULE Reports -------------------------------
(***************************************************************************)
(* What the trading loop tells the outside: the rows of the event logger   *)
(* (EventLogger) and the webhook calls of the notifier                     *)
(* (crates/notify/src/notifier.rs), over crashes, restarts and midnights.  *)
(*                                                                         *)
(* An iteration of src/bin/vertexa.rs ends in one of the ways below; it    *)
(* notifies first, if at all, and then logs, if at all. `notify` spawns    *)
(* the call and returns: calls overtake one another, fail, and die with    *)
(* the process; none is retried.                                           *)
(***************************************************************************)
EXTENDS EventLogger

CONSTANTS
  MaxIterations,    \* bound: iterations that report something
  MaxStarts         \* bound: restarts of the process

ASSUME ReportsConfig == MaxIterations \in Nat /\ MaxStarts \in Nat

VARIABLES
  stage,            \* "select", "notify", "log" or "down"
  outcome,          \* how the iteration ended
  iterations,       \* iterations so far; the last one's number
  starts,           \* restarts so far
  webhook,          \* discord_webhook_url is configured
  outbox,           \* calls in flight, by the iteration's number
  called,           \* history: iterations whose alert was sent off
  delivered         \* history: alerts the webhook took, in its order

loopVars   == <<stage, outcome, iterations, starts>>
notifyVars == <<webhook, outbox, called, delivered>>
vars       == <<loggerVars, loopVars, notifyVars>>

Way(alert, row, trade) == [alert |-> alert, row |-> row, trade |-> trade]

\* The ways out of an iteration: a neutral decision, a trade that is too small
\* or cannot be built; a gate that refuses it or an execution that fails; a
\* trade; a trade that fills short.
Outcomes == {Way(FALSE, TRUE, FALSE), Way(TRUE, TRUE, FALSE),
             Way(TRUE, TRUE, TRUE), Way(TRUE, FALSE, TRUE)}

Init ==
  /\ LoggerInit
  /\ stage = "select" /\ outcome = Way(FALSE, FALSE, FALSE) /\ iterations = 0 /\ starts = 0
  /\ webhook \in BOOLEAN /\ outbox = {} /\ called = {} /\ delivered = <<>>

-----------------------------------------------------------------------------
\* Mutant: the row is logged before the alert is sent.
IterateMut ==
  /\ stage = "select" /\ iterations < MaxIterations
  /\ iterations' = iterations + 1
  /\ \E way \in Outcomes :
       /\ outcome' = way
       /\ stage' = IF way.row THEN "log" ELSE "notify"
  /\ UNCHANGED <<loggerVars, notifyVars, starts>>

\* run_loop_iteration reaches its end; one whose context fails reports nothing.
Iterate ==
  /\ stage = "select" /\ iterations < MaxIterations
  /\ iterations' = iterations + 1
  /\ \E way \in Outcomes :
       /\ outcome' = way
       /\ stage' = IF way.alert THEN "notify" ELSE "log"
  /\ UNCHANGED <<loggerVars, notifyVars, starts>>

\* Notifier::notify; without a webhook it returns at once.
Notify ==
  /\ stage = "notify"
  /\ stage' = IF outcome.row THEN "log" ELSE "select"
  /\ IF webhook THEN /\ outbox' = outbox \union {iterations}
                     /\ called' = called \union {iterations}
                ELSE UNCHANGED <<outbox, called>>
  /\ UNCHANGED <<loggerVars, outcome, iterations, starts, webhook, delivered>>

\* Mutant: the row is of the iteration to come.
RowMut == [day |-> 0, iteration |-> iterations + 1, executed |-> outcome.trade]

Row == [day |-> 0, iteration |-> iterations, executed |-> outcome.trade]

Log ==
  /\ stage = "log"
  /\ \/ Begin(Row) /\ UNCHANGED stage
     \/ LogStep /\ UNCHANGED stage
     \/ Return /\ stage' = "select"
  /\ UNCHANGED <<outcome, iterations, starts, notifyVars>>

-----------------------------------------------------------------------------
(* send_discord_webhook, on a task of its own.                             *)

CallEnds(alert) ==
  /\ outbox' = outbox \ {alert}
  /\ UNCHANGED <<loggerVars, loopVars, webhook, called>>

Deliver(alert) ==
  /\ CallEnds(alert)
  /\ delivered' = Append(delivered, alert)

\* Mutant: a call that fails is made again.
CallFailsMut(alert) ==
  /\ delivered' \in {delivered, Append(delivered, alert)}
  /\ UNCHANGED <<loggerVars, loopVars, webhook, called, outbox>>

\* An error, a status that is none of success, or ten seconds are over, with
\* the alert posted or not.
CallFails(alert) ==
  /\ CallEnds(alert)
  /\ delivered' \in {delivered, Append(delivered, alert)}

-----------------------------------------------------------------------------
\* A signal after the iteration, a crash at any point of it, or the panic of
\* a file that cannot be created; the runtime drops the calls in flight.
ProcessEnds ==
  /\ stage # "down" /\ stage' = "down"
  /\ outbox' = {}
  /\ UNCHANGED <<loggerVars, outcome, iterations, starts, webhook, called, delivered>>

Start ==
  /\ stage = "down" /\ starts < MaxStarts
  /\ Restart
  /\ stage' = "select" /\ starts' = starts + 1
  /\ UNCHANGED <<outcome, iterations, notifyVars>>

Midnight == NewDay /\ UNCHANGED <<loopVars, notifyVars>>

Next ==
  \/ Iterate \/ Notify \/ Log
  \/ \E alert \in outbox : Deliver(alert) \/ CallFails(alert)
  \/ ProcessEnds \/ Start \/ Midnight

Spec == Init /\ [][Next]_vars

-----------------------------------------------------------------------------
Rows == [day : Days, iteration : 1 .. MaxIterations, executed : BOOLEAN]

Lines == Rows \union {Header, Fragment}

TypeOK ==
  /\ today \in Days /\ currentDate \in 0 .. today
  /\ disk \in [Days -> Seq(Lines)]
  /\ writer.day \in Days /\ writer.buffer \in Seq(Rows \union {Header})
  /\ log.at \in {"idle", "rotate", "write", "flush", "done", "failed"}
  /\ log.row \in Rows \union {Header}
  /\ written \in Seq(Rows) /\ flushed \subseteq ToSet(written) /\ failed \subseteq Rows
  /\ stage \in {"select", "notify", "log", "down"} /\ outcome.trade \in BOOLEAN
  /\ iterations \in 0 .. MaxIterations /\ starts \in 0 .. MaxStarts
  /\ webhook \in BOOLEAN
  /\ outbox \subseteq called /\ called \subseteq 1 .. iterations
  /\ delivered \in Seq(called)

\* A row is in the file of its day only, once, after the rows of earlier
\* iterations and after the header, however late midnight falls between the time
\* a row is given and the write, and whatever was truncated or cut off before.
\* Unless one of its flushes failed, a file begins with its header and every
\* line of it is whole.
FilesAreReadable ==
  \A day \in Days :
    LET file == disk[day] IN
      /\ \A i \in 1 .. Len(file) : file[i] = Header => i = 1
      /\ \A i \in 1 .. Len(file) : file[i] \in Rows =>
           /\ file[i].day = day
           /\ \A j \in 1 .. i - 1 :
                file[j] \in Rows => file[j].iteration < file[i].iteration
      /\ (file # <<>> /\ \A row \in failed : row.day # day) =>
           /\ Head(file) = Header
           /\ \A i \in 1 .. Len(file) : file[i] # Fragment

\* On the day the process started on, a failed flush costs its own row and no
\* other, and no rotation that follows costs any: what the process wrote is on
\* the disk, unless its own flush failed or is still to come. A row after a
\* fragment is there in full, at the end of a line that began as another.
StartDayComplete ==
  stage # "down" =>
    \A row \in ToSet(written) : row.day = currentDate =>
      \/ Contains(disk[currentDate], row)
      \/ row \in failed
      \/ log.at = "flush" /\ row = log.row

\* When log returns without a failure, its day's file ends with the row it was
\* given, rotation or not.
NewestRowOnDisk ==
  log.at = "done" => disk[log.row.day] # <<>> /\ Last(disk[log.row.day]) = log.row

\* Whatever crashes come between, no row tells of a trade before the webhook, if
\* there is one, was called about it.
TradesAnnouncedBeforeLogged ==
  webhook =>
    \A day \in Days : \A line \in ToSet(disk[day]) :
      (line \in Rows /\ line.executed) => line.iteration \in called

\* No alert is posted twice, although a call that timed out may have been taken.
AlertedAtMostOnce == IsInjective(delivered)

\* "Every loop iteration is logged to data/events_YYYY-MM-DD.csv": a row that is
\* on the disk stays there, while the process that logged it runs.
FlushedRowsStay ==
  stage # "down" => \A row \in flushed : Contains(disk[row.day], row)
=============================================================================
