----------------------------- MODULE EventLogger -----------------------------
(***************************************************************************)
(* crates/ingestion/src/event_logger.rs: one CSV file per UTC day.         *)
(*                                                                         *)
(* `new` creates the file of the day the process starts on. `log` takes    *)
(* the time once, creates the file of that day if it is not the day the    *)
(* logger was made on, and then writes and flushes its line. File::create  *)
(* empties a file that exists. A failed flush is ignored, and what it held *)
(* is gone: tokio's File takes the bytes from the BufWriter and answers    *)
(* for them only when it is flushed. A file that cannot be created panics. *)
(* A row is a record with the day of its timestamp; what the other columns *)
(* say is left to the caller.                                              *)
(***************************************************************************)
EXTENDS Integers, SequencesExt

CONSTANT MaxDay     \* bound: the last day of a behaviour

ASSUME LoggerConfig == MaxDay \in Nat

VARIABLES
  today,            \* the UTC date
  disk,             \* what is on the disk, by day
  currentDate,      \* current_date
  writer,           \* the BufWriter: the day of its file and what is not flushed
  log,              \* the call of `log` in progress
  written,          \* history: the rows this process wrote to a writer
  flushed,          \* history: those of them that reached the disk
  failed            \* history: rows whose flush failed, while their file exists

loggerVars == <<today, disk, currentDate, writer, log, written, flushed, failed>>

Days == 0 .. MaxDay

\* The first line of a file.
Header == [day |-> -1]

\* The piece of a line a write was cut off in; the next row is glued to it.
Fragment == [day |-> -2]

NoLog == [at |-> "idle", row |-> Header]

\* open_file, and a BufWriter over the file with the header in its buffer.
Create(day) ==
  /\ disk' = [disk EXCEPT ![day] = <<>>]
  /\ writer' = [day |-> day, buffer |-> <<Header>>]
  /\ failed' = {row \in failed : row.day # day}

LoggerInit ==
  /\ today = 0
  /\ disk = [d \in Days |-> <<>>]
  /\ currentDate = 0 /\ writer = [day |-> 0, buffer |-> <<Header>>]
  /\ log = NoLog /\ written = <<>> /\ flushed = {} /\ failed = {}

\* EventLogger::new, when the process starts again.
Restart ==
  /\ Create(today) /\ currentDate' = today
  /\ log' = NoLog /\ written' = <<>> /\ flushed' = {}
  /\ UNCHANGED today

-----------------------------------------------------------------------------
(* log.                                                                    *)

\* `now`, and with it the day of the row and of its file. The row is what the
\* caller asks to log.
Begin(row) ==
  /\ log.at = "idle"
  /\ log' = [at |-> IF today = currentDate THEN "write" ELSE "rotate",
             row |-> [row EXCEPT !.day = today]]
  /\ UNCHANGED <<today, disk, currentDate, writer, written, flushed, failed>>

\* Mutant: the file is the one of the day it is by now.
RotateMut ==
  /\ log.at = "rotate"
  /\ Create(today)
  /\ log' = [log EXCEPT !.at = "write"]
  /\ UNCHANGED <<today, currentDate, written, flushed>>

\* Mutant: the file is the one of the logger's date.
ReopenMut ==
  /\ log.at = "rotate"
  /\ Create(currentDate)
  /\ log' = [log EXCEPT !.at = "write"]
  /\ UNCHANGED <<today, currentDate, written, flushed>>

\* current_date stays what it was; the old writer is dropped as it is.
Rotate ==
  /\ log.at = "rotate"
  /\ Create(log.row.day)
  /\ log' = [log EXCEPT !.at = "write"]
  /\ UNCHANGED <<today, currentDate, written, flushed>>

Write ==
  /\ log.at = "write"
  /\ writer' = [writer EXCEPT !.buffer = Append(@, log.row)]
  /\ written' = Append(written, log.row)
  /\ log' = [log EXCEPT !.at = "flush"]
  /\ UNCHANGED <<today, disk, currentDate, flushed, failed>>

\* Mutant: log leaves the flush to the next full buffer.
FlushMut ==
  /\ log.at = "flush"
  /\ log' = [log EXCEPT !.at = "done"]
  /\ UNCHANGED <<today, disk, currentDate, writer, written, flushed, failed>>

Flush ==
  /\ log.at = "flush"
  /\ disk' = [disk EXCEPT ![writer.day] = @ \o writer.buffer]
  /\ flushed' = flushed \union {log.row}
  /\ writer' = [writer EXCEPT !.buffer = <<>>]
  /\ log' = [log EXCEPT !.at = "done"]
  /\ UNCHANGED <<today, currentDate, written, failed>>

\* The write stops before the end of the buffer, between two lines or within
\* one, and nothing is left to be written again.
FlushFails ==
  /\ log.at = "flush"
  /\ \E n \in 0 .. Len(writer.buffer) - 1, cut \in {<<>>, <<Fragment>>} :
       disk' = [disk EXCEPT ![writer.day] = @ \o SubSeq(writer.buffer, 1, n) \o cut]
  /\ failed' = failed \union {log.row}
  /\ writer' = [writer EXCEPT !.buffer = <<>>]
  /\ log' = [log EXCEPT !.at = "failed"]
  /\ UNCHANGED <<today, currentDate, written, flushed>>

Return ==
  /\ log.at \in {"done", "failed"}
  /\ log' = NoLog
  /\ UNCHANGED <<today, disk, currentDate, writer, written, flushed, failed>>

NewDay ==
  /\ today < MaxDay
  /\ today' = today + 1
  /\ UNCHANGED <<disk, currentDate, writer, log, written, flushed, failed>>

LogStep == Rotate \/ Write \/ Flush \/ FlushFails
=============================================================================
