--------------------------- MODULE ReportsProofs ---------------------------
(***************************************************************************)
(* Theorems about Reports, for every number of days, iterations and        *)
(* restarts.                                                               *)
(***************************************************************************)
EXTENDS Reports, SequenceTheorems, TLAPS

\* The first two parts of FilesAreReadable, for one file.
InOrder(file, day) ==
  /\ \A i \in 1 .. Len(file) : file[i] = Header => i = 1
  /\ \A i \in 1 .. Len(file) : file[i] \in Rows =>
       /\ file[i].day = day
       /\ \A j \in 1 .. i - 1 :
            file[j] \in Rows => file[j].iteration < file[i].iteration

\* The last one.
Whole(file) ==
  file # <<>> => /\ Head(file) = Header
                 /\ \A i \in 1 .. Len(file) : file[i] # Fragment

NoneFailed(day) == \A row \in failed : row.day # day

\* The rows of a file are of earlier iterations than n.
Before(file, n) == \A i \in 1 .. Len(file) : file[i] \in Rows => file[i].iteration < n

\* The logger's half of TypeOK.
LoggerTypes ==
  /\ today \in Days /\ currentDate \in 0 .. today
  /\ disk \in [Days -> Seq(Lines)]
  /\ writer \in [day : Days, buffer : Seq(Rows \union {Header})]
  /\ log \in [at : {"idle", "rotate", "write", "flush", "done", "failed"},
              row : Rows \union {Header}]
  /\ written \in Seq(Rows) /\ flushed \subseteq ToSet(written) /\ failed \subseteq Rows

\* The writer's file is of no day before the logger's, and a row that is not to
\* be rotated for is one of the writer's day.
Dates ==
  /\ writer.day \in currentDate .. today
  /\ log.at # "idle" => log.row \in Rows /\ log.row.day \in currentDate .. today
  /\ log.at = "rotate" => log.row.day > currentDate
  /\ log.at \in {"write", "flush", "done", "failed"} => log.row.day = writer.day

\* The buffer is empty between two rows, the header of a new file apart; the row
\* that is to be flushed has been counted among those written.
Buffered ==
  /\ log.at # "flush" => writer.buffer \in {<<>>, <<Header>>}
  /\ log.at = "flush" =>
       /\ writer.buffer \in {<<log.row>>, <<Header, log.row>>}
       /\ log.row \in ToSet(written)

\* A header waits in the buffer for an empty file, and for no other.
HeaderFirst ==
  /\ writer.buffer # <<>> /\ Head(writer.buffer) = Header => disk[writer.day] = <<>>
  /\ disk[writer.day] = <<>> /\ NoneFailed(writer.day) =>
       writer.buffer # <<>> /\ Head(writer.buffer) = Header

\* FilesAreReadable, and what the row to be added needs to leave it so.
Files ==
  /\ \A day \in Days :
       InOrder(disk[day], day) /\ (NoneFailed(day) => Whole(disk[day]))
  /\ log.at \in {"rotate", "write", "flush"} =>
       \A day \in Days : Before(disk[day], log.row.iteration)

\* NewestRowOnDisk.
Newest == log.at = "done" => disk[log.row.day] # <<>> /\ Last(disk[log.row.day]) = log.row

\* StartDayComplete, while the process runs and after it ended.
Kept ==
  \A row \in ToSet(written) : row.day = currentDate =>
    \/ Contains(disk[currentDate], row)
    \/ row \in failed
    \/ log.at = "flush" /\ row = log.row

LoggerOK == LoggerTypes /\ Dates /\ Buffered /\ HeaderFirst /\ Files /\ Newest /\ Kept

Ways == Outcomes \union {Way(FALSE, FALSE, FALSE)}

\* The loop's and the notifier's half of TypeOK.
LoopTypes ==
  /\ stage \in {"select", "notify", "log", "down"}
  /\ outcome \in Ways
  /\ iterations \in 0 .. MaxIterations /\ starts \in 0 .. MaxStarts
  /\ webhook \in BOOLEAN
  /\ outbox \subseteq called /\ called \subseteq 1 .. iterations
  /\ delivered \in Seq(called)

\* A call in flight has not been taken, and an iteration calls once.
CalledOnce ==
  /\ IsInjective(delivered)
  /\ \A i \in 1 .. Len(delivered) : delivered[i] \notin outbox
  /\ stage = "notify" => iterations > 0 /\ iterations \notin called

\* An iteration that traded comes to its row by way of its alert.
AlertFirst ==
  stage = "log" => iterations > 0 /\ (webhook /\ outcome.trade => iterations \in called)

LoopOK == LoopTypes /\ CalledOnce /\ AlertFirst

\* The rows on the disk are of iterations so far, of earlier ones until log
\* takes the row of this one.
RowsInTurn ==
  /\ \A day \in Days : Before(disk[day], iterations + 1)
  /\ stage = "notify" \/ (stage = "log" /\ log.at = "idle") =>
       \A day \in Days : Before(disk[day], iterations)
  /\ log.at # "idle" => log.row.iteration = iterations
  /\ stage \in {"select", "notify"} => log.at = "idle"

Told(line, told) == (webhook /\ line \in Rows /\ line.executed) => line.iteration \in told

\* TradesAnnouncedBeforeLogged, from the time the row is given on.
RowsAnnounced ==
  /\ \A day \in Days : \A i \in 1 .. Len(disk[day]) : Told(disk[day][i], called)
  /\ Told(log.row, called)

IInv == LoggerOK /\ LoopOK /\ RowsInTurn /\ RowsAnnounced

-----------------------------------------------------------------------------
(* Lines and files.                                                        *)

LEMMA LineTypes ==
  /\ Header \in Lines /\ Fragment \in Lines /\ Rows \subseteq Lines
  /\ Header \notin Rows /\ Fragment \notin Rows /\ Header # Fragment
<1>1. Header.day = -1 /\ Fragment.day = -2
  BY DEF Header, Fragment
<1>2. \A row \in Rows : row.day \in Nat
  BY LoggerConfig DEF Rows, Days
<1> QED
  BY <1>1, <1>2 DEF Lines

LEMMA EmptyFile ==
  ASSUME NEW day, NEW n PROVE InOrder(<<>>, day) /\ Whole(<<>>) /\ Before(<<>>, n)
BY DEF InOrder, Whole, Before

LEMMA LineRows == ASSUME NEW line \in Rows PROVE line.iteration \in Nat /\ line.day \in Nat
BY ReportsConfig, LoggerConfig DEF Rows, Days

\* What can be appended to a file without making it unreadable.
LEMMA FileGrows ==
  ASSUME NEW file \in Seq(Lines), NEW day, InOrder(file, day), NEW line \in Lines,
         line = Header => file = <<>>,
         line \in Rows => line.day = day /\ Before(file, line.iteration)
  PROVE  /\ InOrder(Append(file, line), day)
         /\ (Whole(file) /\ line # Fragment /\ (file = <<>> => line = Header)) =>
              Whole(Append(file, line))
<1> DEFINE more == Append(file, line)
<1>1. /\ more # <<>> /\ Len(more) = Len(file) + 1 /\ Len(file) \in Nat
      /\ \A i \in 1 .. Len(file) : more[i] = file[i]
      /\ more[Len(file) + 1] = line
      /\ file = <<>> => Len(file) = 0
      /\ file # <<>> => Len(file) > 0
  BY AppendProperties, EmptySeq
<1>2. \A i \in 1 .. Len(more) : i \in 1 .. Len(file) \/ i = Len(file) + 1
  BY <1>1
<1>3. ASSUME NEW i \in 1 .. Len(more), more[i] = Header PROVE i = 1
  BY <1>1, <1>2, <1>3 DEF InOrder
<1>4. ASSUME NEW i \in 1 .. Len(more), more[i] \in Rows
      PROVE  /\ more[i].day = day
             /\ \A j \in 1 .. i - 1 : more[j] \in Rows => more[j].iteration < more[i].iteration
  <2>1. CASE i \in 1 .. Len(file)
    <3>1. more[i] = file[i] /\ \A j \in 1 .. i - 1 : more[j] = file[j]
      BY <1>1, <2>1
    <3> QED
      BY <1>4, <2>1, <3>1 DEF InOrder
  <2>2. CASE i = Len(file) + 1
    <3>1. more[i] = line /\ \A j \in 1 .. i - 1 : j \in 1 .. Len(file) /\ more[j] = file[j]
      BY <1>1, <2>2
    <3> QED
      BY <1>4, <3>1 DEF Before
  <2> QED
    BY <1>2, <2>1, <2>2
<1>5. ASSUME Whole(file), line # Fragment, file = <<>> => line = Header
      PROVE  Head(more) = Header /\ \A i \in 1 .. Len(more) : more[i] # Fragment
  <2>1. Head(more) = more[1]
    BY <1>1
  <2>2. more[1] = Header
    <3>1. CASE file = <<>>
      BY <1>1, <1>5, <3>1
    <3>2. CASE file # <<>>
      BY <1>1, <1>5, <3>2 DEF Whole
    <3> QED
      BY <3>1, <3>2
  <2>3. \A i \in 1 .. Len(more) : more[i] # Fragment
    <3>1. file = <<>> => Len(file) = 0
      BY <1>1
    <3> QED
      BY <1>1, <1>2, <1>5, <3>1 DEF Whole
  <2> QED
    BY <2>1, <2>2, <2>3
<1>6. InOrder(more, day)
  BY <1>3, <1>4 DEF InOrder
<1> QED
  BY <1>5, <1>6 DEF Whole

\* What the header and a row, or a row alone, add to a file.
LEMMA AddLines ==
  ASSUME NEW file \in Seq(Lines), NEW a \in Lines, NEW b \in Lines
  PROVE  /\ file \o <<a>> = Append(file, a)
         /\ file \o <<a, b>> = Append(Append(file, a), b)
         /\ file \o <<>> = file
<1>1. Append(file, a) \in Seq(Lines)
  BY AppendProperties
<1>2. Append(file, a) = file \o <<a>> /\ Append(Append(file, a), b) = Append(file, a) \o <<b>>
  BY <1>1, AppendIsConcat
<1>3. (file \o <<a>>) \o <<b>> = file \o (<<a>> \o <<b>>)
  <2>1. <<a>> \in Seq(Lines) /\ <<b>> \in Seq(Lines)
    OBVIOUS
  <2> QED
    BY <2>1, ConcatAssociative
<1>4. <<a>> \o <<b>> = <<a, b>>
  <2>1. <<a>> \in Seq(Lines)
    OBVIOUS
  <2>2. Append(<<a>>, b) = <<a>> \o <<b>>
    BY <2>1, AppendIsConcat
  <2>3. Append(<<a>>, b) = <<a, b>>
    <3>1. <<a, b>> \in Seq(Lines) /\ Len(<<a, b>>) = 2 /\ <<a, b>>[1] = a /\ <<a, b>>[2] = b
      OBVIOUS
    <3>2. /\ Append(<<a>>, b) \in Seq(Lines) /\ Len(Append(<<a>>, b)) = 2
          /\ Append(<<a>>, b)[1] = a /\ Append(<<a>>, b)[2] = b
      BY <2>1, AppendProperties
    <3>3. \A i \in 1 .. 2 : i = 1 \/ i = 2
      OBVIOUS
    <3> QED
      BY <3>1, <3>2, <3>3, SeqEqual
  <2> QED
    BY <2>2, <2>3
<1> QED
  BY <1>2, <1>3, <1>4, ConcatEmptySeq

LEMMA AppendContains ==
  ASSUME NEW file \in Seq(Lines), NEW line \in Lines
  PROVE  /\ Contains(Append(file, line), line)
         /\ \A row : Contains(file, row) => Contains(Append(file, line), row)
         /\ Append(file, line) # <<>> /\ Last(Append(file, line)) = line
<1>1. /\ Append(file, line) # <<>> /\ Len(Append(file, line)) = Len(file) + 1 /\ Len(file) \in Nat
      /\ \A i \in 1 .. Len(file) : Append(file, line)[i] = file[i]
      /\ Append(file, line)[Len(file) + 1] = line
  BY AppendProperties
<1> QED
  BY <1>1 DEF Contains, Last

-----------------------------------------------------------------------------
(* The logger.                                                             *)

LEMMA LoggerStarts == LoggerInit => LoggerOK
<1> SUFFICES ASSUME LoggerInit PROVE LoggerOK
  OBVIOUS
<1>1. /\ today = 0 /\ currentDate = 0 /\ written = <<>> /\ flushed = {} /\ failed = {}
      /\ disk = [d \in Days |-> <<>>] /\ writer = [day |-> 0, buffer |-> <<Header>>]
      /\ log = [at |-> "idle", row |-> Header]
  BY DEF LoggerInit, NoLog
<1>2. 0 \in Days /\ \A day \in Days : disk[day] = <<>>
  BY <1>1, LoggerConfig DEF Days
<1>3. LoggerTypes
  BY <1>1, <1>2 DEF LoggerTypes
<1>4. Dates /\ Buffered /\ Newest
  BY <1>1 DEF Dates, Buffered, Newest
<1>5. HeaderFirst /\ Kept
  BY <1>1, <1>2 DEF HeaderFirst, Kept, ToSet
<1>6. Files
  BY <1>1, <1>2, EmptyFile DEF Files
<1> QED
  BY <1>3, <1>4, <1>5, <1>6 DEF LoggerOK

\* A file that is created is empty, its header in the buffer, and no other file
\* and no failure on another day is touched.
LEMMA Created ==
  ASSUME LoggerOK, NEW d \in Days, Create(d),
         log'.at \in {"idle", "write"}, log'.at = "write" => log.at = "rotate" /\ log'.row = log.row
  PROVE  /\ disk' \in [Days -> Seq(Lines)] /\ failed' \subseteq failed
         /\ writer' = [day |-> d, buffer |-> <<Header>>]
         /\ disk'[d] = <<>> /\ \A day \in Days : day # d => disk'[day] = disk[day]
         /\ \A row \in failed : row.day # d => row \in failed'
         /\ Buffered' /\ HeaderFirst' /\ Files'
<1>1. /\ disk' = [disk EXCEPT ![d] = <<>>] /\ disk \in [Days -> Seq(Lines)]
      /\ writer' = [day |-> d, buffer |-> <<Header>>]
      /\ failed' = {row \in failed : row.day # d}
  BY DEF Create, LoggerOK, LoggerTypes
<1>2. disk' \in [Days -> Seq(Lines)]
  BY <1>1
<1>3. disk'[d] = <<>> /\ \A day \in Days : day # d => disk'[day] = disk[day]
  BY <1>1
<1>4. Buffered' /\ HeaderFirst'
  BY <1>1, <1>3 DEF Buffered, HeaderFirst
<1>5. \A day \in Days : day # d /\ NoneFailed(day)' => NoneFailed(day)
  BY <1>1 DEF NoneFailed
<1>6. Files'
  BY <1>3, <1>5, EmptyFile DEF Files, LoggerOK
<1> QED
  BY <1>1, <1>2, <1>3, <1>4, <1>6

LEMMA RestartKeepsLogger == ASSUME LoggerOK, Restart PROVE LoggerOK'
<1>1. /\ today \in Days /\ today \in Nat /\ today' = today /\ currentDate' = today
      /\ log' = [at |-> "idle", row |-> Header] /\ written' = <<>> /\ flushed' = {}
  BY LoggerConfig DEF Restart, NoLog, LoggerOK, LoggerTypes, Days
<1>2. /\ disk' \in [Days -> Seq(Lines)] /\ failed' \subseteq failed
      /\ writer' = [day |-> today, buffer |-> <<Header>>]
      /\ Buffered' /\ HeaderFirst' /\ Files'
  BY <1>1, Created DEF Restart
<1>3. LoggerTypes'
  BY <1>1, <1>2 DEF LoggerOK, LoggerTypes
<1>4. Dates' /\ Newest'
  BY <1>1, <1>2 DEF Dates, Newest
<1>5. Kept'
  BY <1>1 DEF Kept, ToSet
<1> QED
  BY <1>2, <1>3, <1>4, <1>5 DEF LoggerOK

\* The row that log is given is of a later iteration than those on the disk.
LEMMA BeginKeepsLogger ==
  ASSUME LoggerOK, NEW i \in 1 .. MaxIterations, NEW e \in BOOLEAN,
         \A day \in Days : Before(disk[day], i),
         Begin([day |-> 0, iteration |-> i, executed |-> e])
  PROVE  LoggerOK'
<1> DEFINE row == [day |-> today, iteration |-> i, executed |-> e]
           at  == IF today = currentDate THEN "write" ELSE "rotate"
<1>1. /\ log.at = "idle" /\ row \in Rows /\ row.day = today
      /\ log' = [at |-> at, row |-> row]
      /\ UNCHANGED <<today, disk, currentDate, writer, written, flushed, failed>>
  <2>1. [[day |-> 0, iteration |-> i, executed |-> e] EXCEPT !.day = today] = row
    OBVIOUS
  <2> QED
    BY <2>1 DEF Begin, LoggerOK, LoggerTypes, Rows
<1>2. LoggerTypes'
  BY <1>1 DEF LoggerOK, LoggerTypes
<1>3. Dates'
  BY <1>1, LoggerConfig DEF LoggerOK, LoggerTypes, Dates, Days
<1>4. Newest' /\ Buffered' /\ HeaderFirst' /\ Kept'
  BY <1>1 DEF LoggerOK, Newest, Buffered, HeaderFirst, NoneFailed, Kept
<1>5. Files'
  BY <1>1 DEF LoggerOK, Files, NoneFailed
<1> QED
  BY <1>2, <1>3, <1>4, <1>5 DEF LoggerOK

LEMMA RotateKeepsLogger == ASSUME LoggerOK, Rotate PROVE LoggerOK'
<1> DEFINE d == log.row.day
<1>1. /\ log.at = "rotate" /\ log.row \in Rows
      /\ d \in Days /\ d \in Nat /\ d > currentDate /\ d <= today
      /\ today \in Nat /\ currentDate \in 0 .. today /\ currentDate \in Days
  BY LoggerConfig DEF LoggerOK, LoggerTypes, Dates, Rotate, Rows, Days
<1>2. /\ log' = [at |-> "write", row |-> log.row]
      /\ UNCHANGED <<today, currentDate, written, flushed>>
  BY DEF Rotate, LoggerOK, LoggerTypes
<1>3. /\ disk' \in [Days -> Seq(Lines)] /\ failed' \subseteq failed
      /\ writer' = [day |-> d, buffer |-> <<Header>>]
      /\ \A day \in Days : day # d => disk'[day] = disk[day]
      /\ \A row \in failed : row.day # d => row \in failed'
      /\ Buffered' /\ HeaderFirst' /\ Files'
  BY <1>1, <1>2, Created DEF Rotate
<1>4. LoggerTypes'
  BY <1>1, <1>2, <1>3 DEF LoggerOK, LoggerTypes
<1>5. Dates' /\ Newest'
  <2>1. /\ log'.at = "write" /\ log'.row = log.row /\ writer'.day = d
        /\ today' = today /\ currentDate' = currentDate
    BY <1>2, <1>3
  <2> QED
    BY <1>1, <2>1 DEF Dates, Newest
<1>6. Kept'
  <2>1. currentDate # d /\ currentDate' = currentDate /\ written' = written
    BY <1>1, <1>2
  <2> QED
    BY <1>1, <1>2, <1>3, <2>1 DEF LoggerOK, Kept
<1> QED
  BY <1>3, <1>4, <1>5, <1>6 DEF LoggerOK

LEMMA WriteKeepsLogger == ASSUME LoggerOK, Write PROVE LoggerOK'
<1> DEFINE row == log.row
           back == writer.buffer
<1>1. /\ log.at = "write" /\ row \in Rows /\ row.day = writer.day
      /\ back \in {<<>>, <<Header>>} /\ written \in Seq(Rows)
  BY DEF LoggerOK, LoggerTypes, Dates, Buffered, Write
<1>2. /\ writer' = [day |-> writer.day, buffer |-> Append(back, row)]
      /\ log' = [at |-> "flush", row |-> row]
      /\ written' = Append(written, row)
      /\ UNCHANGED <<today, disk, currentDate, flushed, failed>>
  BY DEF Write, LoggerOK, LoggerTypes
<1>3. /\ back = <<>> => Append(back, row) = <<row>>
      /\ back = <<Header>> => Append(back, row) = <<Header, row>>
  <2>1. /\ row \in Lines /\ Header \in Lines /\ <<>> \in Seq(Lines)
        /\ <<>> \o <<row>> = <<row>> /\ <<>> \o <<Header, row>> = <<Header, row>>
        /\ <<>> \o <<Header>> = <<Header>>
    BY <1>1, LineTypes, ConcatEmptySeq DEF Lines
  <2>2. /\ <<>> \o <<row>> = Append(<<>>, row)
        /\ <<>> \o <<Header>> = Append(<<>>, Header)
        /\ <<>> \o <<Header, row>> = Append(Append(<<>>, Header), row)
    <3> HIDE DEF row
    <3> QED
      BY <2>1, AddLines
  <2> QED
    BY <2>1, <2>2
<1>4. ToSet(written') = ToSet(written) \union {row} /\ written' \in Seq(Rows)
  <2>1. /\ written' \in Seq(Rows) /\ Len(written') = Len(written) + 1
        /\ \A i \in 1 .. Len(written) : written'[i] = written[i]
        /\ written'[Len(written) + 1] = row
        /\ Len(written) \in Nat
    BY <1>1, <1>2, AppendProperties
  <2>2. DOMAIN written = 1 .. Len(written) /\ DOMAIN written' = 1 .. Len(written) + 1
    BY <1>1, <2>1
  <2> QED
    BY <2>1, <2>2 DEF ToSet
<1>5. writer'.buffer \in {<<row>>, <<Header, row>>} /\ writer'.buffer \in Seq(Rows \union {Header})
  <2>1. writer'.buffer \in {<<row>>, <<Header, row>>}
    BY <1>1, <1>2, <1>3
  <2>2. <<row>> \in Seq(Rows \union {Header}) /\ <<Header, row>> \in Seq(Rows \union {Header})
    BY <1>1
  <2> QED
    BY <2>1, <2>2
<1>6. LoggerTypes'
  BY <1>1, <1>2, <1>4, <1>5 DEF LoggerOK, LoggerTypes
<1>7. Dates'
  BY <1>1, <1>2 DEF LoggerOK, Dates
<1>8. Newest' /\ Buffered'
  BY <1>2, <1>4, <1>5 DEF Newest, Buffered
<1>9. HeaderFirst'
  <2>1. /\ writer'.buffer # <<>>
        /\ Head(writer'.buffer) = Header <=> back # <<>> /\ Head(back) = Header
    <3>1. CASE back = <<>>
      <4>1. writer'.buffer = <<row>> /\ row # Header
        BY <1>1, <1>2, <1>3, <3>1, LineTypes
      <4> QED
        BY <3>1, <4>1
    <3>2. CASE back = <<Header>>
      BY <1>2, <1>3, <3>2
    <3> QED
      BY <1>1, <3>1, <3>2
  <2>2. UNCHANGED <<writer.day, disk, failed>>
    BY <1>2
  <2> QED
    BY <2>1, <2>2 DEF LoggerOK, HeaderFirst, NoneFailed
<1>10. Files'
  BY <1>1, <1>2 DEF LoggerOK, Files, NoneFailed
<1>11. Kept'
  BY <1>1, <1>2, <1>4 DEF LoggerOK, Kept
<1> QED
  BY <1>6, <1>7, <1>8, <1>9, <1>10, <1>11 DEF LoggerOK

\* The file that is flushed to, and the row that is flushed.
LEMMA ToFlush ==
  ASSUME LoggerOK, log.at = "flush"
  PROVE  /\ writer.day \in Days /\ disk[writer.day] \in Seq(Lines)
         /\ log.row \in Rows /\ log.row \in Lines /\ log.row # Header /\ log.row # Fragment
         /\ log.row.day = writer.day /\ Before(disk[writer.day], log.row.iteration)
         /\ InOrder(disk[writer.day], writer.day)
         /\ NoneFailed(writer.day) => Whole(disk[writer.day])
         /\ writer.buffer \in {<<log.row>>, <<Header, log.row>>}
         /\ writer.buffer = <<Header, log.row>> => disk[writer.day] = <<>>
         /\ disk[writer.day] = <<>> /\ NoneFailed(writer.day) => writer.buffer = <<Header, log.row>>
<1>1. /\ writer.day \in Days /\ disk[writer.day] \in Seq(Lines)
      /\ log.row \in Rows /\ log.row.day = writer.day
      /\ writer.buffer \in {<<log.row>>, <<Header, log.row>>}
  BY DEF LoggerOK, LoggerTypes, Dates, Buffered
<1>2. log.row \in Lines /\ log.row # Header /\ log.row # Fragment
  BY <1>1, LineTypes
<1>3. /\ Before(disk[writer.day], log.row.iteration)
      /\ InOrder(disk[writer.day], writer.day)
      /\ NoneFailed(writer.day) => Whole(disk[writer.day])
  BY <1>1 DEF LoggerOK, Files
<1>4. writer.buffer = <<Header, log.row>> => writer.buffer # <<>> /\ Head(writer.buffer) = Header
  OBVIOUS
<1>5. writer.buffer = <<log.row>> => ~(writer.buffer # <<>> /\ Head(writer.buffer) = Header)
  BY <1>2
<1> QED
  BY <1>1, <1>2, <1>3, <1>4, <1>5 DEF LoggerOK, HeaderFirst

\* The file after a flush: the row is appended, after the header if that is due.
LEMMA FlushedFile ==
  ASSUME LoggerOK, log.at = "flush"
  PROVE  \E front \in Seq(Lines) :
           /\ front = disk[writer.day] \/ (disk[writer.day] = <<>> /\ front = <<Header>>)
           /\ disk[writer.day] \o writer.buffer = Append(front, log.row)
           /\ InOrder(front, writer.day) /\ Before(front, log.row.iteration)
           /\ NoneFailed(writer.day) => Whole(front) /\ front # <<>>
<1> DEFINE file == disk[writer.day]
<1>1. /\ file \in Seq(Lines) /\ log.row \in Lines /\ Header \in Lines
      /\ file \o <<log.row>> = Append(file, log.row)
      /\ file \o <<Header, log.row>> = Append(Append(file, Header), log.row)
  <2>1. file \in Seq(Lines) /\ log.row \in Lines /\ Header \in Lines
    BY ToFlush, LineTypes
  <2> HIDE DEF file
  <2> QED
    BY <2>1, AddLines
<1>2. CASE writer.buffer = <<log.row>>
  <2>1. NoneFailed(writer.day) => file # <<>>
    <3>1. <<log.row>> # <<Header, log.row>>
      OBVIOUS
    <3> QED
      BY <1>2, <3>1, ToFlush
  <2> QED
    BY <1>1, <1>2, <2>1, ToFlush
<1>3. CASE writer.buffer = <<Header, log.row>>
  <2>1. file = <<>>
    BY <1>3, ToFlush
  <2>2. Append(<<>>, Header) = <<Header>>
    <3>1. <<>> \in Seq(Lines) /\ <<>> \o <<Header>> = <<Header>>
      BY LineTypes, ConcatEmptySeq
    <3> QED
      BY <1>1, <3>1, AddLines
  <2>3. <<Header>> \in Seq(Lines) /\ <<Header>> # <<>>
    BY LineTypes
  <2>4. /\ InOrder(<<Header>>, writer.day) /\ Whole(<<Header>>)
        /\ Before(<<Header>>, log.row.iteration)
    BY LineTypes DEF InOrder, Whole, Before
  <2> QED
    BY <1>1, <1>3, <2>1, <2>2, <2>3, <2>4
<1> QED
  BY <1>2, <1>3, ToFlush

LEMMA FlushKeepsLogger == ASSUME LoggerOK, Flush PROVE LoggerOK'
<1> DEFINE d == writer.day
           row == log.row
<1>1. /\ log.at = "flush" /\ d \in Days /\ row \in Rows /\ row \in Lines /\ row.day = d
      /\ row # Header /\ row # Fragment
      /\ disk \in [Days -> Seq(Lines)] /\ row \in ToSet(written)
  BY ToFlush DEF LoggerOK, LoggerTypes, Buffered, Flush
<1>2. PICK front \in Seq(Lines) :
        /\ front = disk[d] \/ (disk[d] = <<>> /\ front = <<Header>>)
        /\ disk[d] \o writer.buffer = Append(front, row)
        /\ InOrder(front, d) /\ Before(front, row.iteration)
        /\ NoneFailed(d) => Whole(front) /\ front # <<>>
  BY <1>1, FlushedFile
<1>3. /\ disk' = [disk EXCEPT ![d] = Append(front, row)]
      /\ writer' = [day |-> d, buffer |-> <<>>]
      /\ log' = [at |-> "done", row |-> row]
      /\ flushed' = flushed \union {row}
      /\ UNCHANGED <<today, currentDate, written, failed>>
  BY <1>2 DEF Flush, LoggerOK, LoggerTypes
<1>4. /\ Append(front, row) \in Seq(Lines) /\ Append(front, row) # <<>>
      /\ Contains(Append(front, row), row)
      /\ \A r : Contains(front, r) => Contains(Append(front, row), r)
      /\ Last(Append(front, row)) = row
  <2> HIDE DEF row
  <2> QED
    BY <1>1, AppendProperties, AppendContains
<1>5. disk'[d] = Append(front, row) /\ \A day \in Days : day # d => disk'[day] = disk[day]
  BY <1>1, <1>3
<1>6. LoggerTypes'
  BY <1>1, <1>3, <1>4 DEF LoggerOK, LoggerTypes
<1>7. Dates'
  BY <1>1, <1>3 DEF LoggerOK, Dates
<1>8. Newest' /\ Buffered' /\ HeaderFirst'
  BY <1>1, <1>3, <1>4, <1>5 DEF Newest, Buffered, HeaderFirst
<1>9. Files'
  <2>1. InOrder(Append(front, row), d) /\ (NoneFailed(d) => Whole(Append(front, row)))
    <3> HIDE DEF row
    <3> QED
      BY <1>1, <1>2, FileGrows
  <2> QED
    BY <1>1, <1>3, <1>5, <2>1 DEF LoggerOK, Files, NoneFailed
<1>10. Kept'
  <2> SUFFICES ASSUME NEW r \in ToSet(written), r.day = currentDate
               PROVE  Contains(disk'[currentDate], r) \/ r \in failed
    BY <1>3 DEF Kept
  <2>1. currentDate \in Days
    BY LoggerConfig DEF LoggerOK, LoggerTypes, Days
  <2>2. CASE r = row
    BY <1>1, <1>4, <1>5, <2>2
  <2>3. CASE Contains(disk[currentDate], r)
    <3>1. CASE currentDate = d
      <4>1. Contains(front, r)
        <5>1. ~Contains(<<>>, r)
          BY DEF Contains
        <5> QED
          BY <1>2, <2>3, <3>1, <5>1
      <4> QED
        BY <1>4, <1>5, <3>1, <4>1
    <3> QED
      BY <1>5, <2>1, <2>3, <3>1
  <2> QED
    BY <2>2, <2>3 DEF LoggerOK, Kept
<1> QED
  BY <1>6, <1>7, <1>8, <1>9, <1>10 DEF LoggerOK

\* What a flush that fails leaves of the file: it, perhaps with its header, and
\* perhaps a piece of a line.
LEMMA FailedFile ==
  ASSUME LoggerOK, FlushFails
  PROVE  \E part \in Seq(Lines), file \in Seq(Lines) :
           /\ part = disk[writer.day] \/ (disk[writer.day] = <<>> /\ part = Append(<<>>, Header))
           /\ file \in {part, Append(part, Fragment)}
           /\ disk' = [disk EXCEPT ![writer.day] = file]
<1> DEFINE old == disk[writer.day]
           buffer == writer.buffer
<1>1. /\ writer.day \in Days /\ old \in Seq(Lines)
      /\ log.row \in Lines /\ Header \in Lines /\ Fragment \in Lines
      /\ buffer \in {<<log.row>>, <<Header, log.row>>}
      /\ buffer = <<Header, log.row>> => old = <<>>
  BY ToFlush, LineTypes DEF FlushFails
<1>2. PICK n \in 0 .. Len(buffer) - 1, cut \in {<<>>, <<Fragment>>} :
        disk' = [disk EXCEPT ![writer.day] = old \o SubSeq(buffer, 1, n) \o cut]
  BY DEF FlushFails
<1> DEFINE part == IF n = 0 THEN old ELSE Append(old, Header)
<1> HIDE DEF old, buffer
<1>3. /\ <<log.row>> \in Seq(Lines) /\ Len(<<log.row>>) = 1
      /\ <<Header, log.row>> \in Seq(Lines) /\ Len(<<Header, log.row>>) = 2
  BY <1>1
<1>4. buffer \in Seq(Lines) /\ (n = 0 \/ (n = 1 /\ buffer = <<Header, log.row>>))
  <2>1. CASE buffer = <<log.row>>
    <3>1. Len(buffer) = 1
      BY <1>3, <2>1
    <3> QED
      BY <1>2, <1>3, <2>1, <3>1
  <2>2. CASE buffer = <<Header, log.row>>
    <3>1. Len(buffer) = 2
      BY <1>3, <2>2
    <3> QED
      BY <1>2, <1>3, <2>2, <3>1
  <2> QED
    BY <1>1, <2>1, <2>2
<1>5. part \in Seq(Lines) /\ old \o SubSeq(buffer, 1, n) = part
  <2>1. CASE n = 0
    <3>1. SubSeq(buffer, 1, n) = <<>>
      BY <1>4, <2>1, SubSeqEmpty
    <3> QED
      BY <1>1, <2>1, <3>1, AddLines
  <2>2. CASE n = 1 /\ buffer = <<Header, log.row>>
    <3>1. buffer[1] = Header /\ Len(buffer) = 2
      BY <2>2
    <3>2. /\ SubSeq(buffer, 1, 1) \in Seq(Lines) /\ Len(SubSeq(buffer, 1, 1)) = 1
          /\ SubSeq(buffer, 1, 1)[1] = Header
      BY <1>4, <3>1, SubSeqProperties
    <3>3. /\ <<Header>> \in Seq(Lines) /\ Len(<<Header>>) = 1 /\ <<Header>>[1] = Header
          /\ \A i \in 1 .. 1 : i = 1
      BY <1>1
    <3>4. SubSeq(buffer, 1, 1) = <<Header>>
      BY <3>2, <3>3, SeqEqual
    <3>5. old \o <<Header>> = Append(old, Header) /\ Append(old, Header) \in Seq(Lines)
      BY <1>1, AddLines, AppendProperties
    <3> QED
      BY <2>2, <3>4, <3>5
  <2> QED
    BY <1>4, <2>1, <2>2
<1>6. part \o <<>> = part /\ part \o <<Fragment>> = Append(part, Fragment)
      /\ Append(part, Fragment) \in Seq(Lines)
  <2> HIDE DEF part
  <2> QED
    BY <1>1, <1>5, AddLines, AppendProperties
<1>7. part = old \/ (old = <<>> /\ part = Append(<<>>, Header))
  BY <1>1, <1>4
<1> DEFINE file == part \o cut
<1>8. /\ file \in Seq(Lines) /\ file \in {part, Append(part, Fragment)}
      /\ disk' = [disk EXCEPT ![writer.day] = file]
  <2>1. cut = <<>> \/ cut = <<Fragment>>
    BY <1>2
  <2>2. file \in Seq(Lines) /\ file \in {part, Append(part, Fragment)}
    <3> HIDE DEF part
    <3> QED
      BY <1>5, <1>6, <2>1
  <2> QED
    BY <1>2, <1>5, <2>2
<1> QED
  BY <1>5, <1>7, <1>8 DEF old

\* A flush that fails adds no row to its file and takes none from it.
LEMMA FailedRows ==
  ASSUME NEW old \in Seq(Lines), NEW part \in Seq(Lines), NEW file \in Seq(Lines),
         part = old \/ (old = <<>> /\ part = Append(<<>>, Header)),
         file \in {part, Append(part, Fragment)}
  PROVE  /\ \A i \in 1 .. Len(file) : file[i] \in Rows => i \in 1 .. Len(old) /\ file[i] = old[i]
         /\ \A row : Contains(old, row) => Contains(file, row)
         /\ \A day : InOrder(old, day) => InOrder(file, day)
<1>1. Header \in Lines /\ Fragment \in Lines /\ Header \notin Rows /\ Fragment \notin Rows
      /\ Header # Fragment
  BY LineTypes
<1>2. /\ \A i \in 1 .. Len(part) : part[i] \in Rows => i \in 1 .. Len(old) /\ part[i] = old[i]
      /\ \A row : Contains(old, row) => Contains(part, row)
      /\ \A day : InOrder(old, day) => InOrder(part, day)
  <2>1. CASE part = old
    BY <2>1
  <2>2. CASE old = <<>> /\ part = Append(<<>>, Header)
    <3>1. Len(part) = 1 /\ part[1] = Header /\ \A row : ~Contains(old, row)
      BY <1>1, <2>2, AppendProperties DEF Contains
    <3>2. \A day : InOrder(part, day)
      BY <1>1, <3>1 DEF InOrder
    <3> QED
      BY <1>1, <3>1, <3>2
  <2> QED
    BY <2>1, <2>2
<1>3. CASE file = part
  BY <1>2, <1>3
<1>4. CASE file = Append(part, Fragment)
  <2>1. /\ Len(file) = Len(part) + 1 /\ Len(part) \in Nat
        /\ \A i \in 1 .. Len(part) : file[i] = part[i]
        /\ file[Len(part) + 1] = Fragment
    BY <1>1, <1>4, AppendProperties
  <2>2. \A i \in 1 .. Len(file) : file[i] \in Rows => i \in 1 .. Len(part)
    BY <1>1, <2>1
  <2>3. \A row : Contains(part, row) => Contains(file, row)
    BY <1>1, <1>4, AppendContains
  <2>4. \A day : InOrder(part, day) => InOrder(file, day)
    BY <1>1, <1>4, FileGrows
  <2> QED
    BY <1>2, <2>1, <2>2, <2>3, <2>4
<1> QED
  BY <1>3, <1>4

LEMMA FailureKeepsLogger == ASSUME LoggerOK, FlushFails PROVE LoggerOK'
<1> DEFINE d == writer.day
           row == log.row
<1>1. /\ log.at = "flush" /\ d \in Days /\ row \in Rows /\ row.day = d
      /\ disk \in [Days -> Seq(Lines)] /\ disk[d] \in Seq(Lines)
  BY ToFlush DEF LoggerOK, LoggerTypes, FlushFails
<1>2. PICK part \in Seq(Lines), file \in Seq(Lines) :
        /\ part = disk[d] \/ (disk[d] = <<>> /\ part = Append(<<>>, Header))
        /\ file \in {part, Append(part, Fragment)}
        /\ disk' = [disk EXCEPT ![d] = file]
  BY FailedFile
<1>3. /\ writer' = [day |-> d, buffer |-> <<>>] /\ failed' = failed \union {row}
      /\ log' = [at |-> "failed", row |-> row]
      /\ UNCHANGED <<today, currentDate, written, flushed>>
  BY DEF FlushFails, LoggerOK, LoggerTypes
<1>4. disk'[d] = file /\ \A day \in Days : day # d => disk'[day] = disk[day]
  BY <1>1, <1>2
<1>5. /\ \A r : Contains(disk[d], r) => Contains(file, r)
      /\ InOrder(disk[d], d) => InOrder(file, d)
  <2> HIDE DEF d
  <2> QED
    BY <1>1, <1>2, FailedRows
<1>6. LoggerTypes'
  BY <1>1, <1>2, <1>3 DEF LoggerOK, LoggerTypes
<1>7. Dates' /\ Newest' /\ Buffered'
  BY <1>1, <1>3 DEF LoggerOK, Dates, Newest, Buffered
<1>8. ~NoneFailed(d)' /\ \A day \in Days : NoneFailed(day)' => NoneFailed(day)
  BY <1>1, <1>3 DEF NoneFailed
<1>9. HeaderFirst' /\ Files'
  BY <1>1, <1>3, <1>4, <1>5, <1>8 DEF LoggerOK, HeaderFirst, Files
<1>10. Kept'
  <2>1. currentDate \in Days
    BY LoggerConfig DEF LoggerOK, LoggerTypes, Days
  <2>2. \A r : Contains(disk[currentDate], r) => Contains(disk'[currentDate], r)
    BY <1>4, <1>5, <2>1
  <2> QED
    BY <1>3, <2>2 DEF LoggerOK, Kept
<1> QED
  BY <1>6, <1>7, <1>9, <1>10 DEF LoggerOK

\* The steps that touch neither a file nor its buffer.
LEMMA OthersKeepLogger ==
  ASSUME LoggerOK, Return \/ NewDay \/ UNCHANGED loggerVars
  PROVE  LoggerOK'
<1> USE DEF LoggerOK
<1>1. ASSUME Return PROVE LoggerOK'
  <2>1. /\ log.at # "flush" /\ log' = [at |-> "idle", row |-> Header]
        /\ UNCHANGED <<today, disk, currentDate, writer, written, flushed, failed>>
    BY <1>1 DEF Return, NoLog
  <2>2. LoggerTypes' /\ Dates' /\ Newest'
    BY <2>1 DEF LoggerTypes, Dates, Newest
  <2>3. Buffered' /\ HeaderFirst' /\ Files' /\ Kept'
    BY <2>1 DEF Buffered, HeaderFirst, Files, NoneFailed, Kept
  <2> QED
    BY <2>2, <2>3
<1>2. ASSUME NewDay PROVE LoggerOK'
  <2>1. /\ today' = today + 1 /\ today < MaxDay
        /\ UNCHANGED <<disk, currentDate, writer, log, written, flushed, failed>>
        /\ today \in Nat /\ today' \in Days
    BY <1>2, LoggerConfig DEF NewDay, LoggerTypes, Days
  <2>2. LoggerTypes'
    BY <2>1, LoggerConfig DEF LoggerTypes, Days
  <2>3. Dates'
    <3>1. writer.day \in Nat /\ currentDate \in Nat /\ (log.row \in Rows => log.row.day \in Nat)
      BY LoggerConfig DEF LoggerTypes, Days, Rows
    <3> QED
      BY <2>1, <3>1 DEF Dates
  <2>4. Newest' /\ Buffered' /\ HeaderFirst' /\ Files' /\ Kept'
    BY <2>1 DEF Newest, Buffered, HeaderFirst, Files, NoneFailed, Kept
  <2> QED
    BY <2>2, <2>3, <2>4
<1>3. ASSUME UNCHANGED loggerVars PROVE LoggerOK'
  BY <1>3 DEF loggerVars, LoggerTypes, Dates, Newest, Buffered, HeaderFirst, Files, NoneFailed, Kept
<1> QED
  BY <1>1, <1>2, <1>3

-----------------------------------------------------------------------------
(* The loop and its notifier.                                              *)

LEMMA LoopStarts == Init => LoopOK /\ RowsInTurn /\ RowsAnnounced
<1> SUFFICES ASSUME Init PROVE LoopOK /\ RowsInTurn /\ RowsAnnounced
  OBVIOUS
<1>1. /\ stage = "select" /\ iterations = 0 /\ starts = 0
      /\ webhook \in BOOLEAN /\ outbox = {} /\ called = {} /\ delivered = <<>>
  BY DEF Init
<1>2. LoopTypes
  <2>1. outcome \in Ways
    BY Zenon DEF Init, Ways
  <2>2. delivered \in Seq(called)
    BY <1>1, EmptySeq
  <2> QED
    BY <1>1, <2>1, <2>2, ReportsConfig DEF LoopTypes
<1>3. CalledOnce /\ AlertFirst
  BY <1>1 DEF CalledOnce, AlertFirst, IsInjective
<1>4. /\ \A day \in Days : disk[day] = <<>>
      /\ log.at = "idle" /\ log.row = Header
  BY DEF Init, LoggerInit, NoLog
<1>5. RowsInTurn /\ RowsAnnounced
  BY <1>1, <1>4, EmptyFile, LineTypes DEF RowsInTurn, RowsAnnounced, Told
<1> QED
  BY <1>2, <1>3, <1>5 DEF LoopOK

LEMMA OutcomesTold ==
  ASSUME NEW way \in Ways
  PROVE  way.trade \in BOOLEAN /\ (way.trade => way.alert)
<1>1. ASSUME NEW a \in BOOLEAN, NEW r \in BOOLEAN, NEW t \in BOOLEAN, way = Way(a, r, t)
      PROVE  way.trade = t /\ way.alert = a
  BY <1>1 DEF Way
<1>2. \/ way = Way(FALSE, TRUE, FALSE) \/ way = Way(TRUE, TRUE, FALSE)
      \/ way = Way(TRUE, TRUE, TRUE) \/ way = Way(TRUE, FALSE, TRUE)
      \/ way = Way(FALSE, FALSE, FALSE)
  BY Zenon DEF Outcomes, Ways
<1> QED
  BY <1>1, <1>2

LEMMA IterateKeepsLoop == ASSUME LoopOK, Iterate PROVE LoopOK'
<1>1. /\ stage' \in {"notify", "log"} /\ outcome' \in Ways
      /\ stage' = "log" => ~outcome'.alert
      /\ iterations' = iterations + 1 /\ iterations < MaxIterations
      /\ UNCHANGED <<webhook, outbox, called, delivered, starts>>
  BY DEF Iterate, Ways, notifyVars
<1>2. iterations \in Nat /\ called \subseteq 1 .. iterations
  BY ReportsConfig DEF LoopOK, LoopTypes
<1>3. /\ iterations' \in 1 .. MaxIterations /\ called \subseteq 1 .. iterations'
      /\ iterations' \notin called
  BY <1>1, <1>2, ReportsConfig
<1>4. LoopTypes'
  BY <1>1, <1>3 DEF LoopOK, LoopTypes
<1>5. CalledOnce'
  BY <1>1, <1>3 DEF LoopOK, CalledOnce, IsInjective
<1>6. AlertFirst'
  <2>1. stage' = "log" => ~outcome'.trade
    BY <1>1, OutcomesTold
  <2> QED
    BY <1>3, <2>1 DEF AlertFirst
<1> QED
  BY <1>4, <1>5, <1>6 DEF LoopOK

LEMMA NotifyKeepsLoop == ASSUME LoopOK, Notify PROVE LoopOK'
<1>1. /\ stage = "notify" /\ stage' \in {"log", "select"}
      /\ \/ webhook /\ called' = called \union {iterations} /\ outbox' = outbox \union {iterations}
         \/ ~webhook /\ called' = called /\ outbox' = outbox
      /\ UNCHANGED <<outcome, iterations, starts, webhook, delivered>>
  BY DEF Notify
<1>2. /\ iterations \in Nat \ {0} /\ called \subseteq 1 .. iterations
      /\ iterations \notin called /\ delivered \in Seq(called)
      /\ outbox \subseteq called
      /\ outcome \in Ways
  BY <1>1, ReportsConfig DEF LoopOK, LoopTypes, CalledOnce
<1>3. /\ called' \subseteq 1 .. iterations /\ outbox' \subseteq called'
      /\ delivered \in Seq(called')
      /\ \A i \in 1 .. Len(delivered) : delivered[i] \in called
  <2>1. CASE webhook
    <3>1. called' = called \union {iterations} /\ outbox' = outbox \union {iterations}
      BY <1>1, <2>1
    <3>2. called \subseteq called' /\ called' \subseteq 1 .. iterations /\ outbox' \subseteq called'
      BY <1>2, <3>1
    <3>3. delivered \in Seq(called')
      <4>1. delivered \in Seq(called) /\ called \subseteq called'
        BY <1>2, <3>2
      <4> QED
        BY <4>1, SeqMonotonic
    <3>4. \A i \in 1 .. Len(delivered) : delivered[i] \in called
      BY <1>2, ElementOfSeq
    <3> QED
      BY <3>2, <3>3, <3>4
  <2>2. CASE ~webhook
    <3>1. called' = called /\ outbox' = outbox
      BY <1>1, <2>2
    <3> QED
      BY <1>2, <3>1
  <2> QED
    BY <2>1, <2>2
<1>4. LoopTypes'
  BY <1>1, <1>3 DEF LoopOK, LoopTypes
<1>5. CalledOnce'
  BY <1>1, <1>2, <1>3 DEF LoopOK, CalledOnce, IsInjective
<1>6. AlertFirst'
  BY <1>1, <1>2 DEF AlertFirst
<1> QED
  BY <1>4, <1>5, <1>6 DEF LoopOK

\* A call ends with at most one alert more on the other side.
LEMMA CallKeepsLoop ==
  ASSUME LoopOK, NEW alert \in outbox, Deliver(alert) \/ CallFails(alert)
  PROVE  LoopOK'
<1>1. /\ outbox' = outbox \ {alert}
      /\ delivered' = delivered \/ delivered' = Append(delivered, alert)
      /\ UNCHANGED <<loopVars, webhook, called>>
  BY DEF Deliver, CallFails, CallEnds
<1>2. /\ alert \in called /\ delivered \in Seq(called)
      /\ \A i \in 1 .. Len(delivered) : delivered[i] # alert
      /\ IsInjective(delivered)
      /\ \A i \in 1 .. Len(delivered) : delivered[i] \notin outbox
  BY DEF LoopOK, LoopTypes, CalledOnce
<1>3. /\ delivered' \in Seq(called) /\ IsInjective(delivered')
      /\ \A i \in 1 .. Len(delivered') : delivered'[i] \notin outbox'
  <2>1. CASE delivered' = delivered
    BY <1>1, <1>2, <2>1
  <2>2. CASE delivered' = Append(delivered, alert)
    <3>1. /\ delivered' \in Seq(called) /\ Len(delivered') = Len(delivered) + 1
          /\ \A i \in 1 .. Len(delivered) : delivered'[i] = delivered[i]
          /\ delivered'[Len(delivered) + 1] = alert
          /\ Len(delivered) \in Nat
      BY <1>2, <2>2, AppendProperties
    <3>2. DOMAIN delivered = 1 .. Len(delivered) /\ DOMAIN delivered' = 1 .. Len(delivered) + 1
      BY <1>2, <3>1
    <3>3. IsInjective(delivered')
      BY <1>2, <3>1, <3>2 DEF IsInjective
    <3>4. ASSUME NEW i \in 1 .. Len(delivered') PROVE delivered'[i] \notin outbox'
      BY <1>1, <1>2, <3>1
    <3> QED
      BY <3>1, <3>3, <3>4
  <2> QED
    BY <1>1, <2>1, <2>2
<1>4. LoopTypes'
  BY <1>1, <1>3 DEF LoopOK, LoopTypes, loopVars
<1>5. CalledOnce'
  BY <1>1, <1>3 DEF LoopOK, CalledOnce, loopVars
<1>6. AlertFirst'
  BY <1>1 DEF LoopOK, AlertFirst, loopVars
<1> QED
  BY <1>4, <1>5, <1>6 DEF LoopOK

\* The steps that neither make nor end a call.
LEMMA OthersKeepLoop ==
  ASSUME LoopOK,
         \/ Log \/ Start \/ Midnight \/ UNCHANGED vars
         \/ ProcessEnds
  PROVE  LoopOK'
<1>1. /\ stage' \in {stage, "select", "down"}
      /\ outbox' \in {outbox, {}} /\ starts' \in 0 .. MaxStarts
      /\ UNCHANGED <<outcome, iterations, webhook, called, delivered>>
  BY ReportsConfig DEF LoopOK, LoopTypes, Log, Start, Midnight, ProcessEnds, vars, loopVars, notifyVars
<1>2. LoopTypes'
  BY <1>1 DEF LoopOK, LoopTypes
<1>3. CalledOnce' /\ AlertFirst'
  BY <1>1 DEF LoopOK, CalledOnce, AlertFirst
<1> QED
  BY <1>2, <1>3 DEF LoopOK

-----------------------------------------------------------------------------
(* Rows in the order of their iterations.                                  *)

\* A bound on the rows of a file that is raised still holds.
LEMMA BeforeMore ==
  ASSUME NEW f \in Seq(Lines), NEW m \in Nat, NEW n \in Nat, m <= n, Before(f, m)
  PROVE  Before(f, n)
<1> SUFFICES ASSUME NEW i \in 1 .. Len(f), f[i] \in Rows PROVE f[i].iteration < n
  BY DEF Before
<1>1. f[i].iteration < m /\ f[i].iteration \in Nat
  BY LineRows DEF Before
<1> QED
  BY <1>1

\* What a step of log leaves in the files is what was there, or its own row.
LEMMA LogRows ==
  ASSUME LoggerOK, LogStep, NEW day \in Days, NEW i \in 1 .. Len(disk'[day]),
         disk'[day][i] \in Rows
  PROVE  \/ i \in 1 .. Len(disk[day]) /\ disk'[day][i] = disk[day][i]
         \/ Flush /\ disk'[day][i] = log.row
<1>1. disk \in [Days -> Seq(Lines)] /\ writer.day \in Days /\ disk[writer.day] \in Seq(Lines)
  BY DEF LoggerOK, LoggerTypes
<1>2. CASE Rotate
  <2>1. disk' = [disk EXCEPT ![log.row.day] = <<>>]
    BY <1>2 DEF Rotate, Create
  <2>2. disk'[day] = disk[day] \/ disk'[day] = <<>>
    BY <1>1, <2>1
  <2> QED
    BY <2>2
<1>3. CASE Write
  BY <1>3 DEF Write
<1>4. CASE Flush
  <2>1. PICK front \in Seq(Lines) :
          /\ front = disk[writer.day] \/ (disk[writer.day] = <<>> /\ front = <<Header>>)
          /\ disk[writer.day] \o writer.buffer = Append(front, log.row)
    BY <1>4, FlushedFile DEF Flush
  <2>2. disk' = [disk EXCEPT ![writer.day] = Append(front, log.row)] /\ log.row \in Lines
    BY <1>4, <2>1, ToFlush DEF Flush
  <2>3. CASE day = writer.day
    <3>1. disk'[day] = Append(front, log.row)
      BY <1>1, <2>2, <2>3
    <3>2. /\ Len(disk'[day]) = Len(front) + 1 /\ Len(front) \in Nat
          /\ \A k \in 1 .. Len(front) : disk'[day][k] = front[k]
          /\ disk'[day][Len(front) + 1] = log.row
      BY <2>2, <3>1, AppendProperties
    <3>3. CASE i = Len(front) + 1
      BY <1>4, <3>2, <3>3
    <3>4. CASE i \in 1 .. Len(front)
      <4>1. front[i] \in Rows
        BY <3>2, <3>4
      <4>2. front # <<Header>>
        <5>1. <<Header>>[1] = Header /\ Len(<<Header>>) = 1
          OBVIOUS
        <5> QED
          BY <3>4, <4>1, <5>1, LineTypes
      <4> QED
        BY <2>1, <2>3, <3>2, <3>4, <4>2
    <3> QED
      BY <3>2, <3>3, <3>4
  <2>4. CASE day # writer.day
    BY <1>1, <2>2, <2>4
  <2> QED
    BY <2>3, <2>4
<1>5. CASE FlushFails
  <2>1. PICK part \in Seq(Lines), file \in Seq(Lines) :
          /\ part = disk[writer.day] \/ (disk[writer.day] = <<>> /\ part = Append(<<>>, Header))
          /\ file \in {part, Append(part, Fragment)}
          /\ disk' = [disk EXCEPT ![writer.day] = file]
    BY <1>5, FailedFile
  <2>2. CASE day = writer.day
    <3>1. disk'[day] = file
      BY <1>1, <2>1, <2>2
    <3> QED
      BY <1>1, <2>1, <2>2, <3>1, FailedRows
  <2>3. CASE day # writer.day
    BY <1>1, <2>1, <2>3
  <2> QED
    BY <2>2, <2>3
<1> QED
  BY <1>2, <1>3, <1>4, <1>5 DEF LogStep

LEMMA IterateKeepsTurn == ASSUME LoggerOK, LoopOK, RowsInTurn, Iterate PROVE RowsInTurn'
<1>1. /\ stage = "select" /\ stage' \in {"notify", "log"}
      /\ iterations' = iterations + 1 /\ UNCHANGED loggerVars
  BY DEF Iterate
<1>2. UNCHANGED <<disk, log>> /\ log.at = "idle"
  BY <1>1 DEF loggerVars, RowsInTurn
<1>3. iterations \in Nat /\ disk \in [Days -> Seq(Lines)]
  BY DEF LoggerOK, LoggerTypes, LoopOK, LoopTypes
<1>4. \A day \in Days : Before(disk[day], iterations + 1) /\ Before(disk[day], iterations + 1 + 1)
  <2>1. \A day \in Days : Before(disk[day], iterations + 1)
    BY DEF RowsInTurn
  <2> QED
    BY <1>3, <2>1, BeforeMore
<1> QED
  BY <1>1, <1>2, <1>4 DEF RowsInTurn, Before

LEMMA LogKeepsTurn ==
  ASSUME LoggerOK, LoopOK, RowsInTurn, Log
  PROVE  RowsInTurn'
<1>1. /\ stage = "log" /\ iterations' = iterations /\ iterations \in Nat
      /\ disk \in [Days -> Seq(Lines)]
  BY DEF Log, LoggerOK, LoggerTypes, LoopOK, LoopTypes
<1>2. CASE Begin(Row)
  <2>1. /\ stage' = "log" /\ disk' = disk
        /\ log'.at # "idle" /\ log'.row = [Row EXCEPT !.day = today]
    BY <1>1, <1>2 DEF Begin, Log, LogStep, Return, Rotate, Write, Flush, FlushFails
  <2>2. log'.row.iteration = iterations
    BY <2>1 DEF Row
  <2> QED
    BY <1>1, <2>1, <2>2 DEF RowsInTurn
<1>3. CASE LogStep
  <2>1. /\ stage' = "log" /\ log'.at # "idle" /\ log.at # "idle" /\ log'.row = log.row
    BY <1>1, <1>3 DEF LogStep, Begin, Return, Rotate, Write, Flush, FlushFails, Log, LoggerOK, LoggerTypes
  <2>2. ASSUME NEW day \in Days PROVE Before(disk'[day], iterations + 1)
    <3> SUFFICES ASSUME NEW i \in 1 .. Len(disk'[day]), disk'[day][i] \in Rows
                 PROVE  disk'[day][i].iteration < iterations + 1
      BY DEF Before
    <3>1. CASE i \in 1 .. Len(disk[day]) /\ disk'[day][i] = disk[day][i]
      BY <3>1 DEF RowsInTurn, Before
    <3>2. CASE disk'[day][i] = log.row
      BY <1>1, <2>1, <3>2 DEF RowsInTurn
    <3> QED
      BY <1>3, <3>1, <3>2, LogRows
  <2> QED
    BY <1>1, <2>1, <2>2 DEF RowsInTurn
<1>4. CASE Return
  <2>1. /\ stage' = "select" /\ disk' = disk /\ log'.at = "idle"
    BY <1>1, <1>4 DEF LogStep, Begin, Return, NoLog, Rotate, Write, Flush, FlushFails, Log
  <2> QED
    BY <1>1, <2>1 DEF RowsInTurn
<1> QED
  BY <1>2, <1>3, <1>4 DEF Log

\* The other steps add no row and take none up.
LEMMA OthersKeepTurn ==
  ASSUME LoggerOK, LoopOK, RowsInTurn,
         \/ Notify \/ (\E alert \in outbox : Deliver(alert) \/ CallFails(alert))
         \/ ProcessEnds \/ Start \/ Midnight \/ UNCHANGED vars
  PROVE  RowsInTurn'
<1>1. CASE Start
  <2>1. /\ stage' = "select" /\ iterations' = iterations /\ log'.at = "idle"
        /\ disk' = [disk EXCEPT ![today] = <<>>] /\ disk \in [Days -> Seq(Lines)]
    BY <1>1 DEF Start, Restart, Create, NoLog, LoggerOK, LoggerTypes
  <2>2. \A day \in Days : disk'[day] = disk[day] \/ disk'[day] = <<>>
    BY <2>1
  <2>3. \A day \in Days : Before(disk'[day], iterations + 1)
    BY <2>2, EmptyFile DEF RowsInTurn
  <2> QED
    BY <2>1, <2>3 DEF RowsInTurn
<1>2. CASE ~Start
  <2>1. /\ UNCHANGED <<iterations, disk, log>>
        /\ stage' = stage \/ stage' = "down" \/ stage = "notify"
        /\ stage' # stage /\ stage = "notify" /\ stage' # "down" => stage' \in {"log", "select"}
    BY <1>2 DEF Notify, Deliver, CallFails, CallEnds, ProcessEnds, Midnight, NewDay,
                vars, loopVars, loggerVars
  <2> QED
    BY <2>1 DEF RowsInTurn
<1> QED
  BY <1>1, <1>2

-----------------------------------------------------------------------------
(* Rows and alerts.                                                        *)

\* What was told stays told.
LEMMA CalledGrows ==
  ASSUME RowsAnnounced, called \subseteq called', UNCHANGED <<disk, log, webhook>>
  PROVE  RowsAnnounced'
BY DEF RowsAnnounced, Told

\* A row carries what its iteration told, from the call of log to the disk.
LEMMA LogKeepsAnnounced ==
  ASSUME LoggerOK, LoopOK, RowsAnnounced, Log
  PROVE  RowsAnnounced'
<1>1. called' = called /\ webhook' = webhook /\ stage = "log"
  BY DEF Log, notifyVars
<1>2. CASE Begin(Row)
  <2>1. disk' = disk /\ log'.row = [Row EXCEPT !.day = today]
    BY <1>2 DEF Begin
  <2>2. /\ webhook /\ outcome.trade => iterations \in called
        /\ log'.row = [day |-> today, iteration |-> iterations, executed |-> outcome.trade]
    BY <1>1, <2>1 DEF Row, LoopOK, AlertFirst
  <2>3. webhook /\ log'.row.executed => log'.row.iteration \in called
    BY <2>2
  <2> QED
    BY <1>1, <2>1, <2>3 DEF RowsAnnounced, Told
<1>3. CASE LogStep
  <2>1. log'.row = log.row
    BY <1>3 DEF LogStep, Rotate, Write, Flush, FlushFails, LoggerOK, LoggerTypes
  <2>2. ASSUME NEW day \in Days, NEW i \in 1 .. Len(disk'[day]) PROVE Told(disk'[day][i], called)
    <3>1. CASE disk'[day][i] \in Rows
      BY <1>3, <3>1, LogRows DEF RowsAnnounced
    <3>2. CASE disk'[day][i] \notin Rows
      BY <3>2 DEF Told
    <3> QED
      BY <3>1, <3>2
  <2> QED
    BY <1>1, <2>1, <2>2 DEF RowsAnnounced, Told
<1>4. CASE Return
  <2>1. disk' = disk /\ log'.row = Header
    BY <1>4 DEF Return, NoLog
  <2> QED
    BY <1>1, <2>1, LineTypes DEF RowsAnnounced, Told
<1> QED
  BY <1>2, <1>3, <1>4 DEF Log

LEMMA StartKeepsAnnounced ==
  ASSUME LoggerOK, RowsAnnounced, Start PROVE RowsAnnounced'
<1>1. /\ disk' = [disk EXCEPT ![today] = <<>>] /\ log'.row = Header
      /\ called' = called /\ webhook' = webhook /\ disk \in [Days -> Seq(Lines)]
  BY DEF Start, Restart, Create, NoLog, notifyVars, LoggerOK, LoggerTypes
<1>2. \A day \in Days : disk'[day] = disk[day] \/ disk'[day] = <<>>
  BY <1>1
<1>3. \A day \in Days : \A i \in 1 .. Len(disk'[day]) : Told(disk'[day][i], called)
  BY <1>2 DEF RowsAnnounced
<1> QED
  BY <1>1, <1>3, LineTypes DEF RowsAnnounced, Told

-----------------------------------------------------------------------------
(* The invariant.                                                          *)

LEMMA InitIInv == Init => IInv
BY LoggerStarts, LoopStarts DEF Init, IInv

LEMMA NextIInv == IInv /\ [Next]_vars => IInv'
<1> SUFFICES ASSUME IInv, [Next]_vars PROVE IInv'
  OBVIOUS
<1> USE DEF IInv
<1>1. CASE Iterate
  <2>1. UNCHANGED loggerVars /\ UNCHANGED <<disk, log, webhook>> /\ called \subseteq called'
    BY <1>1 DEF Iterate, notifyVars, loggerVars
  <2> QED
    BY <1>1, <2>1, OthersKeepLogger, IterateKeepsLoop, IterateKeepsTurn, CalledGrows
<1>2. CASE Notify
  <2>1. UNCHANGED loggerVars /\ UNCHANGED <<disk, log, webhook>> /\ called \subseteq called'
    BY <1>2 DEF Notify, loggerVars
  <2> QED
    BY <1>2, <2>1, OthersKeepLogger, NotifyKeepsLoop, OthersKeepTurn, CalledGrows
<1>3. CASE Log
  <2>1. CASE Begin(Row)
    <3>1. Row = [day |-> 0, iteration |-> iterations, executed |-> outcome.trade]
      BY DEF Row
    <3>2. iterations \in 1 .. MaxIterations /\ outcome.trade \in BOOLEAN
      BY <1>3, ReportsConfig, OutcomesTold DEF Log, LoopOK, LoopTypes, AlertFirst
    <3>3. \A day \in Days : Before(disk[day], iterations)
      BY <1>3, <2>1 DEF Log, Begin, RowsInTurn
    <3>4. LoggerOK'
      BY <2>1, <3>1, <3>2, <3>3, BeginKeepsLogger
    <3> QED
      BY <1>3, <3>4, OthersKeepLoop, LogKeepsTurn, LogKeepsAnnounced
  <2>2. CASE LogStep \/ Return
    <3>1. LoggerOK'
      BY <2>2, RotateKeepsLogger, WriteKeepsLogger, FlushKeepsLogger, FailureKeepsLogger,
         OthersKeepLogger DEF LogStep
    <3> QED
      BY <1>3, <3>1, OthersKeepLoop, LogKeepsTurn, LogKeepsAnnounced
  <2> QED
    BY <1>3, <2>1, <2>2 DEF Log
<1>4. ASSUME NEW alert \in outbox, Deliver(alert) \/ CallFails(alert) PROVE IInv'
  <2>1. UNCHANGED loggerVars /\ UNCHANGED <<disk, log, webhook>> /\ called \subseteq called'
    BY <1>4 DEF Deliver, CallFails, CallEnds, loggerVars
  <2> QED
    BY <1>4, <2>1, OthersKeepLogger, CallKeepsLoop, OthersKeepTurn, CalledGrows
<1>5. CASE ProcessEnds \/ UNCHANGED vars
  <2>1. UNCHANGED loggerVars /\ UNCHANGED <<disk, log, webhook>> /\ called \subseteq called'
    BY <1>5 DEF ProcessEnds, vars, notifyVars, loggerVars
  <2> QED
    BY <1>5, <2>1, OthersKeepLogger, OthersKeepLoop, OthersKeepTurn, CalledGrows
<1>6. CASE Start
  <2>1. Restart
    BY <1>6 DEF Start
  <2> QED
    BY <1>6, <2>1, RestartKeepsLogger, OthersKeepLoop, OthersKeepTurn, StartKeepsAnnounced
<1>7. CASE Midnight
  <2>1. NewDay /\ UNCHANGED <<disk, log, webhook>> /\ called \subseteq called'
    BY <1>7 DEF Midnight, NewDay, notifyVars
  <2> QED
    BY <1>7, <2>1, OthersKeepLogger, OthersKeepLoop, OthersKeepTurn, CalledGrows
<1> QED
  BY <1>1, <1>2, <1>3, <1>4, <1>5, <1>6, <1>7 DEF Next

LEMMA Invariance == Spec => []IInv
BY InitIInv, NextIInv, PTL DEF Spec

-----------------------------------------------------------------------------
(* The theorems.                                                           *)

\* The logger, the loop and the notifier keep their types.
THEOREM TypeCorrect == Spec => []TypeOK
<1>1. IInv => TypeOK
  <2> SUFFICES ASSUME IInv PROVE TypeOK
    OBVIOUS
  <2>1. /\ today \in Days /\ currentDate \in 0 .. today
        /\ disk \in [Days -> Seq(Lines)]
        /\ writer.day \in Days /\ writer.buffer \in Seq(Rows \union {Header})
        /\ log.at \in {"idle", "rotate", "write", "flush", "done", "failed"}
        /\ log.row \in Rows \union {Header}
        /\ written \in Seq(Rows) /\ flushed \subseteq ToSet(written) /\ failed \subseteq Rows
    BY DEF IInv, LoggerOK, LoggerTypes
  <2>2. /\ stage \in {"select", "notify", "log", "down"} /\ outcome.trade \in BOOLEAN
        /\ iterations \in 0 .. MaxIterations /\ starts \in 0 .. MaxStarts
        /\ webhook \in BOOLEAN
        /\ outbox \subseteq called /\ called \subseteq 1 .. iterations
        /\ delivered \in Seq(called)
    BY OutcomesTold DEF IInv, LoopOK, LoopTypes
  <2> QED
    BY <2>1, <2>2 DEF TypeOK
<1> QED
  BY <1>1, Invariance, PTL

\* A file has the rows of its own day only, each once and in the order of their
\* iterations, in spite of midnights, truncations, failed flushes and crashes; and
\* unless one of its flushes failed it has its header first and whole lines only.
THEOREM FilesStayReadable == Spec => []FilesAreReadable
<1>1. IInv => FilesAreReadable
  BY DEF IInv, LoggerOK, Files, InOrder, Whole, NoneFailed, FilesAreReadable
<1> QED
  BY <1>1, Invariance, PTL

\* Every row of the day the process started on is on the disk, unless its own
\* flush failed or is still to come: no rotation and no other failure costs it.
THEOREM StartDayKept == Spec => []StartDayComplete
<1>1. IInv => StartDayComplete
  BY DEF IInv, LoggerOK, Kept, StartDayComplete
<1> QED
  BY <1>1, Invariance, PTL

\* After a log without a failure, its row ends the file of its day.
THEOREM NewestRowFlushed == Spec => []NewestRowOnDisk
<1>1. IInv => NewestRowOnDisk
  BY DEF IInv, LoggerOK, Newest, NewestRowOnDisk
<1> QED
  BY <1>1, Invariance, PTL

\* Where there is a webhook, no row tells of a trade before it was called.
THEOREM TradesAnnouncedFirst == Spec => []TradesAnnouncedBeforeLogged
<1>1. IInv => TradesAnnouncedBeforeLogged
  <2> SUFFICES ASSUME IInv, webhook, NEW day \in Days, NEW line \in ToSet(disk[day]),
                      line \in Rows, line.executed
               PROVE  line.iteration \in called
    BY DEF TradesAnnouncedBeforeLogged
  <2>1. PICK i \in 1 .. Len(disk[day]) : line = disk[day][i]
    <3>1. disk[day] \in Seq(Lines)
      BY DEF IInv, LoggerOK, LoggerTypes
    <3> QED
      BY <3>1 DEF ToSet
  <2> QED
    BY <2>1 DEF IInv, RowsAnnounced, Told
<1> QED
  BY <1>1, Invariance, PTL

\* No alert is posted twice.
THEOREM AlertsPostedOnce == Spec => []AlertedAtMostOnce
<1>1. IInv => AlertedAtMostOnce
  BY DEF IInv, LoopOK, CalledOnce, AlertedAtMostOnce
<1> QED
  BY <1>1, Invariance, PTL
=============================================================================
