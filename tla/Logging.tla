------------------------------ MODULE Logging -------------------------------
(***************************************************************************)
(* muduo::Logger, as one thread uses it: line after line, each with the    *)
(* time, which is formatted once in a second and then taken from t_time.   *)
(* t_time and t_lastSecond belong to the thread; the clock and the zone of *)
(* the log do not, and may change at any time outside of a constructor.    *)
(*                                                                         *)
(* A line goes to the sink of g_output, which may keep it until the sink   *)
(* is flushed.  The text of a time is the second and the zone that it was  *)
(* made from.                                                              *)
(* Lengths of texts are parameters; fixed texts have their own in the code *)
(* (17 for the date and time, 6 for the level).  No line is written in the *)
(* second 0, in 1970, which t_lastSecond starts with.                      *)
(***************************************************************************)
EXTENDS LogStream

CONSTANTS
  Programs,        \* what programs do: the texts, numbers, pointers, doubles and
                   \* quantities they stream, the levels of their lines and those
                   \* they set, their zones, sinks and seconds
  Header,          \* the lengths of the texts with which a line starts: the second,
                   \* the microseconds, the thread and the level
  LineNumber       \* line_

NoZone == "none"   \* a TimeZone that is not valid(): times are in UTC

ASSUME LoggingAssumption ==
  /\ Header \in [time : Nat, micros : Nat, thread : Nat, level : Nat]
  /\ LineNumber \in Numbers
  /\ \A p \in Programs :
       /\ p.texts \subseteq Nat
       /\ p.numbers \subseteq Numbers
       /\ p.pointers \subseteq Pointers
       /\ p.doubles \subseteq Doubles
       /\ p.quantities \subseteq Quantities
       /\ p.levels \cup p.logLevels \subseteq 0..5
       /\ NoZone \notin p.zones
       /\ p.sinks # {}
       /\ p.seconds \subseteq Nat \ {0} /\ 1 \in p.seconds

VARIABLES
  program,         \* the program that logs
  clock,           \* Timestamp::now(), in seconds
  zone,            \* g_logTimeZone
  logLevel,        \* g_logLevel
  output,          \* the sink of g_output
  flush,           \* the sink of g_flush
  unflushed,       \* the sinks that keep lines back
  lastSecond,      \* t_lastSecond
  timeText,        \* t_time
  line,            \* the Logger that exists, or NoLine
  aborted,         \* the program has ended
  ruled            \* history: the zones that were in force in each second

sinkVars == <<output, flush, unflushed>>
vars == <<program, clock, zone, logLevel, sinkVars, lastSecond, timeText, line,
          aborted, ruled>>

NoLine == [phase |-> "none"]

\* enum LogLevel.
TRACE == 0
DEBUG == 1
INFO == 2
ERROR == 4
FATAL == 5

Init ==
  /\ program \in Programs
  /\ clock = 1
  /\ zone = NoZone
  /\ logLevel \in TRACE..INFO
  /\ output \in program.sinks
  /\ flush = output
  /\ unflushed = {}
  /\ lastSecond = 0
  /\ timeText = [second |-> 0, zone |-> NoZone]
  /\ line = NoLine
  /\ aborted = FALSE
  /\ ruled = [s \in program.seconds |-> IF s = 1 THEN {NoZone} ELSE {}]

-----------------------------------------------------------------------------
(* What other threads and the system do. *)

Rules(second, z) == [ruled EXCEPT ![second] = @ \cup {z}]

\* The wall clock goes on, or is set.
SetClock(second) ==
  /\ clock' = second
  /\ ruled' = Rules(second, zone)
  /\ UNCHANGED <<program, zone, logLevel, sinkVars, lastSecond, timeText, line,
                 aborted>>

\* setTimeZone() leaves the texts that the threads keep as they are.
SetTimeZone(z) ==
  /\ zone' = z
  /\ ruled' = Rules(clock, z)
  /\ UNCHANGED <<program, clock, logLevel, sinkVars, lastSecond, timeText,
                 line, aborted>>

\* setLogLevel().
SetLogLevel(level) ==
  /\ logLevel' = level
  /\ UNCHANGED <<program, clock, zone, sinkVars, lastSecond, timeText, line,
                 aborted, ruled>>

\* A sink passes its lines on when it likes.
SinkEmpties(sink) ==
  /\ unflushed' = unflushed \ {sink}
  /\ UNCHANGED <<program, clock, zone, logLevel, output, flush, lastSecond,
                 timeText, line, aborted, ruled>>

-----------------------------------------------------------------------------
(* A line. *)

\* setOutput() and setFlush(), which the program calls between its lines.
SetOutput(sink) ==
  /\ line = NoLine
  /\ output' = sink
  /\ UNCHANGED <<program, clock, zone, logLevel, flush, unflushed, lastSecond,
                 timeText, line, aborted, ruled>>

SetFlush(sink) ==
  /\ line = NoLine
  /\ flush' = sink
  /\ UNCHANGED <<program, clock, zone, logLevel, output, unflushed, lastSecond,
                 timeText, line, aborted, ruled>>

\* The macros test the level of the lines that may be left out.
Enabled(level) == level <= INFO => logLevel <= level

\* Mutant: the text is only made again for a later second.
StaleIfLater(second) == second > lastSecond

\* The text of t_time is not that of this second.
Stale(second) == second # lastSecond

\* The texts of the time, of the thread and of the level.
HeaderStream ==
  AppendText(AppendText(AppendText(AppendText(EmptyStream, Header.time),
                                   Header.micros), Header.thread), Header.level)

\* The description of errno, and its number.
ErrnoStream(length, errno) ==
  AppendText(AppendNumber(AppendText(AppendText(HeaderStream, length), 8),
                          Convert(errno)), 2)

\* The constructors of Logger, with formatTime().  A time is marked with Z if
\* there is no zone now.
Construct(level, stream) ==
  /\ line = NoLine
  /\ Enabled(level)
  /\ lastSecond' = clock
  /\ timeText' = IF Stale(clock) THEN [second |-> clock, zone |-> zone] ELSE timeText
  /\ line' = [phase |-> "open", level |-> level, second |-> clock,
              time |-> timeText', marked |-> zone = NoZone, stream |-> stream]
  /\ UNCHANGED <<program, clock, zone, logLevel, sinkVars, aborted, ruled>>

\* A line at TRACE or DEBUG also starts with the name of the function.
FunctionStream(length) == AppendText(AppendText(HeaderStream, length), 1)

\* One operator<< on stream().
Stream(stream) ==
  /\ line.phase = "open"
  /\ line' = [line EXCEPT !.stream = stream]
  /\ UNCHANGED <<program, clock, zone, logLevel, sinkVars, lastSecond,
                 timeText, aborted, ruled>>

\* What has been written so far, for the next statement.
Written == Forget(line.stream)

\* finish(): " - ", the file, ':', the line and '\n', each if it fits.
Finished(stream, file) ==
  AppendText(AppendNumber(AppendText(AppendText(AppendText(stream, 3), file), 1),
                          Convert(LineNumber)), 1)

Finish(file) ==
  /\ line.phase = "open"
  /\ line' = [line EXCEPT !.phase = "finished", !.stream = Finished(Written, file)]
  /\ UNCHANGED <<program, clock, zone, logLevel, sinkVars, lastSecond,
                 timeText, aborted, ruled>>

\* The rest of ~Logger(): the line goes out, and a fatal one is the last; its
\* sink is flushed, since abort() does not do it.
Output ==
  /\ line.phase = "finished"
  /\ unflushed' = unflushed \cup {output}
  /\ line' = IF line.level = FATAL THEN [line EXCEPT !.phase = "flushing"] ELSE NoLine
  /\ UNCHANGED <<program, clock, zone, logLevel, output, flush, lastSecond,
                 timeText, aborted, ruled>>

\* g_flush() empties its sink, which need not be that of g_output.
Abort ==
  /\ line.phase = "flushing"
  /\ unflushed' = unflushed \ {flush}
  /\ aborted' = TRUE
  /\ UNCHANGED <<program, clock, zone, logLevel, output, flush, lastSecond,
                 timeText, line, ruled>>

StreamAny ==
  \/ \E length \in program.texts : Stream(AppendText(Written, length))
  \/ \E n \in program.numbers : Stream(AppendNumber(Written, Convert(n)))
  \/ \E p \in program.pointers : Stream(AppendNumber(Written, ConvertHex(p)))
  \/ \E length \in program.doubles : Stream(AppendDouble(Written, length))
  \/ \E n \in program.quantities, precision \in Precisions :
       \E text \in FormatSI(n, precision) \cup FormatIEC(n, precision) :
         Stream(AppendPiece(Written, text))

\* LOG_TRACE and LOG_DEBUG; LOG_SYSERR and LOG_SYSFATAL; the other macros.
ConstructAny ==
  \E level \in program.levels :
    \/ level > DEBUG /\ Construct(level, HeaderStream)
    \/ level <= DEBUG /\ \E length \in program.texts :
                           Construct(level, FunctionStream(length))
    \/ level >= ERROR /\ \E length \in program.texts, errno \in program.numbers :
                           errno > 0 /\ Construct(level, ErrnoStream(length, errno))

Next ==
  /\ ~aborted
  /\ \/ \E second \in program.seconds : SetClock(second)
     \/ \E z \in program.zones \cup {NoZone} : SetTimeZone(z)
     \/ \E level \in program.logLevels : SetLogLevel(level)
     \/ \E sink \in program.sinks : SetOutput(sink) \/ SetFlush(sink) \/ SinkEmpties(sink)
     \/ ConstructAny
     \/ StreamAny
     \/ \E file \in program.texts : Finish(file)
     \/ Output
     \/ Abort

Spec == Init /\ [][Next]_vars

-----------------------------------------------------------------------------
(* Properties. *)

\* However much is streamed to a line, its cursor stays inside of the buffer,
\* with a place left for a NUL, and numbers, which are written in place before
\* the cursor moves, and their NUL stay inside as well.
CursorInBuffer == line # NoLine => line.stream.cursor < Size

\* Six characters in binary units; up to the precision one less in the others,
\* with three digits or more, off by half of the last place at most.
ShortAndClose(piece) ==
  /\ piece.suffix = 2 => piece.length <= 6
  /\ piece.value <= piece.precision =>
       /\ piece.length <= 4 + piece.suffix
       /\ piece.shown >= 100
       /\ 2 * Distance(piece.shown, piece.value, piece.step) <= piece.step.unit

QuantitiesOf(l) ==
  {piece \in ToSet(l.stream.pieces) : piece.kind = "quantity"}

\* LogStream.h: formatIEC() takes at most 6 characters.  Up to 2^53 formatSI() takes
\* at most 5, and both show three digits or more and are off by half of the last
\* place at most, where the unit or the decimals change as well.
QuantitiesAreShortAndClose ==
  line # NoLine => \A piece \in QuantitiesOf(line) : ShortAndClose(piece)

\* LogStream.h of formatSI(): the string is at most 5 characters long, for any n.
SIIsShort ==
  line # NoLine =>
    \A piece \in QuantitiesOf(line) : piece.suffix = 1 => piece.length <= 5

\* The number that digits spell.
Spelled(digits, base) ==
  LET upTo[k \in 0..Len(digits)] ==
        IF k = 0 THEN 0 ELSE upTo[k - 1] * base + digits[k]
  IN  upTo[Len(digits)]

\* The digits of a piece are digits, spell its number, and do not lead with a 0.
ReadsBack(piece) ==
  LET base == IF piece.kind = "pointer" THEN 16 ELSE 10
      spelled == Spelled(piece.digits, base)
  IN  /\ \A k \in DOMAIN piece.digits : piece.digits[k] \in 0..(base - 1)
      /\ piece.value = IF piece.minus THEN -spelled ELSE spelled
      /\ piece.digits[1] = 0 => Len(piece.digits) = 1

\* The digits of every number in a line spell the number, down to the most
\* negative one, which has no positive counterpart; none leads with a 0.
NumbersReadBack ==
  line # NoLine =>
    \A i \in DOMAIN line.stream.pieces :
      LET piece == line.stream.pieces[i]
      IN  piece.kind \in {"integer", "pointer"} => ReadsBack(piece)

\* The time of a line is that of its own second, in a zone that was in force
\* in that second, and is marked for such a zone, although the text is kept
\* across lines, the zone changes, and the clock may be set back.
TimeIsOfItsSecond ==
  line # NoLine =>
    /\ line.time.second = line.second
    /\ line.time.zone \in ruled[line.second]
    /\ ruled[line.second] = {NoZone} => line.marked
    /\ NoZone \notin ruled[line.second] => ~line.marked

=============================================================================
