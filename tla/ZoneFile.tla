------------------------------ MODULE ZoneFile ------------------------------
(***************************************************************************)
(* The reader of zone files (RFC 8536) behind TimeZone::loadZoneFile():    *)
(* from the bytes of a file to a zone, or to none.                         *)
(*                                                                         *)
(* Every read that runs off the end of the file, a wrong magic number and  *)
(* an index of no localtime end in a std::logic_error, which the reader    *)
(* takes for a file that has no zone; seeking past the end is no error.    *)
(* Positions count from 0.  A byte has as few values as the model wants.   *)
(***************************************************************************)
EXTENDS Integers, Sequences, SequencesExt

CONSTANTS
  Radix,           \* how many values a byte has, 256 in the code
  Magic,           \* "TZif"
  Version2         \* '2'

\* No data: a TimeZone that is not valid().
NoZone == [valid |-> FALSE]

\* readBytes() of n bytes, which must be there.
Has(file, pos, n) == pos + n <= Len(file)
Bytes(file, pos, n) == SubSeq(file, pos + 1, pos + n)

\* be32toh() and be64toh(): the first byte has the sign.
Signed(bytes) ==
  FoldLeft(LAMBDA n, byte : n * Radix + byte,
           IF 2 * Head(bytes) >= Radix THEN -1 ELSE 0, bytes)

ReadInt(file, pos, size) == Signed(Bytes(file, pos, size))
ReadUInt8(file, pos) == file[pos + 1]

\* The six counters of a block.
Counters(file, pos) ==
  LET count == [i \in 1..6 |-> ReadInt(file, pos + 4 * (i - 1), 4)]
  IN  [isutc |-> count[1], isstd |-> count[2], leap |-> count[3],
       time |-> count[4], type |-> count[5], char |-> count[6]]

CountersSize == 24

\* readDataBlock(), from its counters on.  timeSize is 4 in a block of version 1
\* and 8 in a later one.  The indicators and the text behind the abbreviations
\* are not looked at.  reserve() refuses a negative counter with a logic_error.
ReadDataBlock(file, pos, timeSize) ==
  LET c == Counters(file, pos)
      times == pos + CountersSize
      indices == times + timeSize * c.time
      types == indices + c.time
      chars == types + 6 * c.type
      localtimes == [i \in 1..c.type |-> ReadInt(file, types + 6 * (i - 1), 4)]
      transitions ==
        [i \in 1..c.time |->
           [utctime |-> ReadInt(file, times + timeSize * (i - 1), timeSize),
            localtimeIdx |-> ReadUInt8(file, indices + i - 1) + 1]]
  IN  IF /\ Has(file, pos, CountersSize)
         /\ c.leap = 0
         /\ c.isutc \in {0, c.type}
         /\ c.isstd \in {0, c.type}
         /\ c.time >= 0 /\ c.type >= 0
         /\ Has(file, chars, c.char)
         /\ \A i \in 1..c.time : transitions[i].localtimeIdx \in 1..c.type
      THEN [localtimes |-> localtimes, transitions |-> transitions]
      ELSE NoZone

\* Mutant: times of eight bytes in the block that is skipped.
FirstBlockSizeOfLongTimes(c) ==
  8 * c.time + c.time + 6 * c.type + c.char + 12 * c.leap + c.isstd + c.isutc

\* The bytes behind the counters of the first block.
FirstBlockSize(c) ==
  4 * c.time + c.time + 6 * c.type + c.char + 8 * c.leap + c.isstd + c.isutc

\* The magic number, the version and 15 bytes without meaning.
HasMagic(file, pos) == Has(file, pos, 4) /\ Bytes(file, pos, 4) = Magic
HeadSize == 20

\* readTimeZoneFile(): the second block of a file of version 2, and the first
\* one of any other.
ReadTimeZoneFile(file) ==
  LET second == HeadSize + CountersSize + FirstBlockSize(Counters(file, HeadSize))
  IN  IF ~Has(file, 0, HeadSize + CountersSize) \/ ~HasMagic(file, 0)
        THEN NoZone
      ELSE IF file[5] # Version2
        THEN ReadDataBlock(file, HeadSize, 4)
      ELSE IF HasMagic(file, second)
        THEN ReadDataBlock(file, second + HeadSize, 8)
      ELSE NoZone

=============================================================================
