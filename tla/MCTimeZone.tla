----------------------------- MODULE MCTimeZone -----------------------------
(* Instances of TimeZone for TLC: days of two seconds, bytes of three bits. *)
EXTENDS TimeZone

\* The first second of each year that Date.h names, in UTC.
YearStarts ==
  {[east |-> 0, steps |-> 750,
    time |-> 2 * (JulianDayNumber(year, 1, 1) - JulianDayOf1970_01_01)] : year \in 1900..2500}

\* Zones with up to four transitions, forward, back or not at all.
Transitions(first, gap) ==
  UNION {{[k \in 1..n |-> [utctime |-> first + gap * (k - 1), localtimeIdx |-> idx[k]]] :
            idx \in [1..n -> 1..3]} : n \in 0..4}

ZonesFrom(firsts, gaps) ==
  {[localtimes |-> offsets, transitions |-> t] :
     offsets \in {<<0, 1, 3>>, <<1, -2, 0>>},
     t \in UNION {Transitions(first, gap) : first \in firsts, gap \in gaps}}

-----------------------------------------------------------------------------
(* Zone files, as RFC 8536 lays them out. *)

TZif == <<4, 5, 6, 7>>

BytesOf(n, size) == [i \in 1..size |-> (n \div Radix ^ (size - i)) % Radix]
Zeros(n) == [i \in 1..n |-> 0]

Head20(version) == TZif \o <<version>> \o Zeros(15)

\* A block with or without indicators, with some leap seconds.
Block(z, timeSize, indicators, leaps) ==
  LET types == Len(z.localtimes)
      times == Len(z.transitions)
      flags == IF indicators THEN types ELSE 0
      counters == <<flags, flags, leaps, times, types, 4>>
  IN  FlattenSeq([i \in 1..6 |-> BytesOf(counters[i], 4)])
        \o FlattenSeq([i \in 1..times |-> BytesOf(z.transitions[i].utctime, timeSize)])
        \o [i \in 1..times |-> z.transitions[i].localtimeIdx - 1]
        \o FlattenSeq([i \in 1..types |-> BytesOf(z.localtimes[i], 4) \o <<1, 2>>])
        \o <<1, 2, 3, 0>> \o Zeros(leaps * (timeSize + 4)) \o Zeros(2 * flags)

Version1(z, indicators, leaps) == Head20(0) \o Block(z, 4, indicators, leaps)

Version(n, z, first, indicators, leaps) ==
  Head20(n) \o Block(first, 4, indicators, leaps)
    \o Head20(n) \o Block(z, 8, indicators, leaps) \o <<1, 2, 3>>

\* A first block that only says UTC, as new files have it.
Slim == [localtimes |-> <<0>>, transitions |-> <<>>]

Whole(bytes, z, start) ==
  [bytes |-> bytes, written |-> z, complete |-> TRUE, time |-> start,
   steps |-> 90]

\* Many zones around 1970, in files of version 2.
ManyZones ==
  {Whole(Version(2, z, z, FALSE, 0), z, -30) : z \in ZonesFrom({-20, 0}, {7, 11})}

\* A few zones, one with times that only eight bytes hold, in all formats.
Idx(z) == [k \in DOMAIN z.transitions |-> z.transitions[k].localtimeIdx]
FewZones == {z \in ZonesFrom({0}, {7}) : Idx(z) \in {<<>>, <<2>>, <<3, 1>>, <<2, 1, 3>>}}
LateZones == {z \in ZonesFrom({3000}, {11}) : Idx(z) = <<2, 1, 3>>}

\* A block of nothing but counters and abbreviations.
Negative(times, types) ==
  Head20(0) \o FlattenSeq([i \in 1..6 |-> BytesOf(<<0, 0, 0, times, types, 4>>[i], 4)])
    \o <<1, 2, 3, 0>>

AllFormats ==
  {Whole(Version1(z, i, 0), z, -30) : z \in FewZones, i \in BOOLEAN}
  \cup {Whole(Version(2, z, first, i, 0), z, -30) :
          z \in FewZones, first \in {Slim, CHOOSE z \in FewZones : Len(z.transitions) = 3},
          i \in BOOLEAN}
  \cup {Whole(Version(2, z, Slim, TRUE, 0), z, 2980) : z \in LateZones}
  \cup {Whole(Version(3, z, z, FALSE, 0), z, -30) : z \in FewZones}
  \cup {Whole(Version(2, z, z, FALSE, 2), NoZone, -30) : z \in FewZones}
  \cup {Whole(Negative(n[1], n[2]), NoZone, -30) : n \in {<<-1, 0>>, <<0, -1>>}}

\* And the same files cut off anywhere.
CutOff(f) ==
  {[bytes |-> SubSeq(f.bytes, 1, n), written |-> f.written, complete |-> FALSE,
    time |-> f.time, steps |-> 1] : n \in 0..(Len(f.bytes) - 1)}

ZoneFiles == ManyZones \cup AllFormats \cup UNION {CutOff(f) : f \in AllFormats}

=============================================================================
