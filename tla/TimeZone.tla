------------------------------ MODULE TimeZone ------------------------------
(***************************************************************************)
(* muduo::TimeZone: from seconds since 1970 to a date and a time of the    *)
(* day and back, in UTC and in a zone whose offset changes now and then.   *)
(*                                                                         *)
(* A zone has a fixed offset or is loaded from a file.  The program asks   *)
(* for the conversion of one instant after another, here of time, in it.   *)
(* The same number also stands for a local time, which a transition may    *)
(* skip or repeat.  Hour, minute and second are one number, the second of  *)
(* the day, and a day has as few as the model wants.                       *)
(***************************************************************************)
EXTENDS Date, Division, ZoneFile, FiniteSets

CONSTANTS
  SecondsPerDay,   \* kSecondsPerDay
  FixedZones,      \* offsets, each with an instant to start from
  Files            \* zone files, each with the zone that was written to it, all
                   \* of it or not, and an instant to start from

\* A zone has localtimes, the offsets from UTC, of which the first rules until
\* the first transition; and transitions at a utctime to the localtime of a
\* localtimeIdx, which counts from 1 here.
Instants(zone) == [k \in DOMAIN zone.transitions |-> zone.transitions[k].utctime]
Offset(zone, k) == zone.localtimes[zone.transitions[k].localtimeIdx]

\* Transitions are further apart than any offset is from another.
WellFormed(zone) ==
  /\ zone.localtimes \in Seq(Int) \ {<<>>}
  /\ zone.transitions \in Seq([utctime : Int, localtimeIdx : Nat])
  /\ \A k \in DOMAIN zone.transitions :
       zone.transitions[k].localtimeIdx \in DOMAIN zone.localtimes
  /\ \A k \in DOMAIN zone.transitions \ {1} :
       \A i, j \in DOMAIN zone.localtimes :
         Instants(zone)[k] - Instants(zone)[k - 1]
           > 2 * (zone.localtimes[i] - zone.localtimes[j])

ASSUME TimeZoneAssumption ==
  /\ SecondsPerDay \in Nat \ {0}
  /\ \A start \in FixedZones : start.east \in Int /\ start.time \in Int /\ start.steps \in Nat
  /\ \A start \in Files :
       /\ start.bytes \in Seq(0..(Radix - 1))
       /\ start.written = NoZone \/ WellFormed(start.written)
       /\ start.complete \in BOOLEAN
       /\ start.time \in Int /\ start.steps \in Nat

VARIABLES
  file,            \* the file that is to be loaded, or NoFile
  zone,            \* the data_ of a TimeZone, NoZone if it is not valid()
  time,            \* an instant or a local time
  steps            \* bound: the instants that are still to be looked at

vars == <<file, zone, time, steps>>

NoFile == [bytes |-> <<>>]

-----------------------------------------------------------------------------
(* UTC. *)

DateTime(days, seconds) ==
  [date |-> YearMonthDay(days + JulianDayOf1970_01_01), second |-> seconds]

\* BreakTime(), which is toUtcTime().
BreakTime(t) ==
  LET seconds == Remainder(t, SecondsPerDay)
      days == Quotient(t, SecondsPerDay)
  IN  IF seconds < 0 THEN DateTime(days - 1, seconds + SecondsPerDay)
                     ELSE DateTime(days, seconds)

FromUtcTime(dt) ==
  LET days == JulianDayNumber(dt.date.year, dt.date.month, dt.date.day)
                - JulianDayOf1970_01_01
  IN  days * SecondsPerDay + dt.second

-----------------------------------------------------------------------------
(* The zone. *)

\* std::upper_bound(): the first key of a sorted sequence that is larger.
UpperBound(keys, x) == 1 + Cardinality({k \in DOMAIN keys : keys[k] <= x})

\* findLocalTime(utcTime): the offset of the last transition that has come.
FindLocalTime(z, t) ==
  LET k == UpperBound(Instants(z), t)
  IN  IF k = 1 THEN Head(z.localtimes) ELSE Offset(z, k - 1)

ToLocalTime(z, t) == BreakTime(t + FindLocalTime(z, t))

\* The localtime of the transitions, which addTransition() computes.
LocalStarts(z) == [k \in DOMAIN z.transitions |-> Instants(z)[k] + Offset(z, k)]

\* Mutant: the first second after the transition instead.
PriorSecondPlusOne(z, k) == Instants(z)[k] + Offset(z, k - 1)

\* The last local second before transition k, if there is one before it.
PriorSecond(z, k) == Instants(z)[k] - 1 + Offset(z, k - 1)

\* Transition k skips a local time.
Skips(z, k, local) == PriorSecond(z, k) < local

\* Mutant: the last second that is repeated is taken for a unique one.
RepeatsNotLast(z, k, local) == k > 1 /\ local < PriorSecond(z, k)

\* Transition k repeats a local time.  (Of the first one it is not known.)
Repeats(z, k, local) == k > 1 /\ local <= PriorSecond(z, k)

\* findLocalTime(local, postTransition).  The first transition only matters
\* from its localtime on, and the last one is in force for all that follows.
FindOffset(z, local, postTransition) ==
  LET n == Len(z.transitions)
      k == UpperBound(LocalStarts(z), local)
  IN  CASE k = 1     -> Head(z.localtimes)
        [] n > 0 /\ k = n + 1 -> Offset(z, n)
        [] k \in 2..n /\ Skips(z, k, local) ->
             Offset(z, IF postTransition THEN k ELSE k - 1)
        [] k \in 2..n /\ ~Skips(z, k, local) /\ Repeats(z, k - 1, local) ->
             Offset(z, IF postTransition THEN k - 1 ELSE k - 2)
        [] OTHER -> Offset(z, k - 1)

FromLocalTime(z, dt, postTransition) ==
  FromUtcTime(dt) - FindOffset(z, FromUtcTime(dt), postTransition)

-----------------------------------------------------------------------------
\* TimeZone(eastOfUtc, name), which is UTC() for an offset of 0.
FixedZone(east) == [localtimes |-> <<east>>, transitions |-> <<>>]

Init ==
  \/ \E start \in FixedZones :
       /\ file = NoFile /\ zone = FixedZone(start.east)
       /\ time = start.time /\ steps = start.steps
  \/ \E start \in Files :
       /\ file = start /\ zone = NoZone
       /\ time = start.time /\ steps = start.steps

LoadZoneFile ==
  /\ file # NoFile
  /\ zone' = ReadTimeZoneFile(file.bytes)
  /\ file' = NoFile
  /\ UNCHANGED <<time, steps>>

\* The next instant, in a zone that is valid().
Tick ==
  /\ zone # NoZone
  /\ steps > 0
  /\ steps' = steps - 1
  /\ time' = time + 1
  /\ UNCHANGED <<file, zone>>

Next == LoadZoneFile \/ Tick

Spec == Init /\ [][Next]_vars

-----------------------------------------------------------------------------
(* Properties. *)

\* A file gives the zone that was written to it, whichever of its two blocks is
\* read and whatever the other one holds, or none; and one that was cut off
\* anywhere does not give another zone.
LoadedAsWritten ==
  [][file # NoFile => \/ zone' = file.written
                      \/ zone' = NoZone /\ ~file.complete]_vars

\* The second after one in the calendar.
NextSecond(dt) ==
  IF dt.second + 1 < SecondsPerDay THEN [dt EXCEPT !.second = @ + 1]
  ELSE [date |-> NextDay(dt.date), second |-> 0]

\* toUtcTime() follows the calendar, from 1970-01-01 forward and backward, and
\* fromUtcTime() undoes it, before 1970 too.
UtcTimesFollowCalendar ==
  /\ time = 0 => BreakTime(time) = [date |-> [year |-> 1970, month |-> 1, day |-> 1],
                                    second |-> 0]
  /\ BreakTime(time + 1) = NextSecond(BreakTime(time))
  /\ FromUtcTime(BreakTime(time)) = time

\* The instants at which a local time is on the clocks of a zone.
Showing(z, local) ==
  LET offsets == {z.localtimes[i] : i \in DOMAIN z.localtimes}
  IN  {t \in {local - offset : offset \in offsets} :
         ToLocalTime(z, t) = BreakTime(local)}

\* A local time that is on the clocks is taken for an instant at which it is,
\* at every transition and with either preference.
LocalTimesInvert ==
  zone # NoZone =>
  \A post \in BOOLEAN :
    FromLocalTime(zone, ToLocalTime(zone, time), post)
      \in Showing(zone, time + FindLocalTime(zone, time))

\* Of a repeated local time the earlier instant is taken, or the later one with
\* postTransition; a skipped one is counted from before the transition, and so
\* comes to lie after it, or the other way round with postTransition.  Repeats
\* of the first and of the last transition are left out: there the later
\* instant is taken in any case, as for the skip of the first transition the
\* offset from before.
PreferenceIsKept ==
  zone # NoZone =>
  LET shown == Showing(zone, time)
      early == FromLocalTime(zone, BreakTime(time), FALSE)
      late == FromLocalTime(zone, BreakTime(time), TRUE)
      n == Len(zone.transitions)
  IN  /\ \A k \in 2..(n - 1) :
           \A s, t \in shown :
             s < Instants(zone)[k] /\ Instants(zone)[k] <= t => early = s /\ late = t
      /\ \A k \in 2..n :
           LocalStarts(zone)[k] > time /\ Skips(zone, k, time)
             => late < Instants(zone)[k] /\ Instants(zone)[k] <= early

=============================================================================
