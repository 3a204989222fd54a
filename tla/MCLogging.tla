----------------------------- MODULE MCLogging -----------------------------
(* Instances of Logging for TLC. *)
EXTENDS Logging

ByteNumbers == {-128, -10, 0, 9, 127}

\* The time, the thread and the level.
HeaderLengths == [time |-> 4, micros |-> 1, thread |-> 2, level |-> 1]

\* Two units; the integers end at 8 of the second binary one.
TwoSIUnits == <<1000, 1000000>>
TwoIECUnits == <<1024, 1048576>>
Largest == 8 * 1048576 - 1

\* Where formatSI() and formatIEC() change their unit or their decimals.
Edges ==
  {s.bound : s \in {SISteps[i] : i \in DOMAIN SISteps}
                     \cup {IECSteps[i] : i \in DOMAIN IECSteps}}
\* Both sides of these, and of 8192, the last integer that the shorter doubles are
\* sure to hold.
SomeQuantities ==
  {q \in UNION {{e - 1, e} : e \in Edges \cup {1000, 1024, 1005, 8192, 123456}} :
     q <= Largest} \cup {Largest}

\* One program fills lines with numbers and texts, at one level; one changes the
\* zone while the clock goes on and back; one changes sinks and levels.
Filling ==
  [texts |-> {1, 10}, numbers |-> ByteNumbers, pointers |-> {0, 255}, doubles |-> {5},
   quantities |-> SomeQuantities, levels |-> {TRACE, ERROR}, logLevels |-> {TRACE},
   zones |-> {}, sinks |-> {"stdout"}, seconds |-> {1}]
Moving ==
  [texts |-> {1}, numbers |-> {}, pointers |-> {}, doubles |-> {}, quantities |-> {},
   levels |-> {ERROR}, logLevels |-> {}, zones |-> {"zone1", "zone2"},
   sinks |-> {"stdout"}, seconds |-> {1, 2, 3}]
Failing ==
  [texts |-> {1}, numbers |-> {9}, pointers |-> {}, doubles |-> {}, quantities |-> {},
   levels |-> TRACE..FATAL, logLevels |-> TRACE..FATAL, zones |-> {},
   sinks |-> {"stdout", "file"}, seconds |-> {1}]

AllPrograms == {Filling, Moving, Failing}

=============================================================================
