\* Every day from 1900 to 2500, and every instant around the transitions of
\* many zones, which are read from files of all formats, whole and cut off.
CONSTANTS
  SecondsPerDay = 2
  FixedZones <- YearStarts
  Files <- ZoneFiles
  Radix = 8
  Magic <- TZif
  Version2 = 2
SPECIFICATION Spec
INVARIANTS
  UtcTimesFollowCalendar
  LocalTimesInvert
  PreferenceIsKept
PROPERTIES
  LoadedAsWritten
\* The program stops asking.
CHECK_DEADLOCK FALSE
