\* Lines of any number of pieces in a small buffer, with the limits of a signed
\* byte among the numbers, and quantities where their format changes, as doubles
\* that hold them and that round them; three programs that do this, move the
\* clock and the zone, and end with fatal lines.
CONSTANTS
  Size = 24
  MaxNumericSize = 6
  Numbers <- ByteNumbers
  Pointers = {0, 255}
  Doubles = {5}
  Quantities <- SomeQuantities
  SIUnits <- TwoSIUnits
  IECUnits <- TwoIECUnits
  Precisions = {8192, 1048576}
  Programs <- AllPrograms
  Header <- HeaderLengths
  LineNumber = 127
SPECIFICATION Spec
INVARIANTS
  CursorInBuffer
  NumbersReadBack
  QuantitiesAreShortAndClose
  TimeIsOfItsSecond
\* A fatal line ends the program.
CHECK_DEADLOCK FALSE
