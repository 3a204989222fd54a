\* Quantities where the format of formatSI() changes, as doubles that round them.
CONSTANTS
  Size = 24
  MaxNumericSize = 6
  Numbers <- ByteNumbers
  Pointers = {0, 255}
  Doubles = {5}
  Quantities <- SomeQuantities
  SIUnits <- TwoSIUnits
  IECUnits <- TwoIECUnits
  Precisions = {8192, 1048576}
  Programs <- AllPrograms
  Header <- HeaderLengths
  LineNumber = 127
SPECIFICATION Spec
INVARIANT SIIsShort
\* A fatal line ends the program.
CHECK_DEADLOCK FALSE
