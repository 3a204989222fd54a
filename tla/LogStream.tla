----------------------------- MODULE LogStream ------------------------------
(***************************************************************************)
(* muduo::LogStream and the FixedBuffer that it writes to.                 *)
(*                                                                         *)
(* A stream is its cursor and the pieces that the last statement wrote: a  *)
(* text counts by its length, a number by its digits.  A piece that does   *)
(* not fit is dropped, and smaller ones after it may fit again.  Numbers   *)
(* are written in place, with a NUL behind them, when there is room for    *)
(* the longest.                                                            *)
(***************************************************************************)
EXTENDS Division, Sequences, SequencesExt

CONSTANTS
  Size,             \* SIZE of the buffer, kSmallBuffer in the code
  MaxNumericSize,   \* kMaxNumericSize
  Numbers,          \* the integers that are streamed
  Pointers,         \* the values of pointers that are streamed
  Doubles,          \* the lengths of the doubles that are streamed
  Quantities,       \* the integers passed to formatSI() and formatIEC()
  SIUnits,          \* k, M, G, ... and
  IECUnits,         \* Ki, Mi, Gi, ...: up to E and Ei in the code
  Precisions        \* how far a double holds every integer, 2^53 in the code

EmptyStream == [cursor |-> 0, pieces |-> <<>>]

Avail(stream) == Size - stream.cursor

Write(stream, piece) ==
  [cursor |-> stream.cursor + piece.length,
   pieces |-> Append(stream.pieces, piece)]

\* What was written before is of no more interest than the place it takes.
Forget(stream) == [stream EXCEPT !.pieces = <<>>]

\* append() keeps one place free.
Fits(stream, length) == Avail(stream) > length

\* append(), to which operator<< of text, bool, char and of buffers comes down.
AppendPiece(stream, piece) ==
  IF Fits(stream, piece.length) THEN Write(stream, piece) ELSE stream
AppendText(stream, length) == AppendPiece(stream, [kind |-> "text", length |-> length])

-----------------------------------------------------------------------------
(* Numbers. *)

\* Mutant: a remainder is taken for the one of a non-negative number.
ZeroWrapped(lsd) == IF lsd < 0 THEN lsd + 10 ELSE lsd

\* zero[lsd]: the table has the digits of negative remainders too.
Zero(lsd) == IF lsd < 0 THEN -lsd ELSE lsd

\* The loop of convert() and convertHex(), which writes the digits from the
\* last one to the first, and reverses them.
Digits(value, base) ==
  LET from[i \in Int] ==
        Append(IF Quotient(i, base) = 0 THEN <<>> ELSE from[Quotient(i, base)],
               Zero(Remainder(i, base)))
  IN  from[value]

\* convert().
Convert(value) ==
  LET digits == Digits(value, 10)
  IN  [kind |-> "integer", value |-> value, minus |-> value < 0, digits |-> digits,
       length |-> Len(digits) + IF value < 0 THEN 1 ELSE 0]

\* "0x" and convertHex().
ConvertHex(value) ==
  LET digits == Digits(value, 16)
  IN  [kind |-> "pointer", value |-> value, minus |-> FALSE, digits |-> digits,
       length |-> Len(digits) + 2]

\* Mutant: room is only asked for the cursor.
HasAnyRoom(stream) == Avail(stream) > 0

\* The room that a number asks for, whatever it is.
HasRoom(stream) == Avail(stream) >= MaxNumericSize

\* formatInteger(), and operator<< of pointers.
AppendNumber(stream, number) ==
  IF HasRoom(stream) THEN Write(stream, number) ELSE stream

\* operator<< of double and float, with the length that snprintf() returns.
AppendDouble(stream, length) ==
  AppendNumber(stream, [kind |-> "double", length |-> length])

-----------------------------------------------------------------------------
(* formatSI() and formatIEC(): a quantity in the largest fitting unit, with *)
(* as many decimals as there is room for.                                   *)

\* Below so many thousandths of a unit there are so many decimals.
Step(unit, thousandths, decimals) ==
  [unit |-> unit, decimals |-> decimals,
   bound |-> unit * (thousandths \div 1000)
               + (unit * (thousandths % 1000) + 999) \div 1000]

\* Mutant: the bounds are those of the quotients before they are rounded.
StepsUnrounded(units, below, count) ==
  [k \in 1..count |->
     LET place == (k - 1) % 3
     IN  Step(units[(k - 1) \div 3 + 1], <<10000, 100000, below>>[place + 1], 2 - place)]

\* The three cases of each unit, of which the next starts below thousandths; there
\* are so many cases in all.
Steps(units, below, count) ==
  [k \in 1..count |->
     LET place == (k - 1) % 3
     IN  Step(units[(k - 1) \div 3 + 1], <<9995, 99950, below>>[place + 1], 2 - place)]

\* The last unit has one case in formatSI(), two in formatIEC().
SISteps == Steps(SIUnits, 999500, 3 * Len(SIUnits) - 2)
IECSteps == Steps(IECUnits, 1023500, 3 * Len(IECUnits) - 1)

\* The first case that applies; the last one is an else.
FirstStep(steps, n) ==
  Min({k \in DOMAIN steps : n < steps[k].bound \/ k = Len(steps)})

\* static_cast<double>(n): the nearest multiple of a power of two, which is 1 below
\* the precision and doubles where the integer does; half of it goes to the even one.
PowersOfTwo == {1, 2, 4, 8, 16, 32, 64, 128, 256, 512, 1024, 2048, 4096, 8192}
Binade(q) == CHOOSE p \in PowersOfTwo : p <= q /\ q < 2 * p
Ulp(n, precision) == IF n < precision THEN 1 ELSE 2 * Binade(n \div precision)
ToDouble(n, precision) ==
  LET ulp == Ulp(n, precision)
      quotient == n \div ulp
      twice == 2 * (n % ulp)
  IN  ulp * IF twice > ulp \/ (twice = ulp /\ quotient % 2 = 1) THEN quotient + 1
                                                             ELSE quotient

\* The last decimal counts one in so many.
Scale(decimals) == <<1, 10, 100>>[decimals + 1]
Distance(shown, d, step) ==
  LET diff == shown * step.unit - d * Scale(step.decimals)
  IN  IF diff < 0 THEN -diff ELSE diff

\* The quotient is a double too: it is off by half of its ulp at most.
QuotientError(d, step, precision) ==
  (Scale(step.decimals) * step.unit * Binade((2 * d) \div step.unit)) \div precision

\* What snprintf() may show of it; half of the last place goes either way.
Printed(d, step, error) ==
  LET below == (d * Scale(step.decimals)) \div step.unit
  IN  {q \in {below, below + 1} : 2 * Distance(q, d, step) <= step.unit + error}

Quantity(n, d, step, error, precision, suffix) ==
  {[kind |-> "quantity", value |-> n, precision |-> precision, shown |-> shown,
    step |-> step, suffix |-> suffix,
    length |-> Len(Digits(shown, 10)) + suffix + IF step.decimals > 0 THEN 1 ELSE 0] :
     shown \in Printed(d, step, error)}

\* formatSI() finds the step of the integer, and divides the double;
FormatSI(n, precision) ==
  LET d == ToDouble(n, precision)
      step == SISteps[FirstStep(SISteps, n)]
  IN  IF n < 1000 THEN {Convert(n)}
      ELSE Quantity(n, d, step, QuotientError(d, step, precision), precision, 1)

\* formatIEC() finds that of the double, which it divides by a power of two.  The
\* bounds are doubles too: where doubles are as far apart as integers, the last
\* double below a bound may be the bound itself.
FormatIEC(n, precision) ==
  LET d == ToDouble(n, precision)
      places == {d} \cup (IF 2 * d < precision THEN {} ELSE {d + Ulp(d, precision)})
  IN  IF d < 1024 THEN {Convert(n)}
      ELSE UNION {Quantity(n, d, IECSteps[FirstStep(IECSteps, e)], 0, precision, 2) :
                    e \in places}

ASSUME SizeAssumption == Size \in Nat \ {0} /\ MaxNumericSize \in Nat \ {0}

\* No number is longer than kMaxNumericSize, with the NUL that is written behind it.
ASSUME NumberAssumption ==
  /\ Numbers \subseteq Int
  /\ \A n \in Numbers : Convert(n).length \in 1..(MaxNumericSize - 1)
  /\ Pointers \subseteq Nat
  /\ \A p \in Pointers : ConvertHex(p).length \in 1..(MaxNumericSize - 1)
  /\ Doubles \subseteq 1..(MaxNumericSize - 1)

\* Each unit is a thousand times, or 1024 times, the one before it.
ASSUME UnitAssumption ==
  /\ SIUnits \in Seq(Nat \ {0}) /\ Len(SIUnits) > 0 /\ SIUnits[1] = 1000
  /\ \A i \in 1..(Len(SIUnits) - 1) : SIUnits[i + 1] = 1000 * SIUnits[i]
  /\ IECUnits \in Seq(Nat \ {0}) /\ Len(IECUnits) > 0 /\ IECUnits[1] = 1024
  /\ \A i \in 1..(Len(IECUnits) - 1) : IECUnits[i + 1] = 1024 * IECUnits[i]

\* The precisions are powers of two, of which this is all that matters.  The integers
\* end at 8 Ei, below 9.995 E, with doubles that are 1024 apart.
ASSUME QuantityAssumption ==
  /\ \A precision \in Precisions :
       precision \in Nat /\ precision >= 2048 /\ precision % 2 = 0 /\ precision % 5 # 0
  /\ \A n \in Quantities :
       /\ n \in Nat
       /\ n < 8 * IECUnits[Len(IECUnits)]
       /\ n < 9995 * (SIUnits[Len(SIUnits)] \div 1000)
       /\ \A precision \in Precisions : n \div 4096 < precision

=============================================================================
