---------------------------- MODULE LoggingProofs ----------------------------
(***************************************************************************)
(* Proofs about Logging, for any programs, texts, numbers, clocks, zones   *)
(* and sinks and a buffer of any size: nothing is written outside of the   *)
(* buffer, numbers read back, quantities are short and close, and a line   *)
(* shows the time of its own second.                                       *)
(*                                                                         *)
(* What a recursive function computes is shown by the least number of      *)
(* which it would be wrong.                                                *)
(***************************************************************************)
EXTENDS Logging, WellFoundedInduction, TLAPS

-----------------------------------------------------------------------------
(* The digits of a number. *)

\* The bases of convert() and convertHex().
Bases == {10, 16}
Magnitude(i) == IF i < 0 THEN -i ELSE i

\* One digit is taken off.
LEMMA DigitTaken ==
  ASSUME NEW base \in Bases, NEW i \in Int
  PROVE  /\ Quotient(i, base) \in Int
         /\ Magnitude(Quotient(i, base)) \in Nat
         /\ Quotient(i, base) # 0 => Magnitude(Quotient(i, base)) < Magnitude(i)
         /\ Zero(Remainder(i, base)) \in 0..(base - 1)
         /\ Magnitude(i) = Magnitude(Quotient(i, base)) * base + Zero(Remainder(i, base))
<1>1. CASE base = 10
  BY <1>1 DEF Quotient, Remainder, Zero, Magnitude
<1>2. CASE base = 16
  BY <1>2 DEF Quotient, Remainder, Zero, Magnitude
<1> QED
  BY <1>1, <1>2 DEF Bases

\* A set of numbers that is not empty has a least one.
LEMMA LeastNumber == ASSUME NEW T \in SUBSET Nat, T # {}
  PROVE  \E x \in T : \A y \in T : x <= y
<1>1. PICK x \in T : \A y \in T : ~(<<y, x>> \in OpToRel(<, Nat))
  BY WFMin, NatLessThanWellFounded
<1>2. \A y \in T : <<y, x>> \in OpToRel(<, Nat) <=> y < x
  BY DEF OpToRel
<1>3. \A y \in T : ~(y < x)  BY <1>1, <1>2, Zenon
<1>4. \A y \in T : x <= y  BY <1>3
<1> QED  BY <1>4

\* The digits of i, if f has those of its quotient.
DigitsBy(f, i, base) ==
  Append(IF Quotient(i, base) = 0 THEN <<>> ELSE f[Quotient(i, base)],
         Zero(Remainder(i, base)))

\* f has the digits of all integers up to n.
DigitsTo(n, f, base) ==
  f = [i \in -n..n |-> DigitsBy(f, i, base)]

\* A function that is right up to n - 1 gives one that is right up to n.
LEMMA DigitsGrow ==
  ASSUME NEW base \in Bases, NEW n \in Nat, n > 0, NEW f, DigitsTo(n - 1, f, base)
  PROVE  \E g : DigitsTo(n, g, base)
<1> DEFINE g == [i \in -n..n |-> DigitsBy(f, i, base)]
<1>1. ASSUME NEW i \in -n..n PROVE g[i] = DigitsBy(g, i, base)
  <2> DEFINE q == Quotient(i, base)
  <2>1. CASE q = 0
    BY <2>1 DEF DigitsBy
  <2>2. CASE q # 0
    <3>1. q \in -(n - 1)..(n - 1)
      BY <2>2, DigitTaken DEF Magnitude
    <3>2. f[q] = DigitsBy(f, q, base)
      BY <3>1 DEF DigitsTo
    <3>3. g[q] = f[q]
      BY <3>1, <3>2
    <3> QED
      BY <3>3 DEF DigitsBy
  <2> QED
    BY <2>1, <2>2
<1>2. g = [i \in -n..n |-> DigitsBy(g, i, base)]
  BY <1>1
<1> QED
  BY <1>2 DEF DigitsTo

\* So there is one that is right up to any number,
LEMMA DigitsExist ==
  ASSUME NEW base \in Bases, NEW n \in Nat
  PROVE  \E f : DigitsTo(n, f, base)
<1> DEFINE Wrong == {k \in Nat : ~\E f : DigitsTo(k, f, base)}
<1> SUFFICES ASSUME Wrong # {} PROVE FALSE
  OBVIOUS
<1>1. PICK k \in Wrong : \A j \in Wrong : k <= j
  BY LeastNumber
<1>2. k # 0
  <2> DEFINE f == [i \in -0..0 |-> <<Zero(Remainder(0, base))>>]
  <2>1. \A i \in -0..0 : i = 0 /\ Quotient(i, base) = 0
    BY DEF Quotient, Bases
  <2>2. \A i \in -0..0 : f[i] = DigitsBy(f, i, base)
    BY <2>1 DEF DigitsBy
  <2>3. DigitsTo(0, f, base)
    BY <2>2 DEF DigitsTo
  <2> QED
    BY <2>3
<1>3. k - 1 \in Nat /\ k - 1 \notin Wrong
  BY <1>1, <1>2
<1> QED
  BY <1>1, <1>3, DigitsGrow

\* and any two agree where both are right.
LEMMA DigitsUnique ==
  ASSUME NEW base \in Bases, NEW m \in Nat, NEW n \in Nat, NEW f, NEW g,
         DigitsTo(m, f, base), DigitsTo(n, g, base),
         NEW i \in Int, Magnitude(i) <= m, Magnitude(i) <= n
  PROVE  f[i] = g[i]
<1> DEFINE Wrong == {k \in Nat : k <= m /\ k <= n /\ \E j \in Int : Magnitude(j) = k /\ f[j] # g[j]}
<1> SUFFICES ASSUME Wrong # {} PROVE FALSE
  BY DEF Magnitude
<1>1. PICK k \in Wrong : \A j \in Wrong : k <= j
  BY LeastNumber
<1>2. PICK j \in Int : Magnitude(j) = k /\ f[j] # g[j]
  OBVIOUS
<1>3. j \in -m..m /\ j \in -n..n
  BY <1>2 DEF Magnitude
<1>4. f[j] = DigitsBy(f, j, base) /\ g[j] = DigitsBy(g, j, base)
  BY <1>3 DEF DigitsTo
<1>5. ASSUME Quotient(j, base) # 0 PROVE f[Quotient(j, base)] = g[Quotient(j, base)]
  <2>1. Magnitude(Quotient(j, base)) \in Nat /\ Magnitude(Quotient(j, base)) < k
        /\ Quotient(j, base) \in Int
    BY <1>2, <1>5, DigitTaken
  <2>2. Magnitude(Quotient(j, base)) \notin Wrong
    BY <1>1, <2>1
  <2> QED
    BY <2>1, <2>2
<1> QED
  BY <1>2, <1>4, <1>5 DEF DigitsBy

\* Digits() therefore satisfies the equation by which it is defined.
LEMMA DigitsFacts ==
  ASSUME NEW base \in Bases, NEW i \in Int
  PROVE  Digits(i, base) =
           Append(IF Quotient(i, base) = 0 THEN <<>> ELSE Digits(Quotient(i, base), base),
                  Zero(Remainder(i, base)))
<1> DEFINE F == CHOOSE f : f = [j \in Int |-> DigitsBy(f, j, base)]
           G(j) == CHOOSE f : DigitsTo(Magnitude(j), f, base)
           H == [j \in Int |-> G(j)[j]]
<1>1. \A j \in Int : Digits(j, base) = F[j]
  BY DEF Digits, DigitsBy
<1>2. \A j \in Int : Magnitude(j) \in Nat /\ DigitsTo(Magnitude(j), G(j), base)
  BY DigitsExist DEF Magnitude
<1>3. ASSUME NEW j \in Int PROVE H[j] = DigitsBy(H, j, base)
  <2> DEFINE q == Quotient(j, base)
  <2>1. G(j)[j] = DigitsBy(G(j), j, base)
    <3> HIDE DEF G
    <3>1. j \in -Magnitude(j)..Magnitude(j)
      BY DEF Magnitude
    <3> QED
      BY <1>2, <3>1 DEF DigitsTo
  <2>2. ASSUME q # 0 PROVE G(j)[q] = G(q)[q]
    <3>1. q \in Int /\ Magnitude(q) <= Magnitude(j)
      BY <2>2, DigitTaken DEF Magnitude
    <3> HIDE DEF G
    <3> QED
      BY <1>2, <3>1, DigitsUnique DEF Magnitude
  <2>3. q \in Int
    BY DigitTaken
  <2> HIDE DEF G
  <2> QED
    BY <2>1, <2>2, <2>3 DEF DigitsBy
<1>4. H = [j \in Int |-> DigitsBy(H, j, base)]
  BY <1>3
<1>5. F = [j \in Int |-> DigitsBy(F, j, base)]
  BY <1>4
<1> HIDE DEF F
<1>6. F[i] = DigitsBy(F, i, base) /\ Quotient(i, base) \in Int
  BY <1>5, DigitTaken
<1> QED
  BY <1>1, <1>6 DEF DigitsBy

\* value has the numbers that the first digits spell, up to n of them.
SpelledTo(n, value, digits, base) ==
  value = [k \in 0..n |-> IF k = 0 THEN 0 ELSE value[k - 1] * base + digits[k]]

\* So does the value of the first n digits.
LEMMA SpelledExists ==
  ASSUME NEW base \in Bases, NEW digits \in Seq(Nat)
  PROVE  \A n \in 0..Len(digits) : \E value : SpelledTo(n, value, digits, base)
<1> DEFINE Wrong == {n \in 0..Len(digits) : ~\E value : SpelledTo(n, value, digits, base)}
<1> SUFFICES ASSUME Wrong # {} PROVE FALSE
  OBVIOUS
<1>1. PICK n \in Wrong : \A j \in Wrong : n <= j
  <2>1. Wrong \in SUBSET Nat
    OBVIOUS
  <2> HIDE DEF Wrong
  <2> QED
    BY <2>1, LeastNumber
<1>2. n # 0
  <2> DEFINE value == [k \in 0..0 |-> 0]
  <2>1. SpelledTo(0, value, digits, base)
    BY DEF SpelledTo
  <2> QED
    BY <2>1
<1>3. n - 1 \in 0..Len(digits) /\ n - 1 \notin Wrong
  BY <1>1, <1>2
<1>4. PICK value : SpelledTo(n - 1, value, digits, base)
  BY <1>3
<1> DEFINE longer == [k \in 0..n |-> IF k = n THEN value[n - 1] * base + digits[n] ELSE value[k]]
<1>5. \A k \in 0..(n - 1) : value[k] = IF k = 0 THEN 0 ELSE value[k - 1] * base + digits[k]
  BY <1>4 DEF SpelledTo
<1>6. ASSUME NEW k \in 0..n
      PROVE  longer[k] = IF k = 0 THEN 0 ELSE longer[k - 1] * base + digits[k]
  <2>1. CASE k = n
    BY <1>2, <2>1
  <2>2. CASE k # n
    BY <1>5, <2>2
  <2> QED
    BY <2>1, <2>2
<1>7. SpelledTo(n, longer, digits, base)
  <2> HIDE DEF longer
  <2>1. longer = [k \in 0..n |-> longer[k]]
    BY DEF longer
  <2> QED
    BY <1>6, <2>1 DEF SpelledTo
<1> QED
  BY <1>7

\* One number for each position, as Spelled has them.
LEMMA SpelledFacts ==
  ASSUME NEW base \in Bases, NEW digits \in Seq(Nat)
  PROVE  \E value : /\ SpelledTo(Len(digits), value, digits, base)
                    /\ Spelled(digits, base) = value[Len(digits)]
<1> DEFINE V == CHOOSE value : SpelledTo(Len(digits), value, digits, base)
<1>1. Spelled(digits, base) = V[Len(digits)]
  BY DEF Spelled, SpelledTo
<1>2. SpelledTo(Len(digits), V, digits, base)
  BY SpelledExists
<1> QED
  BY <1>1, <1>2

\* What they spell is a number.
LEMMA SpelledType ==
  ASSUME NEW base \in Bases, NEW digits \in Seq(Nat), NEW value,
         SpelledTo(Len(digits), value, digits, base)
  PROVE  \A n \in 0..Len(digits) : value[n] \in Nat
<1> DEFINE Wrong == {n \in 0..Len(digits) : value[n] \notin Nat}
<1> SUFFICES ASSUME Wrong # {} PROVE FALSE
  OBVIOUS
<1>1. PICK n \in Wrong : \A j \in Wrong : n <= j
  <2>1. Wrong \in SUBSET Nat
    OBVIOUS
  <2> HIDE DEF Wrong
  <2> QED
    BY <2>1, LeastNumber
<1>2. value[n] = IF n = 0 THEN 0 ELSE value[n - 1] * base + digits[n]
  BY DEF SpelledTo
<1>3. n # 0 => value[n - 1] \in Nat /\ digits[n] \in Nat
  BY <1>1
<1> QED
  BY <1>2, <1>3 DEF Bases

\* A digit more.
LEMMA SpelledAppend ==
  ASSUME NEW base \in Bases, NEW digits \in Seq(Nat), NEW last \in Nat
  PROVE  /\ Spelled(digits, base) \in Nat
         /\ Spelled(Append(digits, last), base) = Spelled(digits, base) * base + last
<1> DEFINE more == Append(digits, last)
<1>1. /\ more \in Seq(Nat) /\ Len(more) = Len(digits) + 1 /\ Len(digits) \in Nat
      /\ more[Len(digits) + 1] = last
      /\ \A k \in 1..Len(digits) : more[k] = digits[k]
  OBVIOUS
<1> HIDE DEF more
<1>2. PICK v : SpelledTo(Len(digits), v, digits, base) /\ Spelled(digits, base) = v[Len(digits)]
  BY SpelledFacts
<1>3. PICK w : SpelledTo(Len(more), w, more, base) /\ Spelled(more, base) = w[Len(more)]
  BY <1>1, SpelledFacts
<1>4. ASSUME NEW k \in 0..Len(digits) PROVE v[k] = w[k]
  <2> DEFINE Wrong == {j \in 0..Len(digits) : v[j] # w[j]}
  <2> SUFFICES ASSUME Wrong # {} PROVE FALSE
    OBVIOUS
  <2>1. PICK j \in Wrong : \A i \in Wrong : j <= i
    <3>1. Wrong \in SUBSET Nat
      BY <1>1
    <3> HIDE DEF Wrong
    <3> QED
      BY <3>1, LeastNumber
  <2>2. v[j] = IF j = 0 THEN 0 ELSE v[j - 1] * base + digits[j]
    BY <1>2 DEF SpelledTo
  <2>3. w[j] = IF j = 0 THEN 0 ELSE w[j - 1] * base + digits[j]
    <3>1. j \in 0..Len(more) /\ (j # 0 => more[j] = digits[j])
      BY <1>1
    <3> QED
      BY <1>3, <3>1 DEF SpelledTo
  <2>4. j # 0 => v[j - 1] = w[j - 1]
    BY <2>1
  <2> QED
    BY <2>2, <2>3, <2>4
<1>5. w[Len(more)] = w[Len(digits)] * base + last
  BY <1>1, <1>3 DEF SpelledTo
<1>6. v[Len(digits)] \in Nat
  BY <1>1, <1>2, SpelledType
<1> QED
  BY <1>1, <1>2, <1>3, <1>4, <1>5, <1>6 DEF more

\* No digit spells 0.
LEMMA NothingSpelled == ASSUME NEW base \in Bases PROVE Spelled(<<>>, base) = 0
<1>1. <<>> \in Seq(Nat) /\ Len(<<>>) = 0
  OBVIOUS
<1>2. PICK v : SpelledTo(0, v, <<>>, base) /\ Spelled(<<>>, base) = v[0]
  BY <1>1, SpelledFacts
<1> QED
  BY <1>2 DEF SpelledTo

\* The digits of a number: there is one, they are digits, they spell it, and the first
\* is 0 for none but 0.
GoodDigits(i, base) ==
  LET digits == Digits(i, base)
  IN  /\ digits \in Seq(0..(base - 1))
      /\ Len(digits) >= 1
      /\ Spelled(digits, base) = Magnitude(i)
      /\ digits[1] = 0 => Len(digits) = 1

\* A number of one digit,
LEMMA FirstDigit ==
  ASSUME NEW base \in Bases, NEW i \in Int, Quotient(i, base) = 0
  PROVE  GoodDigits(i, base)
<1> DEFINE d == Zero(Remainder(i, base))
<1>1. d \in 0..(base - 1) /\ Magnitude(i) = d
  <2>1. Magnitude(Quotient(i, base)) = 0
    BY DEF Magnitude
  <2>2. Magnitude(Quotient(i, base)) * base = 0
    BY <2>1 DEF Bases
  <2> QED
    BY <2>1, <2>2, DigitTaken
<1>2. Digits(i, base) = Append(<<>>, d)
  BY DigitsFacts
<1> HIDE DEF d
<1>3. /\ <<>> \in Seq(Nat) /\ d \in Nat
      /\ Append(<<>>, d) \in Seq(0..(base - 1)) /\ Len(Append(<<>>, d)) = 1
  BY <1>1 DEF Bases
<1>4. Spelled(<<>>, base) = 0
  BY NothingSpelled
<1>5. Spelled(Append(<<>>, d), base) = 0 * base + d
  BY <1>3, <1>4, SpelledAppend
<1> QED
  BY <1>1, <1>2, <1>3, <1>5 DEF GoodDigits, Bases

\* one with a digit more than its quotient,
LEMMA NextDigit ==
  ASSUME NEW base \in Bases, NEW i \in Int, Quotient(i, base) # 0,
         GoodDigits(Quotient(i, base), base)
  PROVE  GoodDigits(i, base)
<1> DEFINE d == Zero(Remainder(i, base))
           q == Quotient(i, base)
           s == Digits(q, base)
<1>1. d \in 0..(base - 1) /\ Magnitude(i) = Magnitude(q) * base + d /\ q \in Int /\ q # 0
      /\ Magnitude(q) > 0
  BY DigitTaken DEF Magnitude
<1>2. Digits(i, base) = Append(s, d)
  BY DigitsFacts
<1>3. s \in Seq(0..(base - 1)) /\ Len(s) >= 1 /\ Spelled(s, base) = Magnitude(q)
      /\ (s[1] = 0 => Len(s) = 1)
  BY DEF GoodDigits
<1> HIDE DEF d, s, q
<1>4. s \in Seq(Nat) /\ d \in Nat
  BY <1>1, <1>3 DEF Bases
<1>5. Spelled(Append(s, d), base) = Magnitude(i)
  BY <1>1, <1>3, <1>4, SpelledAppend
<1>6. Append(s, d) \in Seq(0..(base - 1)) /\ Len(Append(s, d)) >= 1 /\ Append(s, d)[1] = s[1]
  BY <1>1, <1>3 DEF Bases
<1>7. s[1] # 0
  <2> SUFFICES ASSUME s[1] = 0 PROVE FALSE
    OBVIOUS
  <2>1. s = Append(<<>>, 0)
    BY <1>3 DEF Bases
  <2>2. <<>> \in Seq(Nat) /\ 0 \in Nat
    OBVIOUS
  <2>3. Spelled(<<>>, base) = 0
    BY NothingSpelled
  <2>4. Spelled(s, base) = 0 * base + 0
    BY <2>1, <2>2, <2>3, SpelledAppend
  <2> QED
    BY <1>1, <1>3, <2>4 DEF Bases
<1> QED
  BY <1>2, <1>5, <1>6, <1>7 DEF GoodDigits

\* and so every number, negative ones too.
LEMMA DigitsAreGood ==
  ASSUME NEW base \in Bases, NEW i \in Int
  PROVE  GoodDigits(i, base)
<1> DEFINE Wrong == {n \in Nat : \E j \in Int : Magnitude(j) = n /\ ~GoodDigits(j, base)}
<1> SUFFICES ASSUME Wrong # {} PROVE FALSE
  BY DEF Magnitude
<1>1. PICK n \in Wrong : \A k \in Wrong : n <= k
  BY LeastNumber
<1>2. PICK j \in Int : Magnitude(j) = n /\ ~GoodDigits(j, base)
  OBVIOUS
<1>3. Quotient(j, base) # 0
  BY <1>2, FirstDigit
<1>4. /\ Quotient(j, base) \in Int /\ Magnitude(Quotient(j, base)) \in Nat
      /\ Magnitude(Quotient(j, base)) < n
  BY <1>2, <1>3, DigitTaken
<1>5. Magnitude(Quotient(j, base)) \notin Wrong
  BY <1>1, <1>4
<1> QED
  BY <1>2, <1>3, <1>4, <1>5, NextDigit

\* How many digits there are.
LEMMA DigitCount ==
  ASSUME NEW i \in Nat
  PROVE  /\ Len(Digits(i, 10)) \in Nat
         /\ i < 10 => Len(Digits(i, 10)) = 1
         /\ i >= 10 => Len(Digits(i, 10)) = Len(Digits(i \div 10, 10)) + 1
<1>1. 10 \in Bases /\ i \in Int /\ i \div 10 \in Int
  BY DEF Bases
<1>2. /\ Digits(i, 10) \in Seq(0..(10 - 1)) /\ Digits(i \div 10, 10) \in Seq(0..(10 - 1))
  BY <1>1, DigitsAreGood DEF GoodDigits
<1>3. Quotient(i, 10) = i \div 10
  BY DEF Quotient
<1>4. /\ i < 10 => i \div 10 = 0
      /\ i >= 10 => i \div 10 # 0
  OBVIOUS
<1>5. Zero(Remainder(i, 10)) \in 0..(10 - 1)
  BY <1>1, DigitTaken
<1>6. Digits(i, 10) = Append(IF i \div 10 = 0 THEN <<>> ELSE Digits(i \div 10, 10),
                             Zero(Remainder(i, 10)))
  BY <1>1, <1>3, DigitsFacts
<1>7. \A s \in Seq(0..(10 - 1)), x \in 0..(10 - 1) : Len(Append(s, x)) = Len(s) + 1
  OBVIOUS
<1>8. <<>> \in Seq(0..(10 - 1)) /\ Len(<<>>) = 0
  OBVIOUS
<1>9. CASE i \div 10 = 0
  <2>1. Len(Digits(i, 10)) = Len(<<>>) + 1
    BY <1>5, <1>6, <1>7, <1>8, <1>9
  <2> QED
    BY <1>4, <1>8, <1>9, <2>1
<1>10. CASE i \div 10 # 0
  <2>1. Len(Digits(i, 10)) = Len(Digits(i \div 10, 10)) + 1
    BY <1>2, <1>5, <1>6, <1>7, <1>10
  <2> QED
    BY <1>2, <1>4, <1>10, <2>1
<1> QED
  BY <1>9, <1>10

\* Numbers below 1000 have three digits at most, those below 10000 four.
LEMMA FewDigits ==
  ASSUME NEW i \in Nat
  PROVE  /\ Len(Digits(i, 10)) \in Nat
         /\ i < 1000 => Len(Digits(i, 10)) <= 3
         /\ i < 10000 => Len(Digits(i, 10)) <= 4
<1> DEFINE D(j) == Len(Digits(j, 10))
<1>1. \A j \in Nat : /\ D(j) \in Nat /\ j \div 10 \in Nat
                     /\ j < 10 => D(j) = 1
                     /\ j >= 10 => D(j) = D(j \div 10) + 1
  BY DigitCount
<1> HIDE DEF D
<1>2. \A j \in Nat : /\ j < 100 => j \div 10 < 10
                     /\ j < 1000 => j \div 10 < 100
                     /\ j < 10000 => j \div 10 < 1000
  OBVIOUS
<1>3. \A j \in Nat : j < 100 => D(j) <= 2
  BY <1>1, <1>2
<1>4. \A j \in Nat : j < 1000 => D(j) <= 3
  BY <1>1, <1>2, <1>3
<1>5. \A j \in Nat : j < 10000 => D(j) <= 4
  BY <1>1, <1>2, <1>4
<1> QED
  BY <1>1, <1>4, <1>5 DEF D

\* A piece of a line that is as the properties want it.
GoodPiece(piece) ==
  /\ piece.kind \in {"integer", "pointer"} => ReadsBack(piece)
  /\ piece.kind = "quantity" => ShortAndClose(piece)

\* What convert() writes reads back,
LEMMA ConvertIsGood ==
  ASSUME NEW n \in Int
  PROVE  GoodPiece(Convert(n)) /\ Convert(n).length \in Nat
<1> DEFINE digits == Digits(n, 10)
<1>1. /\ digits \in Seq(0..(10 - 1)) /\ Len(digits) >= 1 /\ Len(digits) \in Nat
      /\ Spelled(digits, 10) = Magnitude(n)
      /\ digits[1] = 0 => Len(digits) = 1
  BY DigitsAreGood DEF GoodDigits, Bases
<1> HIDE DEF digits
<1>2. Convert(n) = [kind |-> "integer", value |-> n, minus |-> n < 0, digits |-> digits,
                    length |-> Len(digits) + IF n < 0 THEN 1 ELSE 0]
  BY DEF Convert, digits
<1>3. \A k \in DOMAIN digits : digits[k] \in 0..(10 - 1)
  BY <1>1
<1>4. n = IF n < 0 THEN -Magnitude(n) ELSE Magnitude(n)
  BY DEF Magnitude
<1>5. /\ Convert(n).kind = "integer" /\ Convert(n).value = n /\ Convert(n).digits = digits
      /\ Convert(n).length = Len(digits) + IF n < 0 THEN 1 ELSE 0
  BY <1>2
<1>6. Convert(n).minus <=> n < 0
  <2>1. PICK minus : minus = (n < 0)
    OBVIOUS
  <2>2. PICK length : length = Len(digits) + IF n < 0 THEN 1 ELSE 0
    OBVIOUS
  <2>3. Convert(n) = [kind |-> "integer", value |-> n, minus |-> minus, digits |-> digits,
                      length |-> length]
    BY <2>1, <2>2, Zenon DEF Convert, digits
  <2>4. Convert(n).minus = minus
    BY <2>3
  <2> QED
    BY <2>1, <2>4, Zenon
<1>7. Convert(n).length \in Nat
  BY <1>1, <1>5
<1>8. n = IF Convert(n).minus THEN -Spelled(digits, 10) ELSE Spelled(digits, 10)
  BY <1>1, <1>4, <1>6
<1> QED
  BY <1>1, <1>3, <1>5, <1>7, <1>8 DEF GoodPiece, ReadsBack

\* and what convertHex() writes.
LEMMA ConvertHexIsGood ==
  ASSUME NEW p \in Nat
  PROVE  GoodPiece(ConvertHex(p))
<1> DEFINE digits == Digits(p, 16)
<1>1. /\ digits \in Seq(0..(16 - 1)) /\ Spelled(digits, 16) = p
      /\ digits[1] = 0 => Len(digits) = 1
  BY DigitsAreGood DEF GoodDigits, Bases, Magnitude
<1> HIDE DEF digits
<1>2. ConvertHex(p) = [kind |-> "pointer", value |-> p, minus |-> FALSE, digits |-> digits,
                       length |-> Len(digits) + 2]
  BY DEF ConvertHex, digits
<1>3. \A k \in DOMAIN digits : digits[k] \in 0..(16 - 1)
  BY <1>1
<1> QED
  BY <1>1, <1>2, <1>3 DEF GoodPiece, ReadsBack

-----------------------------------------------------------------------------
(* Quantities. *)

\* A quotient is below what its dividend is below.
LEMMA QuotientBelow ==
  ASSUME NEW a \in Nat, NEW b \in Nat, b > 0, NEW k \in Nat, a < k * b
  PROVE  a \div b \in Nat /\ a \div b < k
<1>1. a \div b \in Nat /\ (a \div b) * b <= a
  OBVIOUS
<1>2. ASSUME NEW q \in Nat, q >= k PROVE q * b >= k * b
  <2>1. q * b = k * b + (q - k) * b
    BY <1>2
  <2> QED
    BY <1>2, <2>1
<1> QED
  BY <1>1, <1>2

\* Each number has a power of two that it is at least once and less than twice.
LEMMA BinadeFacts ==
  ASSUME NEW q \in Nat, q >= 1, q < 16384
  PROVE  Binade(q) \in PowersOfTwo /\ Binade(q) <= q /\ q < 2 * Binade(q)
<1> DEFINE Right(p) == p <= q /\ q < 2 * p
<1>1. \E p \in PowersOfTwo : Right(p)
  BY SMT DEF PowersOfTwo
<1> QED
  BY <1>1 DEF Binade

\* Doubles are one apart up to the precision, and not far apart beyond.
LEMMA UlpFacts ==
  ASSUME NEW n \in Nat, NEW precision \in Precisions, n \div 8192 < precision
  PROVE  /\ Ulp(n, precision) \in PowersOfTwo \cup {16384}
         /\ n < precision => Ulp(n, precision) = 1
         /\ n = precision => Ulp(n, precision) = 2
         /\ n >= precision => Ulp(n, precision) <= n
<1>1. precision \in Nat /\ precision >= 2048
  BY QuantityAssumption
<1>2. CASE n < precision
  BY <1>1, <1>2 DEF Ulp, PowersOfTwo
<1>3. CASE ~(n < precision)
  <2> DEFINE q == n \div precision
  <2>1. n < 16384 * precision
    BY <1>1
  <2>2. q \in Nat /\ q < 16384 /\ q * precision <= n
    BY <1>1, <2>1, QuotientBelow
  <2>3. q >= 1 /\ (n = precision => q = 1)
    <3>1. ASSUME q = 0 PROVE FALSE
      BY <1>1, <1>3, <3>1
    <3>2. ASSUME n = precision PROVE q = 1
      BY <1>1, <3>2
    <3> QED
      BY <2>2, <3>1, <3>2
  <2> HIDE DEF q
  <2>4. Binade(q) \in PowersOfTwo /\ Binade(q) <= q /\ q < 2 * Binade(q)
    BY <2>2, <2>3, BinadeFacts
  <2>5. Ulp(n, precision) = 2 * Binade(q)
    BY <1>3 DEF Ulp, q
  <2>6. 2 * q <= q * precision
    BY <1>1, <2>2
  <2> QED
    BY <1>1, <1>3, <2>2, <2>3, <2>4, <2>5, <2>6, SMT DEF PowersOfTwo
<1> QED
  BY <1>2, <1>3

\* A double is its integer up to the precision, and never more than twice of it.
LEMMA ToDoubleFacts ==
  ASSUME NEW n \in Nat, NEW precision \in Precisions, n \div 8192 < precision
  PROVE  /\ ToDouble(n, precision) \in Nat
         /\ n <= precision => ToDouble(n, precision) = n
         /\ ToDouble(n, precision) <= 2 * n
<1> DEFINE ulp == Ulp(n, precision)
           d == ToDouble(n, precision)
<1>1. /\ ulp \in PowersOfTwo \cup {16384}
      /\ n < precision => ulp = 1
      /\ n = precision => ulp = 2
      /\ n >= precision => ulp <= n
  BY UlpFacts
<1>2. precision \in Nat /\ precision >= 2048 /\ precision % 2 = 0
  BY QuantityAssumption
<1>3. /\ d = ulp * (n \div ulp) \/ d = ulp * (n \div ulp + 1)
      /\ n % ulp = 0 => d = ulp * (n \div ulp)
  <2>1. d = ulp * IF 2 * (n % ulp) > ulp
                       \/ (2 * (n % ulp) = ulp /\ (n \div ulp) % 2 = 1)
                    THEN n \div ulp + 1
                    ELSE n \div ulp
    BY DEF ToDouble
  <2>2. ulp > 0
    BY <1>1, SMT DEF PowersOfTwo
  <2> HIDE DEF ulp, d
  <2> QED
    BY <1>1, <2>1, <2>2, SMT DEF PowersOfTwo
<1> HIDE DEF ulp, d
<1>4. d \in Nat /\ d <= n + ulp
  BY <1>1, <1>3, SMT DEF PowersOfTwo
<1>5. ulp = 1 => d = n
  BY <1>3, SMT
<1>6. n = precision => d = n
  BY <1>1, <1>2, <1>3, SMT
<1>7. d \in Nat /\ (n <= precision => d = n) /\ d <= 2 * n
  BY <1>1, <1>2, <1>4, <1>5, <1>6, SMT DEF PowersOfTwo
<1> QED
  BY <1>7 DEF d

\* The thousandths of a unit below which a place has its decimals.
Thousandths(place, below) == <<9995, 99950, below>>[place + 1]

\* What is below the bound of a step is below so many thousandths of its unit.
LEMMA BoundIs ==
  ASSUME NEW u \in Nat, NEW below \in {999500, 1023500}, NEW place \in 0..2, NEW decimals,
         NEW d \in Nat
  PROVE  d < Step(u, Thousandths(place, below), decimals).bound
           <=> 1000 * d < Thousandths(place, below) * u
<1>1. CASE place = 0
  BY <1>1, SMT DEF Step, Thousandths
<1>2. CASE place = 1
  BY <1>2, SMT DEF Step, Thousandths
<1>3. CASE place = 2 /\ below = 999500
  BY <1>3, SMT DEF Step, Thousandths
<1>4. CASE place = 2 /\ below = 1023500
  BY <1>4, SMT DEF Step, Thousandths
<1> QED
  BY <1>1, <1>2, <1>3, <1>4

\* The steps are as many as they are said to be, three for each unit.
LEMMA StepsAre ==
  ASSUME NEW units, NEW below, NEW count \in Nat
  PROVE  /\ DOMAIN Steps(units, below, count) = 1..count
         /\ Len(Steps(units, below, count)) = count
         /\ \A k \in 1..count :
              Steps(units, below, count)[k]
                = Step(units[(k - 1) \div 3 + 1], Thousandths((k - 1) % 3, below),
                       2 - ((k - 1) % 3))
BY DEF Steps, Thousandths

LEMMA ThousandthsAre ==
  ASSUME NEW below
  PROVE  /\ Thousandths(0, below) = 9995
         /\ Thousandths(1, below) = 99950
         /\ Thousandths(2, below) = below
BY SMT DEF Thousandths

\* Step k is case place of unit i, and the step before it is the case before it.
StandsAt(steps, units, below, k, i, place) ==
  /\ k = 3 * (i - 1) + place + 1
  /\ steps[k] = Step(units[i], Thousandths(place, below), 2 - place)
  /\ k > 1 /\ place = 0 =>
       i > 1 /\ steps[k - 1] = Step(units[i - 1], Thousandths(2, below), 0)
  /\ place > 0 =>
       k > 1 /\ steps[k - 1] = Step(units[i], Thousandths(place - 1, below), 3 - place)

LEMMA StepAt ==
  ASSUME NEW units, NEW below, NEW length \in Nat, NEW count \in Nat, count <= 3 * length,
         NEW steps, steps = Steps(units, below, count)
  PROVE  \A k \in 1..count : \E i \in 1..length, place \in 0..2 :
           StandsAt(steps, units, below, k, i, place)
<1> SUFFICES ASSUME NEW k \in 1..count
             PROVE  \E i \in 1..length, place \in 0..2 :
                      StandsAt(steps, units, below, k, i, place)
  OBVIOUS
<1>1. PICK i \in 1..length, place \in 0..2 : k = 3 * (i - 1) + place + 1
  <2>1. (k - 1) \div 3 + 1 \in 1..length /\ (k - 1) % 3 \in 0..2
        /\ k = 3 * (((k - 1) \div 3 + 1) - 1) + ((k - 1) % 3) + 1
    BY SMT
  <2> QED
    BY <2>1
<1>2. \A j \in 1..count : \A m \in Nat : \A q \in 0..2 :
        j = 3 * m + q + 1 => steps[j] = Step(units[m + 1], Thousandths(q, below), 2 - q)
  <2> SUFFICES ASSUME NEW j \in 1..count, NEW m \in Nat, NEW q \in 0..2, j = 3 * m + q + 1
               PROVE  steps[j] = Step(units[m + 1], Thousandths(q, below), 2 - q)
    OBVIOUS
  <2>1. (j - 1) \div 3 = m /\ (j - 1) % 3 = q
    BY SMT
  <2>2. steps[j] = Step(units[(j - 1) \div 3 + 1], Thousandths((j - 1) % 3, below),
                        2 - ((j - 1) % 3))
    BY StepsAre
  <2> QED
    BY <2>1, <2>2, Zenon
<1>3. steps[k] = Step(units[i], Thousandths(place, below), 2 - place)
  <2>1. i - 1 \in Nat /\ (i - 1) + 1 = i /\ k = 3 * (i - 1) + place + 1
    BY <1>1
  <2>2. steps[k] = Step(units[(i - 1) + 1], Thousandths(place, below), 2 - place)
    BY <1>2, <2>1
  <2> QED
    BY <2>1, <2>2
<1>4. ASSUME k > 1, place = 0
      PROVE  i > 1 /\ steps[k - 1] = Step(units[i - 1], Thousandths(2, below), 0)
  <2>1. /\ i > 1 /\ i - 2 \in Nat /\ (i - 2) + 1 = i - 1
        /\ k - 1 \in 1..count /\ k - 1 = 3 * (i - 2) + 2 + 1 /\ 2 \in 0..2 /\ 2 - 2 = 0
    BY <1>1, <1>4
  <2>2. steps[k - 1] = Step(units[(i - 2) + 1], Thousandths(2, below), 2 - 2)
    BY <1>2, <2>1
  <2> QED
    BY <2>1, <2>2
<1>5. ASSUME place > 0
      PROVE  k > 1 /\ steps[k - 1] = Step(units[i], Thousandths(place - 1, below), 3 - place)
  <2>1. /\ k > 1 /\ i - 1 \in Nat /\ (i - 1) + 1 = i /\ place - 1 \in 0..2
        /\ k - 1 \in 1..count /\ k - 1 = 3 * (i - 1) + (place - 1) + 1
        /\ 2 - (place - 1) = 3 - place
    BY <1>1, <1>5
  <2>2. steps[k - 1] = Step(units[(i - 1) + 1], Thousandths(place - 1, below), 2 - (place - 1))
    BY <1>2, <2>1
  <2> QED
    BY <2>1, <2>2
<1> QED
  BY <1>1, <1>3, <1>4, <1>5 DEF StandsAt

\* The step that is chosen is the first that applies.
LEMMA FirstStepIs ==
  ASSUME NEW steps, NEW count \in Nat, count > 0, DOMAIN steps = 1..count,
         Len(steps) = count, NEW n
  PROVE  LET k == FirstStep(steps, n)
         IN  /\ k \in 1..count
             /\ n < steps[k].bound \/ k = count
             /\ k > 1 => ~(n < steps[k - 1].bound)
<1> DEFINE I == {j \in 1..count : n < steps[j].bound \/ j = count}
<1>1. I \subseteq Nat /\ count \in I
  OBVIOUS
<1>2. \E x \in I : \A y \in I : x <= y
  BY <1>1, LeastNumber
<1>3. FirstStep(steps, n) = CHOOSE x \in I : \A y \in I : x <= y
  BY DEF FirstStep, Min
<1>4. FirstStep(steps, n) \in I /\ \A y \in I : FirstStep(steps, n) <= y
  BY <1>2, <1>3
<1>5. PICK k : k = FirstStep(steps, n)
  OBVIOUS
<1>6. k \in 1..count /\ (n < steps[k].bound \/ k = count) /\ \A y \in I : k <= y
  BY <1>4, <1>5
<1>7. k > 1 => ~(n < steps[k - 1].bound)
  BY <1>6
<1> QED
  BY <1>5, <1>6, <1>7

LEMMA ScaleIs == Scale(0) = 1 /\ Scale(1) = 10 /\ Scale(2) = 100
BY DEF Scale

\* What a step of formatSI() says of its number: with the decimals in front of the
\* point it has three digits, and is not in the upper half of the last one.
HasThreeDigits(step, n) ==
  /\ step.decimals \in 0..2
  /\ \E w \in Nat : /\ w >= 1
                    /\ step.unit = 1000 * w
                    /\ Scale(step.decimals) * n <= 999500 * w - Scale(step.decimals)
                    /\ Scale(step.decimals) * n >= 99950 * w

LEMMA SIStepIs ==
  ASSUME NEW n \in Quantities, n >= 1000
  PROVE  HasThreeDigits(SISteps[FirstStep(SISteps, n)], n)
<1> DEFINE units == SIUnits
           count == 3 * Len(SIUnits) - 2
           below == 999500
<1>1. /\ n \in Nat /\ n < 9995 * (units[Len(units)] \div 1000)
      /\ Len(units) \in Nat /\ Len(units) > 0 /\ units[1] = 1000
      /\ \A j \in 1..Len(units) : units[j] \in Nat /\ units[j] >= 1
      /\ \A j \in 1..(Len(units) - 1) : units[j + 1] = 1000 * units[j]
  BY QuantityAssumption, UnitAssumption
<1>2. count \in Nat /\ count > 0 /\ count = 3 * Len(units) - 2
  BY <1>1, SMT
<1>3. SISteps = Steps(units, below, count)
  BY DEF SISteps
<1> HIDE DEF units, count
<1>4. below = 999500
  OBVIOUS
<1> HIDE DEF below
<1>5. DOMAIN SISteps = 1..count /\ Len(SISteps) = count
  BY <1>2, <1>3, StepsAre
<1>6. PICK k : k = FirstStep(SISteps, n)
  OBVIOUS
<1>7. /\ k \in 1..count
      /\ n < SISteps[k].bound \/ k = count
      /\ k > 1 => ~(n < SISteps[k - 1].bound)
  BY <1>2, <1>5, <1>6, FirstStepIs, SMT
<1>8. PICK i \in 1..Len(units), place \in 0..2 :
        /\ k = 3 * (i - 1) + place + 1
        /\ SISteps[k] = Step(units[i], Thousandths(place, below), 2 - place)
        /\ k > 1 /\ place = 0 =>
             i > 1 /\ SISteps[k - 1] = Step(units[i - 1], Thousandths(2, below), 0)
        /\ place > 0 =>
             k > 1 /\ SISteps[k - 1] = Step(units[i], Thousandths(place - 1, below), 3 - place)
  <2>1. Len(units) \in Nat /\ count \in Nat /\ count <= 3 * Len(units)
    BY <1>1, <1>2, SMT
  <2>2. \A j \in 1..count : \E i \in 1..Len(units), place \in 0..2 :
          StandsAt(SISteps, units, below, j, i, place)
    BY <1>3, <2>1, StepAt
  <2>3. PICK i \in 1..Len(units), place \in 0..2 : StandsAt(SISteps, units, below, k, i, place)
    BY <1>7, <2>2
  <2> QED
    BY <2>3 DEF StandsAt
<1>9. PICK w \in Nat : /\ w >= 1 /\ units[i] = 1000 * w
                       /\ i = 1 => w = 1
                       /\ i > 1 => w = units[i - 1]
  <2>1. CASE i = 1
    BY <1>1, <2>1, SMT
  <2>2. CASE i > 1
    <3>1. i - 1 \in 1..(Len(units) - 1) /\ (i - 1) + 1 = i
      BY <1>1, <1>8, <2>2, SMT
    <3>2. units[i] = 1000 * units[i - 1] /\ units[i - 1] \in Nat /\ units[i - 1] >= 1
      BY <1>1, <3>1, SMT
    <3> QED
      BY <2>2, <3>2, SMT
  <2> QED
    BY <1>8, <2>1, <2>2, SMT
<1>10. n < Thousandths(place, below) * w
  <2>1. CASE n < SISteps[k].bound
    <3>1. 1000 * n < Thousandths(place, below) * units[i]
      <4>1. units[i] \in Nat /\ n < Step(units[i], Thousandths(place, below), 2 - place).bound
        BY <1>8, <1>9, <2>1, SMT
      <4> QED
        BY <1>1, <1>8, <4>1, <1>4, BoundIs, SMT
    <3>2. PICK t \in {9995, 99950, 999500} : t = Thousandths(place, below)
      BY <1>4, <1>8, ThousandthsAre, SMT
    <3> QED
      BY <1>1, <1>9, <3>1, <3>2, SMT
  <2>2. CASE k = count
    <3>1. place = 0 /\ i = Len(units)
      BY <1>1, <1>2, <1>8, <2>2, SMT
    <3>2. units[Len(units)] \div 1000 = w
      BY <1>9, <3>1, SMT
    <3> QED
      BY <1>1, <3>1, <3>2, <1>4, ThousandthsAre, SMT
  <2> QED
    BY <1>7, <2>1, <2>2
<1>11. CASE place = 0
  <2>1. 100 * n >= 99950 * w
    <3>1. CASE k = 1
      <4>1. i = 1
        BY <1>8, <1>11, <3>1, SMT
      <4> QED
        BY <1>1, <1>9, <4>1, SMT
    <3>2. CASE k > 1
      <4>1. ~(n < Step(w, Thousandths(2, below), 0).bound)
        BY <1>7, <1>8, <1>9, <1>11, <3>2, SMT
      <4>2. ~(1000 * n < Thousandths(2, below) * w)
        BY <1>1, <1>9, <4>1, <1>4, BoundIs, SMT
      <4> QED
        BY <1>1, <1>9, <4>2, <1>4, ThousandthsAre, SMT
    <3> QED
      BY <1>7, <3>1, <3>2, SMT
  <2>2. 100 * n <= 999500 * w - 100
    BY <1>1, <1>9, <1>10, <1>11, <1>4, ThousandthsAre, SMT
  <2>3. SISteps[k].decimals = 2 /\ SISteps[k].unit = 1000 * w
    BY <1>8, <1>9, <1>11, SMT DEF Step
  <2> QED
    BY <1>6, <1>9, <2>1, <2>2, <2>3, ScaleIs, SMT DEF HasThreeDigits
<1>12. CASE place > 0
  <2>1. ~(1000 * n < Thousandths(place - 1, below) * (1000 * w))
    <3>1. ~(n < Step(1000 * w, Thousandths(place - 1, below), 3 - place).bound)
      BY <1>7, <1>8, <1>9, <1>12, SMT
    <3>2. place - 1 \in 0..2 /\ 1000 * w \in Nat
      BY <1>8, <1>9, <1>12, SMT
    <3> QED
      BY <1>1, <3>1, <3>2, <1>4, BoundIs, SMT
  <2>2. SISteps[k].decimals = 2 - place /\ SISteps[k].unit = 1000 * w
    BY <1>8, <1>9, SMT DEF Step
  <2>3. CASE place = 1
    <3>1. 10 * n <= 999500 * w - 10 /\ 10 * n >= 99950 * w
      BY <1>1, <1>9, <1>10, <2>1, <2>3, <1>4, ThousandthsAre, SMT
    <3> QED
      BY <1>6, <1>9, <2>2, <2>3, <3>1, ScaleIs, SMT DEF HasThreeDigits
  <2>4. CASE place = 2
    <3>1. n <= 999500 * w - 1 /\ n >= 99950 * w
      BY <1>1, <1>9, <1>10, <2>1, <2>4, <1>4, ThousandthsAre, SMT
    <3>2. SISteps[k].decimals = 0 /\ Scale(SISteps[k].decimals) = 1
      BY <2>2, <2>4, ScaleIs
    <3>3. Scale(SISteps[k].decimals) * n = n
      BY <1>1, <3>2
    <3> QED
      BY <1>6, <1>9, <2>2, <3>1, <3>2, <3>3, SMT DEF HasThreeDigits
  <2> QED
    BY <1>8, <1>12, <2>3, <2>4, SMT
<1> QED
  BY <1>8, <1>11, <1>12, SMT

\* The same for formatIEC(), and a place e that may be two beyond the double; without
\* decimals there may be four digits.
HasFourDigits(step, d, e) ==
  /\ step.decimals \in 0..2
  /\ step.unit \in Nat /\ step.unit >= 1024
  /\ step.decimals > 0 => 2 * (Scale(step.decimals) * d) < 1999 * step.unit
  /\ step.decimals = 0 => 2 * d < 2047 * step.unit
  /\ 20 * (Scale(step.decimals) * e) >= 1999 * step.unit

LEMMA IECStepIs ==
  ASSUME NEW d \in Nat, d >= 1024, d < 16 * IECUnits[Len(IECUnits)], NEW e \in Nat, d <= e
  PROVE  HasFourDigits(IECSteps[FirstStep(IECSteps, e)], d, e)
<1> DEFINE units == IECUnits
           count == 3 * Len(IECUnits) - 1
           below == 1023500
<1>1. /\ Len(units) \in Nat /\ Len(units) > 0 /\ units[1] = 1024 /\ d < 16 * units[Len(units)]
      /\ \A j \in 1..Len(units) : units[j] \in Nat /\ units[j] >= 1
      /\ \A j \in 1..(Len(units) - 1) : units[j + 1] = 1024 * units[j]
  BY UnitAssumption
<1>2. count \in Nat /\ count > 0 /\ count = 3 * Len(units) - 1
  BY <1>1, SMT
<1>3. IECSteps = Steps(units, below, count)
  BY DEF IECSteps
<1> HIDE DEF units, count
<1>4. below = 1023500
  OBVIOUS
<1> HIDE DEF below
<1>5. DOMAIN IECSteps = 1..count /\ Len(IECSteps) = count
  BY <1>2, <1>3, StepsAre
<1>6. PICK k : k = FirstStep(IECSteps, e)
  OBVIOUS
<1>7. /\ k \in 1..count
      /\ e < IECSteps[k].bound \/ k = count
      /\ k > 1 => ~(e < IECSteps[k - 1].bound)
  BY <1>2, <1>5, <1>6, FirstStepIs, SMT
<1>8. PICK i \in 1..Len(units), place \in 0..2 :
        /\ k = 3 * (i - 1) + place + 1
        /\ IECSteps[k] = Step(units[i], Thousandths(place, below), 2 - place)
        /\ k > 1 /\ place = 0 =>
             i > 1 /\ IECSteps[k - 1] = Step(units[i - 1], Thousandths(2, below), 0)
        /\ place > 0 =>
             k > 1 /\ IECSteps[k - 1] = Step(units[i], Thousandths(place - 1, below), 3 - place)
  <2>1. Len(units) \in Nat /\ count \in Nat /\ count <= 3 * Len(units)
    BY <1>1, <1>2, SMT
  <2>2. \A j \in 1..count : \E i \in 1..Len(units), place \in 0..2 :
          StandsAt(IECSteps, units, below, j, i, place)
    BY <1>3, <2>1, StepAt
  <2>3. PICK i \in 1..Len(units), place \in 0..2 : StandsAt(IECSteps, units, below, k, i, place)
    BY <1>7, <2>2
  <2> QED
    BY <2>3 DEF StandsAt
<1>9. PICK u \in Nat : /\ u >= 1024 /\ units[i] = u
                       /\ i = 1 => u = 1024
                       /\ i > 1 => units[i - 1] \in Nat /\ u = 1024 * units[i - 1]
  <2>1. CASE i = 1
    BY <1>1, <2>1, SMT
  <2>2. CASE i > 1
    <3>1. i - 1 \in 1..(Len(units) - 1) /\ (i - 1) + 1 = i
      BY <1>1, <1>8, <2>2, SMT
    <3>2. units[i] = 1024 * units[i - 1] /\ units[i - 1] \in Nat /\ units[i - 1] >= 1
      BY <1>1, <3>1, SMT
    <3> QED
      BY <2>2, <3>2, SMT
  <2> QED
    BY <1>8, <2>1, <2>2, SMT
<1>10. 1000 * d < Thousandths(place, below) * u
  <2>1. CASE e < IECSteps[k].bound
    <3>1. 1000 * e < Thousandths(place, below) * u
      BY <1>8, <1>9, <2>1, <1>4, BoundIs, SMT
    <3> QED
      BY <1>8, <1>9, <3>1, <1>4, ThousandthsAre, SMT
  <2>2. CASE k = count
    <3>1. place = 1 /\ i = Len(units)
      <4>1. 3 * (i - 1) + place + 1 = 3 * Len(units) - 1
        BY <1>2, <1>8, <2>2
      <4> QED
        BY <1>1, <1>8, <4>1, SMT
    <3> QED
      BY <1>1, <1>9, <3>1, <1>4, ThousandthsAre, SMT
  <2> QED
    BY <1>7, <2>1, <2>2
<1>11. IECSteps[k].decimals = 2 - place /\ IECSteps[k].unit = u
  BY <1>8, <1>9, SMT DEF Step
<1>12. CASE place = 0
  <2>1. 2000 * e >= 1999 * u
    <3>1. CASE k = 1
      <4>1. i = 1
        BY <1>8, <1>12, <3>1, SMT
      <4> QED
        BY <1>9, <4>1, SMT
    <3>2. CASE k > 1
      <4>1. i > 1 /\ ~(e < Step(units[i - 1], Thousandths(2, below), 0).bound)
        BY <1>7, <1>8, <1>12, <3>2, SMT
      <4>2. ~(1000 * e < Thousandths(2, below) * units[i - 1])
        BY <1>9, <4>1, <1>4, BoundIs, SMT
      <4> QED
        BY <1>9, <4>1, <4>2, <1>4, ThousandthsAre, SMT
    <3> QED
      BY <1>7, <3>1, <3>2, SMT
  <2>2. 200 * d < 1999 * u
    BY <1>9, <1>10, <1>12, <1>4, ThousandthsAre, SMT
  <2> QED
    BY <1>6, <1>9, <1>11, <1>12, <2>1, <2>2, ScaleIs, SMT DEF HasFourDigits
<1>13. CASE place > 0
  <2>1. ~(1000 * e < Thousandths(place - 1, below) * u)
    <3>1. ~(e < Step(u, Thousandths(place - 1, below), 3 - place).bound)
      BY <1>7, <1>8, <1>9, <1>13, SMT
    <3>2. place - 1 \in 0..2
      BY <1>8, <1>13, SMT
    <3> QED
      BY <1>9, <3>1, <3>2, <1>4, BoundIs, SMT
  <2>2. CASE place = 1
    <3>1. 20 * d < 1999 * u /\ 200 * e >= 1999 * u
      BY <1>9, <1>10, <2>1, <2>2, <1>4, ThousandthsAre, SMT
    <3> QED
      BY <1>6, <1>9, <1>11, <2>2, <3>1, ScaleIs, SMT DEF HasFourDigits
  <2>3. CASE place = 2
    <3>1. 2 * d < 2047 * u /\ 20 * e >= 1999 * u
      BY <1>9, <1>10, <2>1, <2>3, <1>4, ThousandthsAre, SMT
    <3> QED
      BY <1>6, <1>9, <1>11, <2>3, <3>1, ScaleIs, SMT DEF HasFourDigits
  <2> QED
    BY <1>8, <1>13, <2>2, <2>3, SMT
<1> QED
  BY <1>8, <1>12, <1>13, SMT

\* An integer of three digits comes from such a step, and off by half of the last
\* place at most, although the quotient is off as well: the quotients that might be
\* shown wrong are none of those of integers.
LEMMA ThreeDigits ==
  ASSUME NEW w \in Nat, w >= 1, NEW s \in {1, 10, 100}, NEW n \in Nat, NEW shown \in Nat,
         NEW error \in Nat, error < 2 * s,
         s * n <= 999500 * w - s, s * n >= 99950 * w,
         NEW distance \in Nat,
         \/ distance = shown * (1000 * w) - n * s
         \/ distance = -(shown * (1000 * w) - n * s),
         2 * distance <= 1000 * w + error
  PROVE  shown >= 100 /\ shown < 1000 /\ 2 * distance <= 1000 * w
<1>1. PICK m \in Nat : m = shown * w
  OBVIOUS
<1>2. shown * (1000 * w) = 1000 * m
  BY <1>1, SMT
<1>3. ASSUME shown >= 1000 PROVE m >= 1000 * w
  <2>1. m = 1000 * w + (shown - 1000) * w /\ (shown - 1000) * w \in Nat
    BY <1>1, <1>3, SMT
  <2> QED
    BY <2>1, SMT
<1>4. ASSUME shown <= 99 PROVE m <= 99 * w
  <2>1. 99 * w = m + (99 - shown) * w /\ (99 - shown) * w \in Nat
    BY <1>1, <1>4, SMT
  <2> QED
    BY <2>1, SMT
<1>5. \/ distance = 1000 * m - n * s
      \/ distance = n * s - 1000 * m
  BY <1>2, SMT
<1>6. ~(m >= 1000 * w)
  BY <1>5, SMT
<1>7. ~(m <= 99 * w)
  BY <1>5, SMT
<1>8. 2 * distance <= 1000 * w
  BY <1>5, SMT
<1> QED
  BY <1>3, <1>4, <1>6, <1>7, <1>8, SMT

\* A text of Quantity() shows a natural number.
LEMMA ShownIsNatural ==
  ASSUME NEW d \in Nat, NEW step, step.decimals \in 0..2,
         step.unit \in Nat, step.unit >= 1, NEW error, NEW shown \in Printed(d, step, error)
  PROVE  /\ shown \in Nat
         /\ Scale(step.decimals) \in {1, 10, 100}
         /\ Distance(shown, d, step) \in Nat
         /\ \/ Distance(shown, d, step) = shown * step.unit - d * Scale(step.decimals)
            \/ Distance(shown, d, step) = -(shown * step.unit - d * Scale(step.decimals))
         /\ 2 * Distance(shown, d, step) <= step.unit + error
<1>1. Scale(step.decimals) \in {1, 10, 100}
  BY ScaleIs, SMT
<1>2. PICK s \in {1, 10, 100} : s = Scale(step.decimals)
  BY <1>1
<1>3. PICK u \in Nat : u = step.unit /\ u >= 1
  OBVIOUS
<1>4. /\ shown \in {(d * s) \div u, (d * s) \div u + 1}
      /\ 2 * Distance(shown, d, step) <= u + error
  BY <1>2, <1>3 DEF Printed
<1>5. shown \in Nat
  <2>1. (d * s) \div u \in Nat
    BY <1>3, SMT
  <2> QED
    BY <1>4, <2>1, SMT
<1>6. /\ Distance(shown, d, step) \in Nat
      /\ \/ Distance(shown, d, step) = shown * u - d * s
         \/ Distance(shown, d, step) = -(shown * u - d * s)
  BY <1>2, <1>3, <1>5, SMT DEF Distance
<1> QED
  BY <1>1, <1>2, <1>3, <1>4, <1>5, <1>6

\* The quotient of an integer up to the precision is off by less than two.
LEMMA ErrorIsSmall ==
  ASSUME NEW precision \in Precisions, NEW n \in Nat, n <= precision,
         NEW step, NEW w \in Nat, w >= 1, step.unit = 1000 * w,
         NEW s \in {1, 10, 100}, s = Scale(step.decimals),
         n <= 999500 * w, 2 * n >= 1000 * w
  PROVE  /\ QuotientError(n, step, precision) \in Nat
         /\ QuotientError(n, step, precision) < 2 * s
<1>1. precision \in Nat /\ precision >= 2048 /\ precision % 5 # 0
  BY QuantityAssumption
<1> DEFINE u == 1000 * w
           q == (2 * n) \div u
<1>2. q \in Nat /\ q < 2000 /\ q * u <= 2 * n
  <2>1. 2 * n \in Nat /\ u \in Nat /\ u > 0 /\ 2 * n < 2000 * u
    BY SMT
  <2>2. ((2 * n) \div u) * u <= 2 * n
    BY <2>1
  <2> QED
    BY <2>1, <2>2, QuotientBelow, SMT
<1>3. q >= 1
  <2>1. u \in Nat /\ u > 0 /\ 2 * n >= u /\ q * u + u > 2 * n
    BY SMT
  <2> HIDE DEF u, q
  <2>2. q # 0
    BY <2>1, SMT
  <2> QED
    BY <1>2, <2>2, SMT
<1>4. PICK b \in Nat : b = Binade(q) /\ b <= q /\ b >= 1
  BY <1>2, <1>3, BinadeFacts, SMT DEF PowersOfTwo
<1> HIDE DEF q
<1>5. PICK m \in Nat : m = b * w
  BY <1>4
<1>6. 1000 * m <= 2 * precision
  <2>1. 1000 * m = b * u /\ u \in Nat
    BY <1>4, <1>5, SMT
  <2> HIDE DEF u
  <2>2. b * u <= q * u
    <3>1. q * u = b * u + (q - b) * u /\ (q - b) * u \in Nat
      BY <1>2, <1>4, <2>1, SMT
    <3> QED
      BY <1>2, <1>4, <2>1, <3>1, SMT
  <2>3. b * u \in Nat /\ q * u \in Nat
    BY <1>2, <1>4, <2>1
  <2> QED
    BY <1>1, <1>2, <2>1, <2>2, <2>3, SMT
<1>7. 1000 * m < 2 * precision
  <2>1. precision # 500 * m
    BY <1>1, SMT
  <2> QED
    BY <1>1, <1>6, <2>1, SMT
<1>8. QuotientError(n, step, precision) = (1000 * (s * m)) \div precision
  <2>1. QuotientError(n, step, precision) = (s * u * b) \div precision
    BY <1>4 DEF QuotientError, q
  <2>2. s * u * b = 1000 * (s * m)
    BY <1>4, <1>5, SMT
  <2> QED
    BY <2>1, <2>2
<1>9. 1000 * (s * m) \in Nat /\ 1000 * (s * m) < (2 * s) * precision
  BY <1>1, <1>7, SMT
<1>10. precision > 0 /\ 2 * s \in Nat
  BY <1>1, SMT
<1> QED
  BY <1>1, <1>8, <1>9, <1>10, QuotientBelow

\* The doubles that the quantities are converted to.
LEMMA QuantityFacts ==
  ASSUME NEW n \in Quantities, NEW precision \in Precisions
  PROVE  /\ n \in Nat /\ precision \in Nat
         /\ ToDouble(n, precision) \in Nat
         /\ n <= precision => ToDouble(n, precision) = n
         /\ ToDouble(n, precision) < 16 * IECUnits[Len(IECUnits)]
         /\ ToDouble(n, precision) \div 8192 < precision
<1>1. /\ n \in Nat /\ n \div 4096 < precision /\ precision \in Nat
      /\ n < 8 * IECUnits[Len(IECUnits)]
      /\ IECUnits[Len(IECUnits)] \in Nat
  BY QuantityAssumption, UnitAssumption
<1>2. n < 4096 * precision
  BY <1>1, SMT
<1>3. n \div 8192 < precision
  BY <1>1, <1>2, SMT
<1>4. /\ ToDouble(n, precision) \in Nat
      /\ n <= precision => ToDouble(n, precision) = n
      /\ ToDouble(n, precision) <= 2 * n
  BY <1>1, <1>3, ToDoubleFacts
<1>5. PICK d \in Nat : d = ToDouble(n, precision) /\ d <= 2 * n
  BY <1>4
<1>6. d < 8192 * precision /\ d < 16 * IECUnits[Len(IECUnits)]
  BY <1>1, <1>2, <1>5, SMT
<1>7. d \div 8192 < precision
  BY <1>1, <1>6, SMT
<1> QED
  BY <1>1, <1>4, <1>5, <1>6, <1>7

\* What formatSI() writes is short and close up to the precision,
LEMMA SIIsGood ==
  ASSUME NEW n \in Quantities, NEW precision \in Precisions,
         NEW text \in FormatSI(n, precision)
  PROVE  GoodPiece(text) /\ text.length \in Nat
<1> DEFINE d == ToDouble(n, precision)
<1>1. n \in Nat /\ precision \in Nat /\ d \in Nat /\ (n <= precision => d = n)
  BY QuantityFacts
<1>2. CASE n < 1000
  <2>1. text = Convert(n)
    BY <1>2 DEF FormatSI
  <2> QED
    BY <1>1, <2>1, ConvertIsGood
<1>3. CASE ~(n < 1000)
  <2>1. PICK step : step = SISteps[FirstStep(SISteps, n)]
    OBVIOUS
  <2>2. text \in Quantity(n, d, step, QuotientError(d, step, precision), precision, 1)
    BY <1>3, <2>1 DEF FormatSI
  <2> DEFINE error == QuotientError(d, step, precision)
  <2>3. PICK shown \in Printed(d, step, error) :
          text = [kind |-> "quantity", value |-> n, precision |-> precision, shown |-> shown,
                  step |-> step, suffix |-> 1,
                  length |-> Len(Digits(shown, 10)) + 1 + IF step.decimals > 0 THEN 1 ELSE 0]
    BY <2>2 DEF Quantity
  <2>4. n >= 1000
    BY <1>1, <1>3
  <2>5. step.decimals \in 0..2 /\ HasThreeDigits(step, n)
    <3>1. HasThreeDigits(step, n)
      BY <2>1, <2>4, SIStepIs
    <3> QED
      BY <3>1, SMT DEF HasThreeDigits
  <2>6. PICK w \in Nat : /\ w >= 1
                         /\ step.unit = 1000 * w
                         /\ Scale(step.decimals) * n <= 999500 * w - Scale(step.decimals)
                         /\ Scale(step.decimals) * n >= 99950 * w
    BY <2>5, SMT DEF HasThreeDigits
  <2>7. step.unit \in Nat /\ step.unit >= 1
    BY <2>6, SMT
  <2>8. /\ shown \in Nat
        /\ Scale(step.decimals) \in {1, 10, 100}
        /\ Distance(shown, d, step) \in Nat
        /\ \/ Distance(shown, d, step) = shown * step.unit - d * Scale(step.decimals)
           \/ Distance(shown, d, step) = -(shown * step.unit - d * Scale(step.decimals))
        /\ 2 * Distance(shown, d, step) <= step.unit + error
    BY <1>1, <2>3, <2>5, <2>7, ShownIsNatural
  <2>9. ASSUME n <= precision
        PROVE  shown >= 100 /\ shown < 1000 /\ 2 * Distance(shown, n, step) <= step.unit
    <3>1. PICK s \in {1, 10, 100} : s = Scale(step.decimals)
      BY <2>8
    <3>2. s * n <= 999500 * w - s /\ s * n >= 99950 * w
      BY <2>6, <3>1, SMT
    <3>3. n <= 999500 * w /\ 2 * n >= 1000 * w
      BY <1>1, <2>6, <3>1, <3>2, SMT
    <3>4. d = n
      BY <1>1, <2>9
    <3>5. error \in Nat /\ error < 2 * s
      BY <1>1, <2>6, <2>9, <3>1, <3>3, <3>4, ErrorIsSmall, SMT
    <3>6. PICK distance \in Nat : distance = Distance(shown, n, step)
      BY <2>8, <3>4
    <3> HIDE DEF error, d
    <3>7. /\ \/ distance = shown * (1000 * w) - n * s
             \/ distance = -(shown * (1000 * w) - n * s)
          /\ 2 * distance <= 1000 * w + error
      BY <2>6, <2>8, <3>1, <3>4, <3>6, SMT
    <3>8. shown >= 100 /\ shown < 1000 /\ 2 * distance <= 1000 * w
      BY <1>1, <2>6, <2>8, <3>2, <3>5, <3>7, ThreeDigits, SMT
    <3> QED
      BY <2>6, <3>6, <3>8, SMT
  <2>10. /\ Len(Digits(shown, 10)) \in Nat
         /\ n <= precision => Len(Digits(shown, 10)) <= 3
    BY <2>8, <2>9, FewDigits
  <2> HIDE DEF d
  <2> QED
    BY <2>3, <2>5, <2>9, <2>10, SMT DEF GoodPiece, ShortAndClose
<1> QED
  BY <1>2, <1>3

\* and so is what formatIEC() writes, which is short beyond it too.
LEMMA IECIsGood ==
  ASSUME NEW n \in Quantities, NEW precision \in Precisions,
         NEW text \in FormatIEC(n, precision)
  PROVE  GoodPiece(text) /\ text.length \in Nat
<1> DEFINE d == ToDouble(n, precision)
<1>1. /\ n \in Nat /\ precision \in Nat /\ d \in Nat /\ (n <= precision => d = n)
      /\ d < 16 * IECUnits[Len(IECUnits)] /\ d \div 8192 < precision
  BY QuantityFacts
<1>2. CASE d < 1024
  <2>1. text = Convert(n)
    BY <1>2 DEF FormatIEC
  <2> QED
    BY <1>1, <2>1, ConvertIsGood
<1>3. CASE ~(d < 1024)
  <2>1. PICK e \in {d} \cup {d + Ulp(d, precision)} :
          text \in Quantity(n, d, IECSteps[FirstStep(IECSteps, e)], 0, precision, 2)
    BY <1>3 DEF FormatIEC
  <2>2. e \in Nat /\ d <= e /\ (n <= precision => e <= d + 2)
    <3>1. /\ Ulp(d, precision) \in PowersOfTwo \cup {16384}
          /\ d < precision => Ulp(d, precision) = 1
          /\ d = precision => Ulp(d, precision) = 2
      BY <1>1, UlpFacts
    <3> HIDE DEF d
    <3>2. PICK ulp \in Nat : /\ ulp = Ulp(d, precision)
                             /\ d < precision => ulp = 1
                             /\ d = precision => ulp = 2
      BY <3>1 DEF PowersOfTwo
    <3>3. e = d \/ e = d + ulp
      BY <2>1, <3>2
    <3>4. n \in Nat /\ precision \in Nat /\ d \in Nat /\ (n <= precision => d = n)
      BY <1>1
    <3>5. n <= precision => ulp \in 1..2
      BY <3>2, <3>4, SMT
    <3> QED
      BY <3>2, <3>3, <3>4, <3>5, SMT
  <2>3. PICK step : step = IECSteps[FirstStep(IECSteps, e)]
    OBVIOUS
  <2>4. PICK shown \in Printed(d, step, 0) :
          text = [kind |-> "quantity", value |-> n, precision |-> precision, shown |-> shown,
                  step |-> step, suffix |-> 2,
                  length |-> Len(Digits(shown, 10)) + 2 + IF step.decimals > 0 THEN 1 ELSE 0]
    BY <2>1, <2>3 DEF Quantity
  <2>5. d >= 1024
    BY <1>1, <1>3
  <2>6. /\ step.decimals \in 0..2
        /\ step.unit \in Nat /\ step.unit >= 1024
        /\ step.decimals > 0 => 2 * (Scale(step.decimals) * d) < 1999 * step.unit
        /\ step.decimals = 0 => 2 * d < 2047 * step.unit
        /\ 20 * (Scale(step.decimals) * e) >= 1999 * step.unit
    <3>1. HasFourDigits(step, d, e)
      BY <1>1, <2>2, <2>3, <2>5, IECStepIs
    <3> QED
      BY <3>1 DEF HasFourDigits
  <2>7. PICK u \in Nat : u = step.unit /\ u >= 1024
    BY <2>6
  <2>8. step.unit >= 1
    BY <2>6, SMT
  <2>9. /\ shown \in Nat
        /\ Scale(step.decimals) \in {1, 10, 100}
        /\ Distance(shown, d, step) \in Nat
        /\ \/ Distance(shown, d, step) = shown * step.unit - d * Scale(step.decimals)
           \/ Distance(shown, d, step) = -(shown * step.unit - d * Scale(step.decimals))
        /\ 2 * Distance(shown, d, step) <= step.unit + 0
    BY <1>1, <2>4, <2>6, <2>8, ShownIsNatural
  <2>10. PICK s \in {1, 10, 100} : s = Scale(step.decimals)
    BY <2>9
  <2>11. PICK distance \in Nat : distance = Distance(shown, d, step)
    BY <2>9
  <2> HIDE DEF d
  <2>12. PICK m \in Nat : m = shown * u
    BY <2>7, <2>9
  <2>13. PICK part \in Nat : /\ part = s * d
                             /\ distance = m - part \/ distance = part - m
                             /\ 2 * distance <= u
    <3>1. s * d \in Nat /\ d * s = s * d
      BY <1>1, <2>10, SMT
    <3>2. /\ distance = m - s * d \/ distance = s * d - m
          /\ 2 * distance <= u
      <4>1. /\ distance = shown * u - d * s \/ distance = -(shown * u - d * s)
            /\ 2 * distance <= u + 0
        BY <2>7, <2>9, <2>10, <2>11
      <4>2. /\ distance = m - s * d \/ distance = -(m - s * d)
            /\ 2 * distance <= u + 0
        BY <2>12, <3>1, <4>1
      <4> QED
        BY <2>7, <3>1, <4>2
    <3> QED
      BY <3>1, <3>2
  <2>14. \A k \in Nat : /\ shown >= k => m >= k * u
                        /\ shown <= k => m <= k * u
    <3> SUFFICES ASSUME NEW k \in Nat
                 PROVE  (shown >= k => m >= k * u) /\ (shown <= k => m <= k * u)
      OBVIOUS
    <3>1. shown >= k => m = k * u + (shown - k) * u /\ (shown - k) * u \in Nat
      BY <2>7, <2>9, <2>12, SMT
    <3>2. shown <= k => k * u = m + (k - shown) * u /\ (k - shown) * u \in Nat
      BY <2>7, <2>9, <2>12, SMT
    <3>3. k * u \in Nat
      BY <2>7
    <3> QED
      BY <2>12, <3>1, <3>2, <3>3, SMT
  <2>15. step.decimals > 0 => shown < 1000
    <3>1. shown >= 1000 => m >= 1000 * u
      BY <2>14
    <3>2. step.decimals > 0 => 2 * part < 1999 * u
      BY <2>6, <2>7, <2>10, <2>13
    <3> QED
      BY <2>7, <2>9, <2>13, <3>1, <3>2, SMT
  <2>16. step.decimals = 0 => shown < 10000
    <3>1. shown >= 10000 => m >= 10000 * u
      BY <2>14
    <3>2. step.decimals = 0 => part = d
      <4>1. step.decimals = 0 => s = 1
        BY <2>10, ScaleIs
      <4> QED
        BY <1>1, <2>13, <4>1
    <3>3. step.decimals = 0 => 2 * part < 2047 * u
      BY <2>6, <2>7, <3>2
    <3> QED
      BY <2>7, <2>9, <2>13, <3>1, <3>3, SMT
  <2>17. ASSUME n <= precision
         PROVE  shown >= 100 /\ 2 * Distance(shown, n, step) <= step.unit
    <3>1. shown <= 99 => m <= 99 * u
      BY <2>14
    <3>2. 20 * (s * e) >= 1999 * u /\ e <= d + 2
      BY <2>2, <2>6, <2>7, <2>10, <2>17
    <3>3. ~(m <= 99 * u)
      <4>1. s * e <= part + 200
        <5>1. d \in Nat /\ e \in Nat /\ e <= d + 2
          BY <1>1, <2>2, <3>2
        <5>2. CASE s = 1
          BY <2>13, <5>1, <5>2, SMT
        <5>3. CASE s = 10
          BY <2>13, <5>1, <5>3, SMT
        <5>4. CASE s = 100
          BY <2>13, <5>1, <5>4, SMT
        <5> QED
          BY <2>10, <5>2, <5>3, <5>4
      <4>2. s * e \in Nat
        BY <2>2, <2>10
      <4> QED
        BY <2>7, <2>13, <3>2, <4>1, <4>2, SMT
    <3>4. d = n
      BY <1>1, <2>17
    <3> QED
      BY <2>7, <2>9, <2>11, <2>13, <3>1, <3>3, <3>4, SMT
  <2>18. /\ Len(Digits(shown, 10)) \in Nat /\ Len(Digits(shown, 10)) <= 4
         /\ step.decimals > 0 => Len(Digits(shown, 10)) <= 3
    <3>1. step.decimals > 0 \/ step.decimals = 0
      BY <2>6, SMT
    <3>2. shown < 10000
      BY <2>9, <2>15, <2>16, <3>1, SMT
    <3> QED
      BY <2>9, <2>15, <3>2, FewDigits
  <2> QED
    BY <2>4, <2>6, <2>17, <2>18, SMT DEF GoodPiece, ShortAndClose
<1> QED
  BY <1>2, <1>3

-----------------------------------------------------------------------------
(* The buffer. *)

\* A stream whose cursor is inside of the buffer, with a place left.
InBuffer(stream) ==
  /\ stream = [cursor |-> stream.cursor, pieces |-> stream.pieces]
  /\ stream.cursor \in Nat
  /\ stream.cursor < Size

\* All that was written is good.
WellWritten(pieces) ==
  \E Good : pieces \in Seq(Good) /\ \A piece \in Good : GoodPiece(piece)

Sound(stream) == InBuffer(stream) /\ WellWritten(stream.pieces)

\* One more good piece.
LEMMA PieceAppended ==
  ASSUME NEW pieces, WellWritten(pieces), NEW piece, GoodPiece(piece)
  PROVE  WellWritten(Append(pieces, piece))
<1>1. PICK Good : pieces \in Seq(Good) /\ \A p \in Good : GoodPiece(p)
  BY DEF WellWritten
<1> DEFINE More == Good \cup {piece}
<1>2. Append(pieces, piece) \in Seq(More)
  BY <1>1
<1>3. \A p \in More : GoodPiece(p)
  BY <1>1
<1> QED
  BY <1>2, <1>3 DEF WellWritten

\* append() stays inside of the buffer, whatever the length of the text.
LEMMA PieceIsSound ==
  ASSUME NEW stream, Sound(stream), NEW piece, piece.length \in Nat, GoodPiece(piece)
  PROVE  Sound(AppendPiece(stream, piece))
<1>1. Size \in Nat
  BY SizeAssumption
<1>2. CASE Fits(stream, piece.length)
  <2>1. stream.cursor + piece.length \in Nat /\ stream.cursor + piece.length < Size
    BY <1>1, <1>2 DEF Fits, Avail, Sound, InBuffer
  <2>2. WellWritten(Append(stream.pieces, piece))
    BY PieceAppended DEF Sound
  <2> QED
    BY <1>2, <2>1, <2>2 DEF AppendPiece, Write, Sound, InBuffer
<1>3. CASE ~Fits(stream, piece.length)
  BY <1>3 DEF AppendPiece
<1> QED
  BY <1>2, <1>3

\* No property speaks of the texts and doubles.
LEMMA OtherPieces ==
  ASSUME NEW length, NEW kind \in {"text", "double"}
  PROVE  /\ GoodPiece([kind |-> kind, length |-> length])
         /\ [kind |-> kind, length |-> length].length = length
BY DEF GoodPiece

LEMMA TextIsSound ==
  ASSUME NEW stream, Sound(stream), NEW length \in Nat
  PROVE  Sound(AppendText(stream, length))
BY OtherPieces, PieceIsSound DEF AppendText

\* So does a number that is shorter than the room it asks for, and it leaves
\* the place for its NUL.
LEMMA NumberIsSound ==
  ASSUME NEW stream, Sound(stream), NEW number,
         number.length \in 1..(MaxNumericSize - 1), GoodPiece(number)
  PROVE  Sound(AppendNumber(stream, number))
<1>1. Size \in Nat /\ MaxNumericSize \in Nat
  BY SizeAssumption
<1>2. CASE HasRoom(stream)
  <2>1. stream.cursor + number.length \in Nat /\ stream.cursor + number.length < Size
    BY <1>1, <1>2 DEF HasRoom, Avail, Sound, InBuffer
  <2>2. WellWritten(Append(stream.pieces, number))
    BY PieceAppended DEF Sound
  <2> QED
    BY <1>2, <2>1, <2>2 DEF AppendNumber, Write, Sound, InBuffer
<1>3. CASE ~HasRoom(stream)
  BY <1>3 DEF AppendNumber
<1> QED
  BY <1>2, <1>3

\* The numbers, pointers and doubles of the programs are that short.
LEMMA IntegerIsSound ==
  ASSUME NEW stream, Sound(stream), NEW n \in Numbers
  PROVE  Sound(AppendNumber(stream, Convert(n)))
<1>1. n \in Int /\ Convert(n).length \in 1..(MaxNumericSize - 1)
  BY NumberAssumption
<1> QED
  BY <1>1, ConvertIsGood, NumberIsSound

LEMMA PointerIsSound ==
  ASSUME NEW stream, Sound(stream), NEW p \in Pointers
  PROVE  Sound(AppendNumber(stream, ConvertHex(p)))
<1>1. p \in Nat /\ ConvertHex(p).length \in 1..(MaxNumericSize - 1)
  BY NumberAssumption
<1> QED
  BY <1>1, ConvertHexIsGood, NumberIsSound

LEMMA DoubleIsSound ==
  ASSUME NEW stream, Sound(stream), NEW length \in Doubles
  PROVE  Sound(AppendDouble(stream, length))
<1>1. length \in 1..(MaxNumericSize - 1)
  BY NumberAssumption
<1> QED
  BY <1>1, OtherPieces, NumberIsSound DEF AppendDouble

\* So are the quantities, which are texts.
LEMMA QuantityIsSound ==
  ASSUME NEW stream, Sound(stream), NEW n \in Quantities, NEW precision \in Precisions,
         NEW text \in FormatSI(n, precision) \cup FormatIEC(n, precision)
  PROVE  Sound(AppendPiece(stream, text))
<1>1. GoodPiece(text) /\ text.length \in Nat
  BY SIIsGood, IECIsGood
<1> QED
  BY <1>1, PieceIsSound

\* An empty line has no piece that is wrong.
LEMMA NothingWritten == WellWritten(<<>>)
<1>1. PICK Good : Good = {}
  OBVIOUS
<1>2. <<>> \in Seq(Good) /\ \A piece \in Good : GoodPiece(piece)
  BY <1>1
<1> QED
  BY <1>2 DEF WellWritten

\* A line starts with its header, which fills the buffer at most.
LEMMA HeaderIsSound == Sound(HeaderStream)
<1>1. Sound(EmptyStream)
  <2>1. InBuffer(EmptyStream)
    BY SizeAssumption DEF EmptyStream, InBuffer
  <2> QED
    BY <2>1, NothingWritten DEF EmptyStream, Sound
<1>2. /\ Header.time \in Nat /\ Header.micros \in Nat
      /\ Header.thread \in Nat /\ Header.level \in Nat
  BY LoggingAssumption
<1> QED
  BY <1>1, <1>2, TextIsSound DEF HeaderStream

-----------------------------------------------------------------------------
(* The invariant. *)

\* A Logger has these fields, and is in one of these phases.
Logger(l) ==
  /\ l = [phase |-> l.phase, level |-> l.level, second |-> l.second, time |-> l.time,
          marked |-> l.marked, stream |-> l.stream]
  /\ l.phase \in {"open", "finished", "flushing"}

LineType == line # NoLine => Logger(line) /\ Sound(line.stream)

\* The clock, the text that is kept and the line are of seconds of the program.
SecondsType ==
  /\ program \in Programs
  /\ ruled = [s \in program.seconds |-> ruled[s]]
  /\ clock \in program.seconds
  /\ lastSecond \in program.seconds \cup {0}
  /\ line # NoLine => line.second \in program.seconds

\* The zone that is in force was noted for the second that the clock shows, and
\* so was the zone of the text that is kept for its second.
TextIsOfItsSecond ==
  /\ zone \in ruled[clock]
  /\ lastSecond # 0 => /\ timeText.second = lastSecond
                       /\ timeText.zone \in ruled[lastSecond]

\* Whether a line is marked is not decided before its second has a zone.
SecondIsRuled == line # NoLine => ruled[line.second] # {}

Inv ==
  /\ LineType
  /\ SecondsType
  /\ TextIsOfItsSecond
  /\ SecondIsRuled
  /\ TimeIsOfItsSecond

\* What is known of the programs.
LEMMA ProgramFacts ==
  ASSUME NEW p \in Programs
  PROVE  /\ p.texts \subseteq Nat
         /\ p.numbers \subseteq Numbers
         /\ p.pointers \subseteq Pointers
         /\ p.doubles \subseteq Doubles
         /\ p.quantities \subseteq Quantities
         /\ p.seconds \subseteq Nat \ {0}
         /\ 1 \in p.seconds
BY LoggingAssumption

\* The program starts at the second 1 without a zone.
LEMMA InitInv == Init => Inv
<1> SUFFICES ASSUME Init PROVE Inv
  OBVIOUS
<1>1. program \in Programs /\ 1 \in program.seconds
  BY ProgramFacts DEF Init
<1>2. /\ clock = 1 /\ zone = NoZone /\ lastSecond = 0 /\ line = NoLine /\ ~aborted
      /\ ruled = [s \in program.seconds |-> IF s = 1 THEN {NoZone} ELSE {}]
  BY DEF Init
<1>3. ruled[1] = {NoZone} /\ ruled = [s \in program.seconds |-> ruled[s]]
  BY <1>1, <1>2
<1> QED
  BY <1>1, <1>2, <1>3
     DEF Inv, LineType, SecondsType, TextIsOfItsSecond, SecondIsRuled,
         TimeIsOfItsSecond

\* The Logger that exists has some stream, and gets another or another phase.
LEMMA LineMoves ==
  ASSUME Inv, line # NoLine, NEW stream, Sound(stream),
         NEW phase \in {"open", "finished", "flushing"},
         line' = [line EXCEPT !.phase = phase, !.stream = stream]
  PROVE  /\ Logger(line') /\ Sound(line'.stream) /\ line' # NoLine
         /\ line'.second = line.second /\ line'.time = line.time
         /\ line'.marked = line.marked /\ line'.phase = phase
<1>1. Logger(line)
  BY DEF Inv, LineType
<1>2. line' = [phase |-> phase, level |-> line.level, second |-> line.second,
               time |-> line.time, marked |-> line.marked, stream |-> stream]
  BY <1>1 DEF Logger
<1> QED
  BY <1>2 DEF Logger, NoLine

\* What was written so far is in the buffer.
LEMMA WrittenIsSound ==
  ASSUME Inv, line # NoLine
  PROVE  Sound(line.stream) /\ Sound(Written)
<1>1. Sound(line.stream)
  BY DEF Inv, LineType
<1>2. Written = [cursor |-> line.stream.cursor, pieces |-> <<>>]
  BY <1>1 DEF Written, Forget, Sound, InBuffer
<1> QED
  BY <1>1, <1>2, NothingWritten DEF Sound, InBuffer

\* A step that leaves the Logger its second, its time and its mark, and the
\* clock, the zone and the text as they are, or ends the Logger.
LEMMA SameTime ==
  ASSUME Inv, UNCHANGED <<program, clock, zone, lastSecond, timeText, ruled>>,
         \/ line' = NoLine
         \/ /\ line # NoLine
            /\ line'.second = line.second /\ line'.time = line.time
            /\ line'.marked = line.marked
  PROVE  (SecondsType /\ TextIsOfItsSecond /\ SecondIsRuled /\ TimeIsOfItsSecond)'
BY DEF Inv, SecondsType, TextIsOfItsSecond, SecondIsRuled, TimeIsOfItsSecond

\* A step by which another zone rules, or the same zone another second.
LEMMA MoreRuled ==
  ASSUME Inv, NEW second \in program.seconds, NEW z,
         clock' = second, zone' = z, ruled' = Rules(second, z),
         UNCHANGED <<program, line, lastSecond, timeText>>
  PROVE  (SecondsType /\ TextIsOfItsSecond /\ SecondIsRuled /\ TimeIsOfItsSecond)'
<1>1. \A s \in program.seconds :
        ruled'[s] = IF s = second THEN ruled[s] \cup {z} ELSE ruled[s]
  BY DEF Inv, SecondsType, Rules
<1>2. ruled' = [s \in program.seconds |-> ruled'[s]]
  BY DEF Inv, SecondsType, Rules
<1>3. SecondsType'
  BY <1>2 DEF Inv, SecondsType
<1>4. TextIsOfItsSecond'
  <2>1. lastSecond \in program.seconds \cup {0}
    BY DEF Inv, SecondsType
  <2> QED
    BY <1>1, <2>1 DEF Inv, TextIsOfItsSecond
<1>5. SecondIsRuled'
  BY <1>1 DEF Inv, SecondsType, SecondIsRuled
<1>6. TimeIsOfItsSecond'
  <2> SUFFICES ASSUME line # NoLine
               PROVE  /\ line.time.second = line.second
                      /\ line.time.zone \in ruled'[line.second]
                      /\ ruled'[line.second] = {NoZone} => line.marked
                      /\ NoZone \notin ruled'[line.second] => ~line.marked
    BY DEF TimeIsOfItsSecond
  <2>1. line.second \in program.seconds
    BY DEF Inv, SecondsType
  <2>2. ruled[line.second] # {}
    BY DEF Inv, SecondIsRuled
  <2>3. ruled[line.second] \subseteq ruled'[line.second]
    BY <1>1, <2>1
  <2>4. ruled'[line.second] = {NoZone} => ruled[line.second] = {NoZone}
    BY <2>2, <2>3
  <2> QED
    BY <2>3, <2>4 DEF Inv, TimeIsOfItsSecond
<1> QED
  BY <1>3, <1>4, <1>5, <1>6

\* A new Logger takes the text of its second, or makes it.
LEMMA LineConstructed ==
  ASSUME Inv, NEW level, NEW stream, Sound(stream), Construct(level, stream)
  PROVE  Inv'
<1>1. /\ lastSecond' = clock
      /\ timeText' = IF Stale(clock) THEN [second |-> clock, zone |-> zone] ELSE timeText
      /\ line' = [phase |-> "open", level |-> level, second |-> clock,
                  time |-> timeText', marked |-> zone = NoZone, stream |-> stream]
      /\ UNCHANGED <<program, clock, zone, flush, unflushed, aborted, ruled>>
  BY DEF Construct, sinkVars
<1>2. /\ line'.phase = "open" /\ line'.second = clock /\ line'.time = timeText'
      /\ line'.marked = (zone = NoZone) /\ line'.stream = stream
      /\ line' # NoLine
  BY <1>1 DEF NoLine
<1>3. LineType'
  BY <1>1, <1>2 DEF LineType, Logger
<1>4. clock \in program.seconds /\ clock # 0 /\ zone \in ruled[clock]
  BY ProgramFacts DEF Inv, SecondsType, TextIsOfItsSecond
<1>5. SecondsType'
  BY <1>1, <1>2, <1>4 DEF Inv, SecondsType
<1>6. timeText'.second = clock /\ timeText'.zone \in ruled[clock]
  <2>1. CASE Stale(clock)
    BY <1>1, <1>4, <2>1
  <2>2. CASE ~Stale(clock)
    BY <1>1, <1>4, <2>2 DEF Inv, TextIsOfItsSecond, Stale
  <2> QED
    BY <2>1, <2>2
<1>7. TextIsOfItsSecond'
  BY <1>1, <1>4, <1>6 DEF TextIsOfItsSecond
<1>8. SecondIsRuled' /\ TimeIsOfItsSecond'
  BY <1>1, <1>2, <1>4, <1>6 DEF SecondIsRuled, TimeIsOfItsSecond
<1> QED
  BY <1>3, <1>5, <1>7, <1>8 DEF Inv

\* Something is streamed to it.
LEMMA LineStreamed ==
  ASSUME Inv, NEW stream, Sound(stream), Stream(stream)
  PROVE  Inv'
<1>1. /\ line # NoLine
      /\ line' = [line EXCEPT !.stream = stream]
      /\ UNCHANGED <<program, clock, zone, lastSecond, timeText, ruled, flush, unflushed,
                     aborted>>
  BY DEF Stream, NoLine, sinkVars
<1>2. Logger(line) /\ line.phase = "open"
  BY <1>1 DEF Inv, LineType, Stream
<1>3. line' = [line EXCEPT !.phase = "open", !.stream = stream]
  BY <1>1, <1>2 DEF Logger
<1>4. /\ Logger(line') /\ Sound(line'.stream)
      /\ line'.second = line.second /\ line'.time = line.time /\ line'.marked = line.marked
  BY <1>1, <1>3, LineMoves
<1>5. (SecondsType /\ TextIsOfItsSecond /\ SecondIsRuled /\ TimeIsOfItsSecond)'
  BY <1>1, <1>4, SameTime
<1> QED
  BY <1>1, <1>4, <1>5 DEF Inv, LineType

\* finish(): the file and the line of the code.
LEMMA LineFinished ==
  ASSUME Inv, NEW file \in program.texts, Finish(file)
  PROVE  Inv'
<1> DEFINE stream == Finished(Written, file)
<1>1. /\ line # NoLine
      /\ line' = [line EXCEPT !.phase = "finished", !.stream = stream]
      /\ UNCHANGED <<program, clock, zone, lastSecond, timeText, ruled, flush, unflushed,
                     aborted>>
  BY DEF Finish, NoLine, sinkVars
<1>2. Sound(stream)
  <2>1. file \in Nat /\ Sound(Written) /\ LineNumber \in Numbers
    BY <1>1, ProgramFacts, WrittenIsSound, LoggingAssumption DEF Inv, SecondsType
  <2>2. Sound(AppendText(AppendText(AppendText(Written, 3), file), 1))
    BY <2>1, TextIsSound
  <2> QED
    BY <2>1, <2>2, IntegerIsSound, TextIsSound DEF Finished
<1> HIDE DEF stream
<1>3. /\ Logger(line') /\ Sound(line'.stream)
      /\ line'.second = line.second /\ line'.time = line.time /\ line'.marked = line.marked
  BY <1>1, <1>2, LineMoves
<1>4. (SecondsType /\ TextIsOfItsSecond /\ SecondIsRuled /\ TimeIsOfItsSecond)'
  BY <1>1, <1>3, SameTime
<1> QED
  BY <1>1, <1>3, <1>4 DEF Inv, LineType

\* The line goes to its sink.
LEMMA LineOutput ==
  ASSUME Inv, Output, ~aborted
  PROVE  Inv'
<1>1. /\ line # NoLine
      /\ line' = NoLine \/ line' = [line EXCEPT !.phase = "flushing"]
      /\ UNCHANGED <<program, clock, zone, lastSecond, timeText, ruled, flush, aborted>>
  BY DEF Output, NoLine
<1>2. CASE line' = NoLine
  <2>1. (SecondsType /\ TextIsOfItsSecond /\ SecondIsRuled /\ TimeIsOfItsSecond)'
    BY <1>1, <1>2, SameTime
  <2> QED
    BY <1>1, <1>2, <2>1 DEF Inv, LineType
<1>3. CASE line' = [line EXCEPT !.phase = "flushing"]
  <2>1. Logger(line) /\ Sound(line.stream)
    BY <1>1 DEF Inv, LineType
  <2>2. line' = [line EXCEPT !.phase = "flushing", !.stream = line.stream]
    BY <1>3, <2>1 DEF Logger
  <2>3. PICK stream : stream = line.stream
    OBVIOUS
  <2>4. /\ Logger(line') /\ Sound(line'.stream)
        /\ line'.second = line.second /\ line'.time = line.time /\ line'.marked = line.marked
    BY <1>1, <2>1, <2>2, <2>3, LineMoves
  <2>5. (SecondsType /\ TextIsOfItsSecond /\ SecondIsRuled /\ TimeIsOfItsSecond)'
    BY <1>1, <2>4, SameTime
  <2> QED
    BY <1>1, <2>4, <2>5 DEF Inv, LineType
<1> QED
  BY <1>1, <1>2, <1>3

-----------------------------------------------------------------------------
(* The invariant holds. *)

\* What is streamed fits, or is left out.
LEMMA AnyStreamed ==
  ASSUME Inv, StreamAny
  PROVE  Inv'
<1>1. /\ program \in Programs
      /\ \A n \in program.quantities : n \in Quantities
  BY ProgramFacts DEF Inv, SecondsType
<1>2. ASSUME line # NoLine PROVE Sound(Written)
  BY <1>2, WrittenIsSound
<1>3. ASSUME NEW length \in program.texts, Stream(AppendText(Written, length))
      PROVE  Inv'
  <2>1. line # NoLine /\ length \in Nat
    BY <1>1, <1>3, ProgramFacts DEF Stream, NoLine
  <2> QED
    BY <1>2, <1>3, <2>1, TextIsSound, LineStreamed
<1>4. ASSUME NEW n \in program.numbers, Stream(AppendNumber(Written, Convert(n)))
      PROVE  Inv'
  <2>1. line # NoLine /\ n \in Numbers
    BY <1>1, <1>4, ProgramFacts DEF Stream, NoLine
  <2> QED
    BY <1>2, <1>4, <2>1, IntegerIsSound, LineStreamed
<1>5. ASSUME NEW p \in program.pointers, Stream(AppendNumber(Written, ConvertHex(p)))
      PROVE  Inv'
  <2>1. line # NoLine /\ p \in Pointers
    BY <1>1, <1>5, ProgramFacts DEF Stream, NoLine
  <2> QED
    BY <1>2, <1>5, <2>1, PointerIsSound, LineStreamed
<1>6. ASSUME NEW length \in program.doubles, Stream(AppendDouble(Written, length))
      PROVE  Inv'
  <2>1. line # NoLine /\ length \in Doubles
    BY <1>1, <1>6, ProgramFacts DEF Stream, NoLine
  <2> QED
    BY <1>2, <1>6, <2>1, DoubleIsSound, LineStreamed
<1>7. ASSUME NEW n \in program.quantities, NEW precision \in Precisions,
             NEW text \in FormatSI(n, precision) \cup FormatIEC(n, precision),
             Stream(AppendPiece(Written, text))
      PROVE  Inv'
  <2>1. line # NoLine
    BY <1>7 DEF Stream, NoLine
  <2>2. n \in Quantities
    BY <1>1
  <2> QED
    BY <1>2, <1>7, <2>1, <2>2, QuantityIsSound, LineStreamed
<1> QED
  BY <1>3, <1>4, <1>5, <1>6, <1>7 DEF StreamAny

\* So do the texts that the constructors write.
LEMMA AnyConstructed ==
  ASSUME Inv, ConstructAny
  PROVE  Inv'
<1>1. program \in Programs
  BY DEF Inv, SecondsType
<1>2. \A length \in program.texts : length \in Nat
  BY <1>1, ProgramFacts
<1>3. \A length \in program.texts : Sound(FunctionStream(length))
  BY <1>2, HeaderIsSound, TextIsSound DEF FunctionStream
<1>4. ASSUME NEW length \in program.texts, NEW errno \in program.numbers
      PROVE  Sound(ErrnoStream(length, errno))
  <2>1. errno \in Numbers
    BY <1>1, ProgramFacts
  <2>2. Sound(AppendText(AppendText(HeaderStream, length), 8))
    BY <1>2, HeaderIsSound, TextIsSound
  <2> QED
    BY <2>1, <2>2, IntegerIsSound, TextIsSound DEF ErrnoStream
<1> QED
  BY <1>3, <1>4, HeaderIsSound, LineConstructed DEF ConstructAny

\* The invariant is inductive: one step for each action.
LEMMA StepInv ==
  ASSUME Inv, [Next]_vars
  PROVE  Inv'
<1> USE DEF sinkVars
<1>1. ASSUME NEW second \in program.seconds, SetClock(second) PROVE Inv'
  <2>1. (SecondsType /\ TextIsOfItsSecond /\ SecondIsRuled /\ TimeIsOfItsSecond)'
    <3>1. PICK z : z = zone
      OBVIOUS
    <3> QED
      BY <1>1, <3>1, MoreRuled DEF SetClock
  <2> QED
    BY <1>1, <2>1 DEF SetClock, Inv, LineType
<1>2. ASSUME NEW z \in program.zones \cup {NoZone}, SetTimeZone(z) PROVE Inv'
  <2>1. (SecondsType /\ TextIsOfItsSecond /\ SecondIsRuled /\ TimeIsOfItsSecond)'
    <3>1. PICK second \in program.seconds : second = clock
      BY DEF Inv, SecondsType
    <3> QED
      BY <1>2, <3>1, MoreRuled DEF SetTimeZone
  <2> QED
    BY <1>2, <2>1 DEF SetTimeZone, Inv, LineType
<1>3. ASSUME UNCHANGED <<program, clock, zone, lastSecond, timeText, line, ruled>>
      PROVE  Inv'
  BY <1>3 DEF Inv, LineType, SecondsType, TextIsOfItsSecond, SecondIsRuled,
              TimeIsOfItsSecond
<1>4. ASSUME NEW level, SetLogLevel(level) PROVE Inv'
  BY <1>3, <1>4 DEF SetLogLevel
<1>5. ASSUME NEW sink, ~aborted, SetOutput(sink) \/ SetFlush(sink) \/ SinkEmpties(sink)
      PROVE  Inv'
  BY <1>3, <1>5 DEF SetOutput, SetFlush, SinkEmpties
<1>6. ASSUME ~aborted, NEW file \in program.texts, Finish(file) PROVE Inv'
  BY <1>6, LineFinished
<1>7. ASSUME ~aborted, Output PROVE Inv'
  BY <1>7, LineOutput
<1>8. ASSUME Abort PROVE Inv'
  BY <1>3, <1>8 DEF Abort
<1>9. ASSUME UNCHANGED vars PROVE Inv'
  BY <1>3, <1>9 DEF vars
<1> QED
  BY <1>1, <1>2, <1>4, <1>5, <1>6, <1>7, <1>8, <1>9, AnyConstructed, AnyStreamed DEF Next

LEMMA Invariance == Spec => []Inv
BY InitInv, StepInv, PTL DEF Spec

\* Whatever is streamed to a line, and however often, nothing is written behind
\* the end of its buffer: not a text, not the longest number, nor its NUL.
THEOREM NothingOverflows == Spec => []CursorInBuffer
<1>1. Inv => CursorInBuffer
  BY DEF Inv, LineType, Sound, InBuffer, CursorInBuffer
<1> QED
  BY <1>1, Invariance, PTL

\* A line shows its own second, in a zone that was in force in that second,
\* although the text is made once a second, another thread may set another zone
\* at any time and the clock may be set back.
THEOREM TimesAreOfTheirSeconds == Spec => []TimeIsOfItsSecond
<1>1. Inv => TimeIsOfItsSecond
  BY DEF Inv
<1> QED
  BY <1>1, Invariance, PTL

\* What is known of each piece of a line.
LEMMA PiecesAreGood ==
  ASSUME Inv, line # NoLine, NEW i \in DOMAIN line.stream.pieces
  PROVE  GoodPiece(line.stream.pieces[i])
<1>1. PICK Good : line.stream.pieces \in Seq(Good) /\ \A piece \in Good : GoodPiece(piece)
  BY DEF Inv, LineType, Sound, WellWritten
<1> QED
  BY <1>1

\* Every number can be read back from its digits: those of the remainders, also of
\* negative ones, spell it, whatever its size; the only one that starts with a 0 is 0.
THEOREM NumbersAreSpelled == Spec => []NumbersReadBack
<1>1. Inv => NumbersReadBack
  BY PiecesAreGood DEF GoodPiece, NumbersReadBack
<1> QED
  BY <1>1, Invariance, PTL

\* formatIEC() keeps to its length whatever the integer is, formatSI() up to the
\* precision, and up to it both are off by half of the last place at most, in every
\* unit: what is rounded is a multiple of twice its scale, so that the error of the
\* quotient is too small to matter.
THEOREM QuantitiesFit == Spec => []QuantitiesAreShortAndClose
<1>1. ASSUME Inv, line # NoLine, NEW piece \in QuantitiesOf(line)
      PROVE  ShortAndClose(piece)
  <2>1. piece \in Range(line.stream.pieces) /\ piece.kind = "quantity"
    BY DEF QuantitiesOf, ToSet, Range
  <2>2. PICK i \in DOMAIN line.stream.pieces : piece = line.stream.pieces[i]
    BY <2>1 DEF Range
  <2> QED
    BY <1>1, <2>1, <2>2, PiecesAreGood DEF GoodPiece
<1>2. Inv => QuantitiesAreShortAndClose
  BY <1>1 DEF QuantitiesAreShortAndClose
<1> QED
  BY <1>2, Invariance, PTL

=============================================================================
