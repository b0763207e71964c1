---- MODULE ClockTime ----
(***************************************************************************)
(* The clock times of the form: what a text means that is typed into a     *)
(* time field, and what the form fills in by itself.  A time is the number *)
(* of minutes since midnight.  A text is a sequence of digits, Colon and   *)
(* Point; the decimal comma is read as the point is, and no other          *)
(* character gets into a field (filterTimeInput).                          *)
(***************************************************************************)
EXTENDS Integers, SequencesExt

CONSTANT None    \* no time

LastMinute == 1439

Digit == 0..9
Colon == 10
Point == 11

Symbol == Digit \cup {Colon, Point}

\* filterTimeInput: what a field holds of what is typed.
FieldSize == 8

\* validateClockTime
Clock(h, m) == IF h \in 0..23 /\ m \in 0..59 THEN 60 * h + m ELSE None

\* 10 ^ k
Ten(k) == <<10, 100, 1000, 10000, 100000, 1000000>>[k]

\* The number in places i to j of a text: of eight symbols with a point, six at most.
Number(t, i, j) ==
    LET digit(k) == IF i <= j - k THEN t[j - k] ELSE 0
    IN  digit(0) + 10 * (digit(1) + 10 * (digit(2)
            + 10 * (digit(3) + 10 * (digit(4) + 10 * digit(5)))))

Marks(t) == {i \in 1..Len(t) : t[i] \notin Digit}

\* The quotient a / b, a half is rounded up.
Round(a, b) == (2 * a + b) \div (2 * b)

\* Mutant: a fraction of an hour is cut off, not rounded.
HoursCut(t, i) ==
    60 * Number(t, 1, i - 1)
    + (60 * Number(t, i + 1, Len(t))) \div Ten(Len(t) - i)

\* The minutes of a decimal number of hours with its point at place i.  parseFloat is exact
\* enough for two decimals; of three, the code may round a half either way.
Hours(t, i) ==
    60 * Number(t, 1, i - 1)
    + Round(60 * Number(t, i + 1, Len(t)), Ten(Len(t) - i))

\* One or two digits are hours; of three or four the last two are minutes.
ParseDigits(t) ==
    LET n == Len(t)
    IN  CASE n \in 1..2 -> Clock(Number(t, 1, n), 0)
          [] n \in 3..4 -> Clock(Number(t, 1, n - 2), Number(t, n - 1, n))
          [] OTHER -> None

\* parseTime
ParseTime(t) ==
    LET n == Len(t)
        i == Min(Marks(t))
        j == Max(Marks(t))
        short(first, last) == last - first \in 0..1
    IN  CASE Marks(t) = {} -> ParseDigits(t)
          [] Marks(t) = {i} /\ t[i] = Colon /\ short(1, i - 1) /\ short(i + 1, n) ->
                Clock(Number(t, 1, i - 1), Number(t, i + 1, n))
          [] Marks(t) = {i} /\ t[i] = Point /\ 1 < i /\ i < n ->
                Clock(Hours(t, i) \div 60, Hours(t, i) % 60)
          [] i < j /\ Marks(t) = {i, j} /\ t[i] = Colon /\ t[j] = Colon
             /\ short(1, i - 1) /\ short(i + 1, j - 1) /\ short(j + 1, n) ->
                IF Number(t, j + 1, n) > 59 THEN None
                ELSE Clock(Number(t, 1, i - 1), Number(t, i + 1, j - 1))
          [] OTHER -> None

\* defaultFormTimes: the last five minutes' mark, for an hour.
DefaultTimes(now) ==
    LET start == 5 * (now \div 5)
    IN  [start |-> start, end |-> (start + 60) % 1440]

\* Mutant: the end is not held back at midnight.
NextTimesUncapped(start, end) == [start |-> end, end |-> (2 * end - start) % 1440]

\* nextFormTimes: from the end on, as long again, but not past midnight.
NextTimes(start, end) ==
    LET next == 2 * end - start
    IN  [start |-> end, end |-> IF next <= LastMinute THEN next ELSE LastMinute]

----------------------------------------------------------------------------
(* The other way round: how a time may be written. *)

CONSTANTS
    Symbols,      \* bound: the symbols of the texts that are compared
    MaxLength     \* bound: how many of them

Texts == BoundedSeq(Symbols, MaxLength)

\* n in up to width digits, with leading zeros or without.
Numerals(n, width) ==
    {[i \in 1..w |-> IF i = w THEN n % 10 ELSE (n \div Ten(w - i)) % 10] :
        w \in {v \in 1..width : n < Ten(v)}}

\* The hundredths of an hour that are rounded to m minutes.
Hundredths(m) == {x \in 0..99 : 3 * x - 5 * m \in -2 .. 2}

Fractions(m) ==
    {<<x \div 10, x % 10>> : x \in Hundredths(m)}
    \cup {<<x \div 10>> : x \in {y \in Hundredths(m) : y % 10 = 0}}

\* h (a whole hour), h:m, h:m:s, hmm or hhmm, hours with tenths or hundredths.
Writings(h, m) ==
    LET hour == Numerals(h, 2)
        minute == Numerals(m, 2)
        second == UNION {Numerals(s, 2) : s \in 0..59}
    IN  (IF m = 0 THEN hour ELSE {})
        \cup {a \o <<Colon>> \o b : a \in hour, b \in minute}
        \cup {a \o <<Colon>> \o b \o <<Colon>> \o c : a \in hour, b \in minute, c \in second}
        \cup {a \o <<m \div 10, m % 10>> : a \in hour}
        \cup {a \o <<Point>> \o b : a \in Numerals(h, FieldSize - 2), b \in Fractions(m)}

\* A way to write a time is read as that time.
WritingsRead ==
    \A h \in 0..23, m \in 0..59 : \A t \in Writings(h, m) : ParseTime(t) = 60 * h + m

\* What is read as a time is a way to write it.
ReadingsWritten ==
    \A t \in Texts :
        LET time == ParseTime(t)
            exact == \A i \in Marks(t) : t[i] = Point => Len(t) - i <= 2
        IN  time # None /\ exact => t \in Writings(time \div 60, time % 60)

Agreement == WritingsRead /\ ReadingsWritten
====
