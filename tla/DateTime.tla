------------------------------ MODULE DateTime -------------------------------
(***************************************************************************)
(* DateTime (opcua/types/date_time.h, date_time.cpp, date_time_posix.cpp)  *)
(* between its ticks and its text, by way of Duration (duration.h,         *)
(* duration.cpp).                                                          *)
(*                                                                         *)
(* The code's units have the same names and smaller ratios here.  What     *)
(* matters of them is kept: doubles hold every tick near the origin, only  *)
(* even ones further out, then not even every millisecond; and ticks reach *)
(* years that do not fit the text.  Months, days, hours and minutes are    *)
(* left out: a time of year is a second of it.                             *)
(***************************************************************************)
EXTENDS Integers

kTicksPerMicrosecond == 3
kMicrosecondsPerMillisecond == 4
kMillisecondsPerSecond == 5
SecondsPerYear == 2
TicksPerMillisecond == kTicksPerMicrosecond * kMicrosecondsPerMillisecond

OriginYear == 3         \* 1601
UnixYear == 5           \* 1970
MaxYear == 24           \* 9999, the last that "%Y" reads
MaxInt64 == 2^12 - 1
kTimeTToMicrosecondsOffset ==
    (UnixYear - OriginYear) * SecondsPerYear * kMillisecondsPerSecond * kMicrosecondsPerMillisecond

(***************************************************************************)
(* Doubles of 2^9 significant units.  A double is written as a number of   *)
(* Fractions, of which there are enough for every double used here.        *)
(***************************************************************************)
Precision == 2^9
Fractions == 2^16
Spacing(n, d) ==
    LET size == IF n < 0 THEN -n ELSE n
    IN  CHOOSE s \in {2^k : k \in 0..19} :
            s * Precision * d >= size /\ (s = 1 \/ s * Precision * d < 2 * size)
\* The double nearest to n / d, the even one of two.
Nearest(n, d) ==
    LET s == Spacing(n, d)
        below == n \div (s * d)
        rest == n % (s * d)
        up == 2 * rest > s * d \/ (2 * rest = s * d /\ below % 2 = 1)
    IN  s * (IF up THEN below + 1 ELSE below)
AsDouble(n) == Nearest(n * Fractions, 1)

\* The cast of a double to an integer drops the fraction, towards zero.
Trunc(x) == IF x < 0 THEN -((-x) \div Fractions) ELSE x \div Fractions
SaturatingTrunc(x) ==
    CASE Trunc(x) > MaxInt64 -> MaxInt64
      [] Trunc(x) < -MaxInt64 - 1 -> -MaxInt64 - 1
      [] OTHER -> Trunc(x)

\* A Duration holds its milliseconds; each step to it and from it rounds.
FromMicrosecondsD(us) == Nearest(us, kMicrosecondsPerMillisecond)
ToDeltaSinceWindowsEpoch(ticks) ==
    FromMicrosecondsD(Nearest(AsDouble(ticks), kTicksPerMicrosecond))
InMicrosecondsF(duration) == Nearest(duration * kMicrosecondsPerMillisecond, 1)
InMicroseconds(duration) == SaturatingTrunc(InMicrosecondsF(duration))

(***************************************************************************)
(* The calendar of the C library, in UTC.                                  *)
(***************************************************************************)
gmtime(seconds) ==
    [year |-> UnixYear + (seconds \div SecondsPerYear), second |-> seconds % SecondsPerYear]
timegm(e) == (e.year - UnixYear) * SecondsPerYear + e.second

(***************************************************************************)
(* Ticks to fields and back.                                               *)
(***************************************************************************)
\* Both branches of the code, before and after 1970, round down.
UTCExplode(ticks) ==
    LET microseconds == InMicroseconds(ToDeltaSinceWindowsEpoch(ticks)) - kTimeTToMicrosecondsOffset
        milliseconds == microseconds \div kMicrosecondsPerMillisecond
        date == gmtime(milliseconds \div kMillisecondsPerSecond)
    IN  [year |-> date.year, second |-> date.second,
         millisecond |-> milliseconds % kMillisecondsPerSecond]

\* Of all fields but the day of the week.
ExplodedMostlyEquals(a, b) == a = b

NoTime == <<>>
\* The ticks of the fields.
TicksOf(exploded) ==
    LET milliseconds == timegm(exploded) * kMillisecondsPerSecond + exploded.millisecond
        microseconds == milliseconds * kMicrosecondsPerMillisecond + kTimeTToMicrosecondsOffset
    IN  microseconds * kTicksPerMicrosecond
\* The time of the fields, as <<time>>, if it has these fields again.
FromUTCExploded(exploded) ==
    LET time == TicksOf(exploded)
    IN  IF ExplodedMostlyEquals(UTCExplode(time), exploded) THEN <<time>> ELSE NoTime

(***************************************************************************)
(* Fields to text and back.  A text is its fields; "%Y" reads four digits  *)
(* and no sign, and a fraction that was left out is zero.                  *)
(***************************************************************************)
NullText == [year |-> 1, second |-> 0, millisecond |-> 0]

FromUTCString(text) ==
    IF text.year \in 0..MaxYear THEN FromUTCExploded(text) ELSE NoTime

\* Times whose text can be read back: it has a year of four digits and names a
\* millisecond that a double holds.  And those it says exactly: such milliseconds,
\* other than the one that stands for null.
IsHeld(ticks) == AsDouble(ticks) = ticks * Fractions
IsLegible(ticks) ==
    LET text == UTCExplode(ticks) IN text.year \in 0..MaxYear /\ IsHeld(TicksOf(text))
IsSaidExactly(ticks) ==
    /\ ticks % TicksPerMillisecond = 0 /\ IsHeld(ticks)
    /\ ticks # 0 => UTCExplode(ticks) # NullText
=============================================================================
