------------------------------ MODULE YdbTime -------------------------------
(***************************************************************************)
(* The temporal constructors of internal/value/value.go that take a Go     *)
(* time.  A time.Time is the nanoseconds since the epoch, of any size; a   *)
(* time.Duration is an int64 of nanoseconds.  t.Sub saturates, t.Unix()    *)
(* rounds down, the division of integers rounds toward zero, and the       *)
(* conversions to uint64 and uint32 keep the low bits.                     *)
(***************************************************************************)
EXTENDS YdbValue

CONSTANTS
    Microsecond,        \* time.Microsecond, in nanoseconds
    Second,             \* time.Second
    Minute,             \* time.Minute
    Hour,               \* time.Hour
    hoursPerDay,        \* the 24 of intervalValue.toString
    secondsPerDay

ASSUME Units == /\ {Microsecond, Second, Minute, Hour, hoursPerDay, secondsPerDay} \subseteq Nat \ {0}
                /\ Second % Microsecond = 0 /\ Minute % Second = 0 /\ Hour % Minute = 0
                /\ Second * secondsPerDay = Hour * hoursPerDay

\* a / b on Go integers.
Quo(a, b) == IF a < 0 THEN -((-a) \div b) ELSE a \div b

\* t.Sub(epoch)
SinceEpoch(t) == Max({-(2^(W64 - 1)), Min({t, 2^(W64 - 1) - 1})})

\* t.Unix()
Unix(t) == t \div Second

DateValueFromTime(t) ==
    DateValue(AsUint(W32, AsUint(W64, Quo(SinceEpoch(t), Second)) \div secondsPerDay))

DatetimeValueFromTime(t) == DatetimeValue(AsUint(W32, Unix(t)))

\* TimestampValueFromTime counting seconds.
TimestampValueFromTime_Seconds(t) == TimestampValue(AsUint(W64, Quo(SinceEpoch(t), Second)))
TimestampValueFromTime(t) == TimestampValue(AsUint(W64, Quo(SinceEpoch(t), Microsecond)))

IntervalValueFromDuration(v) == IntervalValue(Quo(v, Microsecond))

\* IntervalToDuration: time.Duration(n) * time.Microsecond, on an int64.
IntervalToDuration(n) == AsInt(W64, n * Microsecond)

(* intervalValue.toString(): an ISO 8601 duration.  The text is the         *)
(* sequence of what is written to the buffer: a sign, the P, the T, and a   *)
(* count with its designator; the seconds are printed with six decimals,    *)
(* which is their count of microseconds, rounded.                           *)
Written(n, designator) == [n |-> n, unit |-> designator]
Mark(c)                == <<Written(0, c)>>
Counted(n, designator) == IF n > 0 THEN <<Written(n, designator)>> ELSE <<>>

\* d after `if n := d / unit; n > 0 { d -= n * unit }`, and without the
\* subtraction.
Rest_Kept(d, n, unit) == d
Rest(d, n, unit) == IF n > 0 THEN d - n * unit ELSE d

intervalValue_toString(v) ==
    LET d0      == IntervalToDuration(v.n)
        d       == IF d0 < 0 THEN AsInt(W64, -d0) ELSE d0
        days    == Quo(Quo(d, Hour), hoursPerDay)
        d1      == Rest(d, days, Hour * hoursPerDay)
        hours   == Quo(d1, Hour)
        d2      == Rest(d1, hours, Hour)
        minutes == Quo(d2, Minute)
        d3      == Rest(d2, minutes, Minute)
    IN  (IF d0 < 0 THEN Mark("-") ELSE <<>>) \o Mark("P") \o Counted(days, "D")
            \o (IF d1 > 0 THEN Mark("T") ELSE <<>>)
            \o Counted(hours, "H") \o Counted(minutes, "M")
            \o (IF d3 > 0
                THEN <<Written((2 * d3 + Microsecond) \div (2 * Microsecond), "S")>>
                ELSE <<>>)

\* DateToTime, DatetimeToTime, TimestampToTime and IntervalToDuration: the
\* nanoseconds of one of the unit a count is in.
UnitOf == [day         |-> Second * secondsPerDay,
           second      |-> Second,
           microsecond |-> Microsecond]
=============================================================================
