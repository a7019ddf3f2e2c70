---------------------------- MODULE CastSession -----------------------------
(***************************************************************************)
(* A caller that reads a column and scans it into a destination of a Go    *)
(* type: the value under the cursor, wrapped as a result set wraps it      *)
(* (optional, NULL, tuple, variant), and one call of castTo.               *)
(***************************************************************************)
EXTENDS YdbCast, YdbTime

CONSTANTS
    Columns,            \* the values a column can hold before any wrapping
    Times,              \* the times and durations a column is made from
    VariantIndexes,     \* the indexes a variant is built with
    MaxNodes            \* bound: constructors in the value under the cursor

VARIABLES
    column,             \* the value under the cursor, Nil before the first row
    outcome,            \* what castTo wrote or returned, Nil before the call
    origin              \* the time the column was made from, if it was: none or one

vars == <<column, outcome, origin>>

-----------------------------------------------------------------------------
\* A row is read: the cursor holds a value and nothing is scanned yet.
Fetch == \E v \in Columns :
    /\ column' = v
    /\ outcome' = Nil
    /\ origin' = {}

\* A row that was written from a Go time, or from a duration, is read.
FromTime(t) ==
    {DateValueFromTime(t), DatetimeValueFromTime(t), TimestampValueFromTime(t)}
        \cup IF t \in IntRange(W64) THEN {IntervalValueFromDuration(t)} ELSE {}

FetchTime == \E t \in Times : \E v \in FromTime(t) :
    /\ column' = v
    /\ outcome' = Nil
    /\ origin' = {t}

\* The column becomes what a constructor makes of it.
Wrap(v) ==
    /\ column # Nil
    /\ outcome = Nil
    /\ ~IsPanic(v)
    /\ Nodes(v) <= MaxNodes
    /\ column' = v
    /\ UNCHANGED <<outcome, origin>>

WrapOptional == Wrap(OptionalValue(column))
WrapNull     == Wrap(NullValue(TypeOf(column)))
WrapTuple    == Wrap(TupleValue(<<column>>))
WrapPair     == Wrap(TupleValue(<<column, column>>))
\* A variant as a caller builds it from a tuple, and as the decoder builds it
\* around the value of the chosen alternative.
WrapVariantTuple == \E idx \in VariantIndexes : Wrap(VariantValueTuple(column, idx))
WrapVariant ==
    \E idx \in VariantIndexes : Wrap(VariantValue(column, idx, Tuple(<<TypeOf(column)>>)))

\* The caller scans the column into a destination of type dst.
Scan == \E dst \in Destinations :
    /\ column # Nil
    /\ outcome = Nil
    /\ outcome' = castTo(column, dst)
    /\ UNCHANGED <<column, origin>>

Init == column = Nil /\ outcome = Nil /\ origin = {}

Next ==
    \/ Fetch \/ FetchTime
    \/ WrapOptional \/ WrapNull \/ WrapTuple \/ WrapPair
    \/ WrapVariantTuple \/ WrapVariant
    \/ Scan

Spec == Init /\ [][Next]_vars

-----------------------------------------------------------------------------
(* What the properties speak of. *)

IntegerKinds  == {"Int8", "Int16", "Int32", "Int64", "Uint8", "Uint16", "Uint32", "Uint64"}
TemporalKinds == {"Date", "Datetime", "Timestamp", "Interval"}
NumericDst    == IntDst \cup UintDst \cup FloatDst

\* The value a chain of optionals, variants and tuples of one holds.
RECURSIVE Payload(_)
Payload(v) ==
    CASE v.kind = "Optional" /\ v.value # Nil  -> Payload(v.value)
      [] v.kind = "Variant"                    -> Payload(v.value)
      [] v.kind = "Tuple" /\ Len(v.items) = 1  -> Payload(v.items[1])
      [] OTHER                                 -> v

Wrote == outcome # Nil /\ "dst" \in DOMAIN outcome

\* The times a temporal kind, made from a Go time, stands for a count of
\* its unit: from the first that rounds to zero up to where the count, or
\* the duration since the epoch it is computed from, runs out.
FirstTime(kind) ==
    CASE kind = "Date"      -> 1 - Second
      [] kind = "Datetime"  -> 0
      [] kind = "Timestamp" -> 1 - Microsecond
Horizon(kind) ==
    CASE kind = "Date"      -> ((2^(W64 - 1) - 1) \div UnitOf.day + 1) * UnitOf.day
      [] kind = "Datetime"  -> 2^W32 * Second
      [] kind = "Timestamp" -> ((2^(W64 - 1) - 1) \div Microsecond + 1) * Microsecond

\* The duration an ISO 8601 text stands for, and the order its parts come in.
Designated == [D |-> Hour * hoursPerDay, H |-> Hour, M |-> Minute, S |-> Microsecond]
Read(text) ==
    LET size == FoldLeft(LAMBDA sum, part :
                             IF part.unit \in DOMAIN Designated
                             THEN sum + part.n * Designated[part.unit] ELSE sum,
                         0, text)
    IN  IF Head(text).unit = "-" THEN -size ELSE size
Layout == <<"-", "P", "D", "T", "H", "M", "S">>

\* The casts in which Go rounds: an integer type wider than the significand
\* of the floating-point destination.
Rounding == {<<"Int32", "float32">>, <<"Int64", "float64">>}

-----------------------------------------------------------------------------
(* Properties. *)

\* Type invariant.  A cast returns one of the two errors or reports a write
\* to a destination some castTo has a case for: every switch on the type
\* of the destination ends in a default that returns the error.
TypeOK ==
    /\ column = Nil \/ column.kind \in
          IntegerKinds \cup TemporalKinds \cup
          {"Bool", "Float", "Double", "Decimal", "DyNumber", "JSON", "JSONDocument",
           "TzDate", "TzDatetime", "TzTimestamp", "Text", "Bytes", "YSON", "UUID", "Void",
           "Optional", "List", "Tuple", "Struct", "Dict", "Variant"}
    /\ origin \subseteq Times /\ Cardinality(origin) <= 1
    /\ \/ outcome \in {Nil, CastError, errOptionalNilValue}
       \/ outcome.dst \in Destinations \ {"other"}

\* The integer destinations a kind lists in its castTo are the ones that
\* hold every number of the kind: whatever an Int8 ... Uint64, or the count
\* of a Date, Datetime, Timestamp or Interval, is scanned into, through any
\* nesting of optionals, variants and one-item tuples, the destination holds
\* the number of the value; except that dateValue.castTo has a case for
\* *int32 where its payload is a uint32, so a Date reads back as another
\* number exactly from the sign bit of an int32 on.  The two casts in which
\* Go rounds to the nearest float are set apart.
CastIntegerExact ==
    LET p == Payload(column)
    IN  ( /\ Wrote
          /\ outcome.dst \in NumericDst
          /\ p.kind \in IntegerKinds \cup TemporalKinds
          /\ <<p.kind, outcome.dst>> \notin Rounding )
        => (outcome.n = p.n
               <=> ~(p.kind = "Date" /\ outcome.dst = "int32" /\ p.n >= 2^(W32 - 1)))

\* Scanning a value into a string or a byte slice gives the text toString()
\* gives (the text that orders dictionary keys), for every kind whose
\* toString() is modelled, through any nesting of optionals, variants and
\* one-item tuples; except that castTo formats every integer kind with
\* strconv.FormatInt(int64(v), 10) where uint64Value.toString() uses
\* FormatUint: the two texts of a Uint64 differ exactly from the sign bit
\* of an int64 on.
CastTextIsToStringBelowSignBit ==
    LET p == Payload(column)
    IN  ( /\ Wrote
          /\ outcome.dst \in TextDst
          /\ "s" \in DOMAIN outcome
          /\ StringModelled(p) )
        => (outcome.s = toString(p) <=> ~(p.kind = "Uint64" /\ p.n >= 2^(W64 - 1)))

\* A Go time made into a Date, Datetime or Timestamp and scanned back into
\* a *time.Time, through any wrapping, is the time cut to the unit of the
\* kind exactly for the times within the range of the kind; a duration
\* comes back cut to the microsecond whatever it is.  Before the epoch the
\* conversion to an unsigned count wraps, a Datetime wraps again from
\* 2^32 seconds on, and a Date and a Timestamp stand still where t.Sub
\* saturates (DateValueFromTime, DatetimeValueFromTime,
\* TimestampValueFromTime and IntervalValueFromDuration against the castTo
\* of the four kinds).
TimeSurvivesWithinItsRange ==
    \A t \in origin :
        (Wrote /\ outcome.dst \in {"time", "duration"}) =>
            LET kind == Payload(column).kind
                unit == UnitOf[outcome.unit]
            IN  outcome.n * unit = Quo(t, unit) * unit
                    <=> (kind # "Interval" => FirstTime(kind) <= t /\ t < Horizon(kind))

\* The text of an interval is the interval: read as an ISO 8601 duration it
\* gives back the duration of the value, its parts come in the order of the
\* standard, each at most once, with the T exactly before a part of the
\* time of day, and no part is as long as the unit above it.  It is said of
\* the intervals whose duration an int64 of nanoseconds holds; the interval
\* of no length is written as a bare P (intervalValue.toString: the sign,
\* the successive divisions and the remainders carried from one to the next).
IntervalTextReadsBack ==
    LET p == Payload(column)
    IN  (column # Nil /\ p.kind = "Interval" /\ p.n * Microsecond \in IntRange(W64)) =>
            LET text == intervalValue_toString(p)
                at   == [i \in DOMAIN text |-> CHOOSE k \in DOMAIN Layout : Layout[k] = text[i].unit]
            IN  /\ Read(text) = p.n * Microsecond
                /\ \A i, j \in DOMAIN text : i < j => at[i] < at[j]
                /\ (\E i \in DOMAIN text : text[i].unit = "T")
                       <=> (\E i \in DOMAIN text : text[i].unit \in {"H", "M", "S"})
                /\ \A i \in DOMAIN text :
                       /\ text[i].unit = "H" => text[i].n < hoursPerDay
                       /\ text[i].unit = "M" => text[i].n * Minute < Hour
                       /\ text[i].unit = "S" => text[i].n * Microsecond < Minute
                /\ Len(text) = 1 <=> p.n = 0
=============================================================================
