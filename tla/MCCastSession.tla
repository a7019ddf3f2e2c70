--------------------------- MODULE MCCastSession ----------------------------
(***************************************************************************)
(* The columns TLC scans in CastSession: every kind of value, the integer  *)
(* kinds at the ends of their ranges, and one container of each kind.      *)
(***************************************************************************)
EXTENDS CastSession

StrA == <<97>>

MCColumns ==
    { BoolValue(TRUE),             BoolValue(FALSE),
      Int8Value(-(2^(W8 - 1))),    Int8Value(2^(W8 - 1) - 1),
      Int16Value(-(2^(W16 - 1))),  Int16Value(2^(W16 - 1) - 1),
      Int32Value(-(2^(W32 - 1))),  Int32Value(2^(W32 - 1) - 1),
      Int64Value(-(2^(W64 - 1))),  Int64Value(2^(W64 - 1) - 1),
      Uint8Value(0),               Uint8Value(2^W8 - 1),
      Uint16Value(2^W16 - 1),      Uint32Value(2^W32 - 1),
      Uint64Value(2^(W64 - 1) - 1), Uint64Value(2^W64 - 1),
      FloatValue(1),               DoubleValue(-1),
      DateValue(2^W32 - 1),        DatetimeValue(2^W32 - 1),
      TimestampValue(2^W64 - 1),   IntervalValue(-(2^(W64 - 1))),
      IntervalValue(0),            IntervalValue(-1),
      IntervalValue((Hour * hoursPerDay + Hour + Minute + Second) \div Microsecond + 1),
      IntervalValue(-((3 * Hour * hoursPerDay + Minute) \div Microsecond)),
      IntervalValue((2^(W64 - 1) - 1) \div Microsecond),
      TextValue(StrA),             BytesValue(<<>>),
      YSONValue(StrA),             JSONValue(StrA),
      JSONDocumentValue(StrA),     DyNumberValue(StrA),
      TzDateValue(StrA),           TzDatetimeValue(StrA),
      TzTimestampValue(StrA),
      UUIDValue(BigEndianUint128(1, 2)),
      DecimalValue(BigEndianUint128(0, 1), 22, 9),
      VoidValue,
      ListValue(<<Int32Value(1)>>),
      StructValue(<<StructValueField(StrA, Int32Value(1))>>),
      DictValue(<<DictValueField(Int32Value(1), Int32Value(2))>>) }

\* Times around the epoch, around the end of a Datetime, and around the
\* longest duration.
MCTimes ==
    LET day == Second * secondsPerDay
        maxDuration == 2^(W64 - 1) - 1
    IN  { -day, -Second, 1 - Second, -Microsecond, -1, 0, 1, Second + 1, day + Second,
          2^W32 * Second - 1, 2^W32 * Second,
          maxDuration - day, maxDuration, maxDuration + 1, maxDuration + day }
=============================================================================
