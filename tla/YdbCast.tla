------------------------------ MODULE YdbCast -------------------------------
(***************************************************************************)
(* castTo of internal/value/value.go: what a value writes to the Go        *)
(* destination a caller scans it into.  Every kind accepts a set of        *)
(* destination types and converts its payload with a Go conversion; any    *)
(* other destination is an error and nothing is written.                   *)
(*                                                                         *)
(* A destination is named by its Go type.  The outcome of a cast is what   *)
(* was written, [dst, n | s | b | u128], or one of the two errors.         *)
(***************************************************************************)
EXTENDS YdbValue

CONSTANTS Mant32, Mant64    \* bits of the significand of float32 and float64

ASSUME Significands == /\ W16 < Mant32 /\ Mant32 < W32
                       /\ W32 < Mant64 /\ Mant64 < W64

-----------------------------------------------------------------------------
(* Destinations and outcomes. *)

IntDst   == {"int8", "int16", "int32", "int64"}
UintDst  == {"uint8", "uint16", "uint32", "uint64"}
FloatDst == {"float32", "float64"}
TextDst  == {"string", "bytes"}

\* "other" stands for every type no castTo has a case for.
Destinations ==
    IntDst \cup UintDst \cup FloatDst \cup TextDst \cup
    {"bool", "time", "duration", "array16", "other"}

CastError           == [kind |-> "castError"]
errOptionalNilValue == [kind |-> "errOptionalNilValue"]

WroteN(dst, x)    == [dst |-> dst, n |-> x]
WroteS(dst, x)    == [dst |-> dst, s |-> x]
WroteB(dst, x)    == [dst |-> dst, b |-> x]
WroteU128(dst, x) == [dst |-> dst, u128 |-> x]
\* A time or a duration, as the count the conversion started from and its unit.
WroteTime(dst, unit, x) == [dst |-> dst, unit |-> unit, n |-> x]

-----------------------------------------------------------------------------
(* Go conversions between numeric types. *)

DstWidth(dst) ==
    CASE dst \in {"int8", "uint8"}   -> W8
      [] dst \in {"int16", "uint16"} -> W16
      [] dst \in {"int32", "uint32"} -> W32
      [] dst \in {"int64", "uint64"} -> W64

Significand(dst) == IF dst = "float32" THEN Mant32 ELSE Mant64

\* The number of bits of a natural.
RECURSIVE BitLen(_)
BitLen(a) == IF a = 0 THEN 0 ELSE 1 + BitLen(a \div 2)

\* float32(x) and float64(x) of an integer: the nearest number with m
\* significant bits, a tie going to the even one.
RoundToFloat(m, x) ==
    LET a    == IF x < 0 THEN -x ELSE x
        unit == 2^(BitLen(a) - m)
        low  == (a \div unit) * unit
        near == CASE 2 * (a - low) < unit      -> low
                  [] 2 * (a - low) > unit      -> low + unit
                  [] (low \div unit) % 2 = 0   -> low
                  [] OTHER                     -> low + unit
    IN  IF BitLen(a) <= m THEN x
        ELSE IF x < 0 THEN -near ELSE near

\* T(x) for a numeric destination type T.
ConvertTo(dst, x) ==
    CASE dst \in IntDst   -> AsInt(DstWidth(dst), x)
      [] dst \in UintDst  -> AsUint(DstWidth(dst), x)
      [] dst \in FloatDst -> RoundToFloat(Significand(dst), x)

\* strconv.FormatInt(int64(v), 10) through a 32-bit integer.
FormatInt64_Narrowed(x) == FormatInt(AsInt(W32, x))
\* strconv.FormatInt(int64(v), 10), the text every integer kind casts to.
FormatInt64(x) == FormatInt(AsInt(W64, x))

-----------------------------------------------------------------------------
(* castTo of the scalar kinds. *)

\* The shape shared by the integer kinds: text through int64, and a
\* conversion to each numeric destination the kind has a case for.
IntegerCast(v, dst, accepted) ==
    CASE dst \in TextDst  -> WroteS(dst, FormatInt64(v.n))
      [] dst \in accepted -> WroteN(dst, ConvertTo(dst, v.n))
      [] OTHER            -> CastError

\* uint8Value.castTo with a case for *int8 among the others.
uint8Value_castTo_AlsoInt8(v, dst) ==
    IntegerCast(v, dst, {"uint64", "int64", "uint32", "int32", "uint16", "int16", "uint8",
                         "int8", "float64", "float32"})

int8Value_castTo(v, dst) ==
    IntegerCast(v, dst, {"int64", "int32", "int16", "int8", "float64", "float32"})
int16Value_castTo(v, dst) ==
    IntegerCast(v, dst, {"int64", "int32", "int16", "float64", "float32"})
int32Value_castTo(v, dst) ==
    IntegerCast(v, dst, {"int64", "int32", "float64", "float32"})
int64Value_castTo(v, dst) ==
    IntegerCast(v, dst, {"int64", "float64"})
uint8Value_castTo(v, dst) ==
    IntegerCast(v, dst, {"uint64", "int64", "uint32", "int32", "uint16", "int16", "uint8",
                         "float64", "float32"})
uint16Value_castTo(v, dst) ==
    IntegerCast(v, dst, {"uint64", "int64", "uint32", "int32", "uint16", "float32", "float64"})
uint32Value_castTo(v, dst) ==
    IntegerCast(v, dst, {"uint64", "int64", "uint32", "float64"})
uint64Value_castTo(v, dst) ==
    IntegerCast(v, dst, {"uint64"})

boolValue_castTo(v, dst) ==
    CASE dst = "bool"   -> WroteB(dst, v.b)
      [] dst = "string" -> WroteS(dst, boolValue_toString(v))
      [] OTHER          -> CastError

\* The temporal kinds: a time or a duration, or the count as an integer.
dateValue_castTo(v, dst) ==
    CASE dst = "time"                        -> WroteTime(dst, "day", v.n)
      [] dst \in {"uint64", "int64", "int32"} -> WroteN(dst, ConvertTo(dst, v.n))
      [] OTHER                               -> CastError
datetimeValue_castTo(v, dst) ==
    CASE dst = "time"                         -> WroteTime(dst, "second", v.n)
      [] dst \in {"uint64", "int64", "uint32"} -> WroteN(dst, ConvertTo(dst, v.n))
      [] OTHER                                -> CastError
timestampValue_castTo(v, dst) ==
    CASE dst = "time"   -> WroteTime(dst, "microsecond", v.n)
      [] dst = "uint64" -> WroteN(dst, ConvertTo(dst, v.n))
      [] OTHER          -> CastError
intervalValue_castTo(v, dst) ==
    CASE dst = "duration" -> WroteTime(dst, "microsecond", v.n)
      [] dst = "int64"    -> WroteN(dst, ConvertTo(dst, v.n))
      [] OTHER            -> CastError

\* Floating point: the text is not modelled beyond its being text of the
\* number, so the number is kept.
doubleValue_castTo(v, dst) ==
    CASE dst \in TextDst  -> WroteN(dst, v.n)
      [] dst = "float64"  -> WroteN(dst, v.n)
      [] OTHER            -> CastError
floatValue_castTo(v, dst) ==
    CASE dst \in TextDst  -> WroteN(dst, v.n)
      [] dst \in FloatDst -> WroteN(dst, v.n)
      [] OTHER            -> CastError

\* The switch without its default: nil is returned for any destination.
TextCast_NoDefault(v, dst) == WroteS(dst, v.s)
\* The kinds that are a string or a byte string.
TextCast(v, dst) == IF dst \in TextDst THEN WroteS(dst, v.s) ELSE CastError

dyNumberValue_castTo(v, dst)     == TextCast(v, dst)
jsonValue_castTo(v, dst)         == TextCast(v, dst)
jsonDocumentValue_castTo(v, dst) == TextCast(v, dst)
tzDateValue_castTo(v, dst)       == TextCast(v, dst)
tzDatetimeValue_castTo(v, dst)   == TextCast(v, dst)
tzTimestampValue_castTo(v, dst)  == TextCast(v, dst)
textValue_castTo(v, dst)         == TextCast(v, dst)
ysonValue_castTo(v, dst)         == TextCast(v, dst)
bytesValue_castTo(v, dst)        == TextCast(v, dst)

uuidValue_castTo(v, dst) ==
    IF dst \in TextDst \cup {"array16"} THEN WroteU128(dst, v.u128) ELSE CastError

-----------------------------------------------------------------------------
(* castTo of the other kinds, and the dispatch on the value's kind. *)

decimalValue_castTo(v, dst) == CastError
dictValue_castTo(v, dst)    == CastError
listValue_castTo(v, dst)    == CastError
structValue_castTo(v, dst)  == CastError
voidValue_castTo(v, dst)    == CastError

RECURSIVE castTo(_, _)

\* A NULL is an error of its own; anything else is cast in its place.
optionalValue_castTo(v, dst) ==
    IF v.value = Nil THEN errOptionalNilValue ELSE castTo(v.value, dst)

\* A tuple of exactly one item is cast as that item.
tupleValue_castTo(v, dst) ==
    IF Len(v.items) = 1 THEN castTo(v.items[1], dst) ELSE CastError

variantValue_castTo(v, dst) == castTo(v.value, dst)

castTo(v, dst) ==
    CASE v.kind = "Bool"         -> boolValue_castTo(v, dst)
      [] v.kind = "Date"         -> dateValue_castTo(v, dst)
      [] v.kind = "Datetime"     -> datetimeValue_castTo(v, dst)
      [] v.kind = "Decimal"      -> decimalValue_castTo(v, dst)
      [] v.kind = "Dict"         -> dictValue_castTo(v, dst)
      [] v.kind = "Double"       -> doubleValue_castTo(v, dst)
      [] v.kind = "DyNumber"     -> dyNumberValue_castTo(v, dst)
      [] v.kind = "Float"        -> floatValue_castTo(v, dst)
      [] v.kind = "Int8"         -> int8Value_castTo(v, dst)
      [] v.kind = "Int16"        -> int16Value_castTo(v, dst)
      [] v.kind = "Int32"        -> int32Value_castTo(v, dst)
      [] v.kind = "Int64"        -> int64Value_castTo(v, dst)
      [] v.kind = "Interval"     -> intervalValue_castTo(v, dst)
      [] v.kind = "JSON"         -> jsonValue_castTo(v, dst)
      [] v.kind = "JSONDocument" -> jsonDocumentValue_castTo(v, dst)
      [] v.kind = "List"         -> listValue_castTo(v, dst)
      [] v.kind = "Optional"     -> optionalValue_castTo(v, dst)
      [] v.kind = "Struct"       -> structValue_castTo(v, dst)
      [] v.kind = "Timestamp"    -> timestampValue_castTo(v, dst)
      [] v.kind = "Tuple"        -> tupleValue_castTo(v, dst)
      [] v.kind = "TzDate"       -> tzDateValue_castTo(v, dst)
      [] v.kind = "TzDatetime"   -> tzDatetimeValue_castTo(v, dst)
      [] v.kind = "TzTimestamp"  -> tzTimestampValue_castTo(v, dst)
      [] v.kind = "Uint8"        -> uint8Value_castTo(v, dst)
      [] v.kind = "Uint16"       -> uint16Value_castTo(v, dst)
      [] v.kind = "Uint32"       -> uint32Value_castTo(v, dst)
      [] v.kind = "Uint64"       -> uint64Value_castTo(v, dst)
      [] v.kind = "Text"         -> textValue_castTo(v, dst)
      [] v.kind = "UUID"         -> uuidValue_castTo(v, dst)
      [] v.kind = "Variant"      -> variantValue_castTo(v, dst)
      [] v.kind = "Void"         -> voidValue_castTo(v, dst)
      [] v.kind = "YSON"         -> ysonValue_castTo(v, dst)
      [] v.kind = "Bytes"        -> bytesValue_castTo(v, dst)
=============================================================================
