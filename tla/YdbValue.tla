------------------------------ MODULE YdbValue ------------------------------
(***************************************************************************)
(* The in-memory values of internal/value/value.go: one constructor per    *)
(* Go constructor, Type(), toString() for the kinds whose string form      *)
(* orders dictionary keys, the canonicalising sorts of StructValue and     *)
(* DictValue, and ZeroValue.                                               *)
(*                                                                         *)
(* A value is a record tagged by `kind`.  The payload field is named after *)
(* what it holds, so that a field never holds two sorts of thing:          *)
(*   n     an integer (every integer kind, the temporal kinds, and Float   *)
(*         and Double, which the model restricts to whole numbers),        *)
(*   b     a boolean,                                                      *)
(*   s     a string or byte string: a sequence of character codes,         *)
(*   u128  a 16-byte big-endian buffer as <<high 8 bytes, low 8 bytes>>.   *)
(* Containers keep the Go field names (t, items, fields, values,           *)
(* innerType, value, idx).                                                 *)
(***************************************************************************)
EXTENDS YdbType, Integers, SequencesExt

CONSTANTS W8, W16, W32, W64     \* bit widths standing for Go's 8, 16, 32, 64

ASSUME Widths == /\ {W8, W16, W32, W64} \subseteq Nat \ {0}
                 /\ W8 < W16 /\ W16 < W32 /\ W32 < W64

-----------------------------------------------------------------------------
(* Go integers and strings. *)

IntRange(w)  == -(2^(w - 1)) .. (2^(w - 1) - 1)
UintRange(w) == 0 .. (2^w - 1)

\* uintN(x) that forgets to truncate.
AsUint_Kept(w, x) == x
\* The conversions uintN(x) and intN(x): keep the low w bits.
AsUint(w, x) == x % (2^w)
\* intN(x) without the sign: the low w bits read as a natural.
AsInt_Unsigned(w, x) == AsUint(w, x)
AsInt(w, x)  == LET u == AsUint(w, x) IN IF u >= 2^(w - 1) THEN u - 2^w ELSE u

\* strconv.FormatUint(n, 10) and strconv.FormatInt(n, 10) as character codes.
RECURSIVE FormatUint(_)
FormatUint(n) == IF n < 10 THEN <<48 + n>>
                 ELSE Append(FormatUint(n \div 10), 48 + (n % 10))
FormatInt(n)  == IF n < 0 THEN <<45>> \o FormatUint(-n) ELSE FormatUint(n)

\* Go's < on strings: bytewise lexicographic order.
StrLess(a, b) ==
    \E i \in 1..Len(b) :
        /\ i <= Len(a) + 1
        /\ SubSeq(a, 1, i - 1) = SubSeq(b, 1, i - 1)
        /\ (i = Len(a) + 1 \/ a[i] < b[i])

\* sort.Slice(s, less) as the build runs it on a slice shorter than twelve:
\* an insertion sort, each element moving left past the elements it is less
\* than and stopping at the first it is not less than.  Both callers compare
\* strings, so the slice is sorted by key[i], the string s[i] is ordered by.
InsertionStep_Append(sorted, x) == Append(sorted, x)   \* a sort that moves nothing
InsertionStep(sorted, x) ==
    InsertAt(sorted, MaxOf({j \in DOMAIN sorted : ~StrLess(x.key, sorted[j].key)}) + 1, x)
SortSlice(s, key) ==
    LET keyed == FoldLeft(InsertionStep, <<>>, [i \in DOMAIN s |-> [key |-> key[i], item |-> s[i]]])
    IN  [i \in DOMAIN keyed |-> keyed[i].item]

-----------------------------------------------------------------------------
(* Outcomes that are not values. *)

Nil   == [kind |-> "nil"]       \* the nil Value held by a NULL optional
Panic == [kind |-> "panic"]     \* the call did not return: the process aborts

IsPanic(v) == v.kind = "panic"

\* A call whose arguments are evaluated first panics when one of them does.
Strict(args, result) == IF \E i \in DOMAIN args : IsPanic(args[i]) THEN Panic ELSE result

-----------------------------------------------------------------------------
(* Scalar constructors: each converts its argument to the named Go type. *)

BoolValue(v)         == [kind |-> "Bool", b |-> v]
DateValue(v)         == [kind |-> "Date", n |-> v]
DatetimeValue(v)     == [kind |-> "Datetime", n |-> v]
DoubleValue(v)       == [kind |-> "Double", n |-> v]
DyNumberValue(v)     == [kind |-> "DyNumber", s |-> v]
FloatValue(v)        == [kind |-> "Float", n |-> v]
Int8Value(v)         == [kind |-> "Int8", n |-> v]
Int16Value(v)        == [kind |-> "Int16", n |-> v]
Int32Value(v)        == [kind |-> "Int32", n |-> v]
Int64Value(v)        == [kind |-> "Int64", n |-> v]
IntervalValue(v)     == [kind |-> "Interval", n |-> v]
JSONValue(v)         == [kind |-> "JSON", s |-> v]
JSONDocumentValue(v) == [kind |-> "JSONDocument", s |-> v]
TimestampValue(v)    == [kind |-> "Timestamp", n |-> v]
TzDateValue(v)       == [kind |-> "TzDate", s |-> v]
TzDatetimeValue(v)   == [kind |-> "TzDatetime", s |-> v]
TzTimestampValue(v)  == [kind |-> "TzTimestamp", s |-> v]
Uint8Value(v)        == [kind |-> "Uint8", n |-> v]
Uint16Value(v)       == [kind |-> "Uint16", n |-> v]
Uint32Value(v)       == [kind |-> "Uint32", n |-> v]
Uint64Value(v)       == [kind |-> "Uint64", n |-> v]
TextValue(v)         == [kind |-> "Text", s |-> v]
UUIDValue(v)         == [kind |-> "UUID", u128 |-> v]
YSONValue(v)         == [kind |-> "YSON", s |-> v]
BytesValue(v)        == [kind |-> "Bytes", s |-> v]
VoidValue            == [kind |-> "Void"]

DecimalValue(v, precision, scale) ==
    [kind |-> "Decimal", u128 |-> v, innerType |-> Decimal(precision, scale)]

\* BigEndianUint128(hi, lo): the 16 bytes whose first eight are hi.
BigEndianUint128(hi, lo) == <<hi, lo>>

\* The decimal codec's two's-complement encoding of a number and its inverse,
\* for the numbers whose high half is a sign extension and little more
\* (clamping and the special values are the codec's own).
BigIntToByte(n, precision, scale) ==
    BigEndianUint128(AsUint(W64, n \div 2^W64), AsUint(W64, n))
FromBytes(b, precision, scale) == AsInt(W64, b[1]) * 2^W64 + b[2]

DecimalValueFromBigInt(v, precision, scale) ==
    DecimalValue(BigIntToByte(v, precision, scale), precision, scale)

\* The kinds whose Go type is one of the primitive value types.
IsScalar(v) == v.kind \in PrimitiveTypes

-----------------------------------------------------------------------------
(* Type(): the type a value carries. *)

TypeOf(v) ==
    CASE IsScalar(v)                                  -> Primitive(v.kind)
      [] v.kind \in {"Optional", "Variant", "Decimal"} -> v.innerType
      [] v.kind \in {"List", "Tuple", "Struct", "Dict"} -> v.t
      [] v.kind = "Void"                              -> Void

-----------------------------------------------------------------------------
(* Optional values. *)

NullValue(t)     == [kind |-> "Optional", innerType |-> Optional(t), value |-> Nil]
\* OptionalValue taking an optional to be optional already.
OptionalValue_Flat(v) ==
    Strict(<<v>>, [kind      |-> "Optional",
                   innerType |-> IF v.kind = "Optional" THEN v.innerType ELSE Optional(TypeOf(v)),
                   value     |-> v])
OptionalValue(v) == Strict(<<v>>, [kind |-> "Optional", innerType |-> Optional(TypeOf(v)), value |-> v])

-----------------------------------------------------------------------------
(* toString(): the bare payload as text.  It is modelled for the kinds     *)
(* whose text is decimal digits, a boolean word or the payload itself, and *)
(* for optionals and lists of them; the temporal layouts, the              *)
(* floating-point formats and the renderings that go through String() are  *)
(* left out, and StringModelled says which values are in.                  *)

RECURSIVE StringModelled(_)
StringModelled(v) ==
    \/ v.kind \in {"Bool", "Int8", "Int16", "Int32", "Int64",
                   "Uint8", "Uint16", "Uint32", "Uint64",
                   "Text", "Bytes", "YSON", "JSON", "JSONDocument", "DyNumber",
                   "TzDate", "TzDatetime", "TzTimestamp", "Void"}
    \/ v.kind = "Optional" /\ (v.value = Nil \/ StringModelled(v.value))
    \/ v.kind = "List" /\ \A i \in DOMAIN v.items : StringModelled(v.items[i])

boolValue_toString(v)   == IF v.b THEN <<116, 114, 117, 101>> ELSE <<102, 97, 108, 115, 101>>
int8Value_toString(v)   == FormatInt(v.n)
int16Value_toString(v)  == FormatInt(v.n)
int32Value_toString(v)  == FormatInt(v.n)
int64Value_toString(v)  == FormatInt(v.n)
uint8Value_toString(v)  == FormatUint(v.n)
uint16Value_toString(v) == FormatUint(v.n)
uint32Value_toString(v) == FormatUint(v.n)
uint64Value_toString(v) == FormatUint(v.n)
textValue_toString(v)   == v.s
\* string(v): the payload as it is.
bytesValue_toString(v) == v.s
ysonValue_toString(v) == v.s
jsonValue_toString(v) == v.s
jsonDocumentValue_toString(v) == v.s
dyNumberValue_toString(v) == v.s
tzDateValue_toString(v) == v.s
tzDatetimeValue_toString(v) == v.s
tzTimestampValue_toString(v) == v.s
voidValue_toString(v)   == <<86, 79, 73, 68>>

\* A string a call returned.
GoString(s) == [kind |-> "string", s |-> s]

\* decimalValue.toString with the point one digit further to the left.
decimalValue_toString_OffByOne(v) ==
    LET s     == FormatInt(FromBytes(v.u128, v.innerType.Precision, v.innerType.Scale))
        point == Len(s) - v.innerType.Scale - 1
    IN  IF point < 0 THEN Panic
        ELSE GoString(SubSeq(s, 1, point) \o <<46>> \o SubSeq(s, point + 1, Len(s)))

\* decimalValue.toString: the digits of the number cut Scale characters from
\* the right, a point between the halves.  A slice that starts before the
\* string panics.
decimalValue_toString(v) ==
    LET s     == FormatInt(FromBytes(v.u128, v.innerType.Precision, v.innerType.Scale))
        point == Len(s) - v.innerType.Scale
    IN  IF point < 0 THEN Panic
        ELSE GoString(SubSeq(s, 1, point) \o <<46>> \o SubSeq(s, point + 1, Len(s)))

RECURSIVE toString(_)
optionalValue_toString(v) ==
    IF v.value = Nil THEN <<78, 85, 76, 76>> ELSE toString(v.value)

\* The strings of the items with a comma between them.
listValue_toString(v) ==
    FlattenSeq([i \in DOMAIN v.items |->
                   IF i = 1 THEN toString(v.items[i]) ELSE <<44>> \o toString(v.items[i])])

toString(v) ==
    CASE v.kind = "Bool"     -> boolValue_toString(v)
      [] v.kind = "Int8"     -> int8Value_toString(v)
      [] v.kind = "Int16"    -> int16Value_toString(v)
      [] v.kind = "Int32"    -> int32Value_toString(v)
      [] v.kind = "Int64"    -> int64Value_toString(v)
      [] v.kind = "Uint8"    -> uint8Value_toString(v)
      [] v.kind = "Uint16"   -> uint16Value_toString(v)
      [] v.kind = "Uint32"   -> uint32Value_toString(v)
      [] v.kind = "Uint64"   -> uint64Value_toString(v)
      [] v.kind = "Optional" -> optionalValue_toString(v)
      [] v.kind = "List"     -> listValue_toString(v)
      [] v.kind = "Void"     -> voidValue_toString(v)
      [] v.kind = "Text"     -> textValue_toString(v)
      [] v.kind = "Bytes" -> bytesValue_toString(v)
      [] v.kind = "YSON" -> ysonValue_toString(v)
      [] v.kind = "JSON" -> jsonValue_toString(v)
      [] v.kind = "JSONDocument" -> jsonDocumentValue_toString(v)
      [] v.kind = "DyNumber" -> dyNumberValue_toString(v)
      [] v.kind = "TzDate" -> tzDateValue_toString(v)
      [] v.kind = "TzDatetime" -> tzDatetimeValue_toString(v)
      [] v.kind = "TzTimestamp" -> tzTimestampValue_toString(v)

-----------------------------------------------------------------------------
(* Container constructors.  Each keeps the slice it is given; StructValue  *)
(* and DictValue sort it first.                                            *)

StructValueField(name, v) == [Name |-> name, V |-> v]
DictValueField(k, v)      == [K |-> k, V |-> v]

\* ListValue(items...): the type comes from the first item; every item's
\* type is compared with itself.
ListValue(items) ==
    Strict(items,
        IF \E i \in DOMAIN items : ~equalsTo(TypeOf(items[i]), TypeOf(items[i]))
        THEN Panic
        ELSE [kind  |-> "List",
              t     |-> IF Len(items) > 0 THEN List(TypeOf(items[1])) ELSE EmptyList,
              items |-> items])

TupleValue(values) ==
    Strict(values,
        [kind  |-> "Tuple",
         t     |-> Tuple([i \in DOMAIN values |-> TypeOf(values[i])]),
         items |-> values])

\* StructValue(fields...): sorted by name, the type built from the sorted
\* fields.
StructValue(fields) ==
    LET sorted == SortSlice(fields, [i \in DOMAIN fields |-> fields[i].Name])
    IN  Strict([i \in DOMAIN fields |-> fields[i].V],
            [kind   |-> "Struct",
             t      |-> Struct([i \in DOMAIN sorted |->
                                   StructField(sorted[i].Name, TypeOf(sorted[i].V))]),
             fields |-> sorted])

\* DictValue ordering the pairs by the string of the payload, not of the key.
DictValue_ByPayload(values) ==
    LET sorted == SortSlice(values, [i \in DOMAIN values |->
                      IF StringModelled(values[i].V) THEN toString(values[i].V) ELSE <<>>])
    IN  IF Len(values) = 0 THEN Panic
        ELSE [kind   |-> "Dict",
              t      |-> Dict(TypeOf(sorted[1].K), TypeOf(sorted[1].V)),
              values |-> sorted]

\* DictValue(values...): sorted by the key's toString(); the type comes from
\* the first pair after the sort, and indexing it panics when there is none.
DictValue(values) ==
    LET sorted == SortSlice(values, [i \in DOMAIN values |-> toString(values[i].K)])
    IN  Strict([i \in DOMAIN values |-> values[i].K] \o [i \in DOMAIN values |-> values[i].V],
            IF Len(values) = 0
            THEN Panic
            ELSE [kind   |-> "Dict",
                  t      |-> Dict(TypeOf(sorted[1].K), TypeOf(sorted[1].V)),
                  values |-> sorted])

VariantValue(v, idx, t) ==
    Strict(<<v, Variant(t)>>,
        [kind |-> "Variant", innerType |-> Variant(t), value |-> v, idx |-> idx])

VariantValueStruct(v, idx) ==
    IF v.kind # "Struct" THEN Panic
    ELSE [kind      |-> "Variant",
          innerType |-> [kind |-> "Variant", innerType |-> TypeOf(v), variantType |-> "struct"],
          value     |-> v,
          idx       |-> idx]

VariantValueTuple(v, idx) ==
    IF v.kind # "Tuple" THEN Panic
    ELSE [kind      |-> "Variant",
          innerType |-> [kind |-> "Variant", innerType |-> TypeOf(v), variantType |-> "tuple"],
          value     |-> v,
          idx       |-> idx]

-----------------------------------------------------------------------------
(* Accessors that copy a container into a Go map.  A map compares keys of   *)
(* the kinds that are numbers, strings, booleans or the empty struct by    *)
(* content and keys of the kinds that are pointers by address; a byte      *)
(* slice cannot be a key at all.  Every pair of a dict holds a value of    *)
(* its own, so the address of the key of pair i is i.                      *)

Unhashable == {"Bytes", "YSON"}
ByAddress  == {"Decimal", "Dict", "Double", "Float", "List", "Optional", "Struct", "Tuple",
               "UUID", "Variant"}

\* The map written pair by pair: the last write under a key is the one kept.
GoMap(keys, payloads) ==
    [kind |-> "map",
     at   |-> [k \in ToSet(keys) |-> payloads[MaxOf({i \in DOMAIN keys : keys[i] = k})]]]

\* What the map compares the key of pair i by.
MapKey(values, i) ==
    IF values[i].K.kind \in ByAddress THEN [addr |-> i] ELSE values[i].K

dictValue_Values(v) ==
    IF \E i \in DOMAIN v.values : v.values[i].K.kind \in Unhashable THEN Panic
    ELSE GoMap([i \in DOMAIN v.values |-> MapKey(v.values, i)],
               [i \in DOMAIN v.values |-> v.values[i].V])

structValue_Fields(v) ==
    GoMap([i \in DOMAIN v.fields |-> v.fields[i].Name],
          [i \in DOMAIN v.fields |-> v.fields[i].V])

-----------------------------------------------------------------------------
(* ZeroValue(t): the conventional zero of a type. *)

NumberKinds == {"Int8", "Int16", "Int32", "Int64", "Uint8", "Uint16", "Uint32", "Uint64",
                "Float", "Double", "Date", "Datetime", "Timestamp", "Interval"}
StringKinds == {"Text", "Bytes", "YSON", "JSON", "JSONDocument", "DyNumber",
                "TzDate", "TzDatetime", "TzTimestamp"}

\* zeroPrimitiveValue with the case of Datetime returning DateValue(0).
zeroPrimitiveValue_DateForDatetime(id) ==
    CASE id = "Bool"        -> BoolValue(FALSE)
      [] id = "UUID"        -> UUIDValue(BigEndianUint128(0, 0))
      [] id = "Datetime"    -> DateValue(0)
      [] id \in NumberKinds -> [kind |-> id, n |-> 0]
      [] id \in StringKinds -> [kind |-> id, s |-> <<>>]
      [] OTHER              -> Panic

zeroPrimitiveValue(id) ==
    CASE id = "Bool"        -> BoolValue(FALSE)
      [] id = "UUID"        -> UUIDValue(BigEndianUint128(0, 0))
      [] id \in NumberKinds -> [kind |-> id, n |-> 0]
      [] id \in StringKinds -> [kind |-> id, s |-> <<>>]
      [] OTHER              -> Panic

\* The switch has a case for a pointer to the void type, while Void is the
\* void type itself: Void, like Null, EmptyList and EmptyDict, reaches the
\* default case.  The zero list and the zero dict are built directly, with
\* the type asked for and no payload; the zero decimal is Decimal(22,9)
\* whatever the type asked for.
RECURSIVE ZeroValue(_)
ZeroValue(t) ==
    CASE t.kind = "Primitive" -> zeroPrimitiveValue(t.id)
      [] t.kind = "Optional"  -> NullValue(t.innerType)
      [] t.kind = "List"      -> [kind |-> "List", t |-> t, items |-> <<>>]
      [] t.kind = "Tuple"     ->
            LET zeros == [i \in DOMAIN t.items |-> ZeroValue(t.items[i])]
            IN  Strict(zeros, [kind |-> "Tuple", t |-> t, items |-> zeros])
      [] t.kind = "Struct"    ->
            StructValue([i \in DOMAIN t.fields |->
                            StructValueField(t.fields[i].Name, ZeroValue(t.fields[i].T))])
      [] t.kind = "Dict"      -> [kind |-> "Dict", t |-> t, values |-> <<>>]
      [] t.kind = "Decimal"   -> DecimalValue(BigEndianUint128(0, 0), 22, 9)
      [] t.kind = "Variant"   -> VariantValue(ZeroValue(t.innerType), 0, t.innerType)
      [] OTHER                -> Panic

-----------------------------------------------------------------------------
(* Measures used by the bounds of the models. *)

\* The values a value directly holds.
Children(v) ==
    CASE v.kind \in {"List", "Tuple"}       -> v.items
      [] v.kind = "Struct"                  -> [i \in DOMAIN v.fields |-> v.fields[i].V]
      [] v.kind = "Dict"                    ->
            [i \in DOMAIN v.values |-> v.values[i].K] \o [i \in DOMAIN v.values |-> v.values[i].V]
      [] v.kind = "Variant"                 -> <<v.value>>
      [] v.kind = "Optional" /\ v.value # Nil -> <<v.value>>
      [] OTHER                              -> <<>>

\* The number of constructors in a value; a value that holds nothing counts
\* the constructors of its type.
RECURSIVE Nodes(_)
Nodes(v) ==
    LET c == Children(v)
    IN  IF c = <<>> THEN TypeNodes(TypeOf(v))
        ELSE SumNodes([i \in DOMAIN c |-> Nodes(c[i])])
=============================================================================
