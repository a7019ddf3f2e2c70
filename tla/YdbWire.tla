------------------------------ MODULE YdbWire -------------------------------
(***************************************************************************)
(* Encoding and decoding of values (internal/value/value.go): toYDB of     *)
(* every value kind, ToYDB, and the decoder FromYDB with its helpers       *)
(* nullValueFromYDB, primitiveValueFromYDB and fromYDB.                    *)
(*                                                                         *)
(* A wire value is the protobuf message Ydb.Value:                         *)
(*   [Value, Items, Pairs, VariantIndex, High_128]                         *)
(* where Value is the oneof: a record tagged by `is`, the name of the      *)
(* alternative that is set ("unset" when none is), with the payload in     *)
(* the field named for its sort (b, n, s, or nested for a nested value).   *)
(***************************************************************************)
EXTENDS YdbValue

-----------------------------------------------------------------------------
(* Wire nodes, as the arena hands them out: zeroed. *)

Unset      == [is |-> "unset"]
EmptyValue == [Value |-> Unset, Items |-> <<>>, Pairs |-> <<>>,
               VariantIndex |-> 0, High_128 |-> 0]

\* A oneof node with its payload set.
Node(is, x) ==
    CASE is = "bool_value"                   -> [is |-> is, b |-> x]
      [] is \in {"text_value", "bytes_value"} -> [is |-> is, s |-> x]
      [] is = "nested_value"                 -> [is |-> is, nested |-> x]
      [] OTHER                               -> [is |-> is, n |-> x]
NullFlag == [is |-> "null_flag_value"]

\* A value message whose only content is its oneof.
Leaf(oneof) == [EmptyValue EXCEPT !.Value = oneof]

\* The generated getters: the payload when that alternative is set, the zero
\* of its sort otherwise.
GetB(v, is) == IF v.Value.is = is THEN v.Value.b ELSE FALSE
GetN(v, is) == IF v.Value.is = is THEN v.Value.n ELSE 0
GetS(v, is) == IF v.Value.is = is THEN v.Value.s ELSE <<>>

-----------------------------------------------------------------------------
(* toYDB of the scalar kinds: the leaf each kind writes. *)

boolValue_toYDB(v)         == Leaf(Node("bool_value", v.b))
dateValue_toYDB(v)         == Leaf(Node("uint32_value", v.n))
datetimeValue_toYDB(v)     == Leaf(Node("uint32_value", v.n))
doubleValue_toYDB(v)       == Leaf(Node("double_value", v.n))
dyNumberValue_toYDB(v)     == Leaf(Node("text_value", v.s))
floatValue_toYDB(v)        == Leaf(Node("float_value", v.n))
int8Value_toYDB(v)         == Leaf(Node("int32_value", v.n))
int16Value_toYDB(v)        == Leaf(Node("int32_value", v.n))
int32Value_toYDB(v)        == Leaf(Node("int32_value", v.n))
int64Value_toYDB(v)        == Leaf(Node("int64_value", v.n))
intervalValue_toYDB(v)     == Leaf(Node("int64_value", v.n))
jsonValue_toYDB(v)         == Leaf(Node("text_value", v.s))
jsonDocumentValue_toYDB(v) == Leaf(Node("text_value", v.s))
timestampValue_toYDB(v)    == Leaf(Node("uint64_value", v.n))
tzDateValue_toYDB(v)       == Leaf(Node("text_value", v.s))
tzDatetimeValue_toYDB(v)   == Leaf(Node("text_value", v.s))
tzTimestampValue_toYDB(v)  == Leaf(Node("text_value", v.s))
uint8Value_toYDB_Int32(v)  == Leaf(Node("int32_value", v.n))  \* the leaf of the signed kinds
uint8Value_toYDB(v)        == Leaf(Node("uint32_value", v.n))
uint16Value_toYDB(v)       == Leaf(Node("uint32_value", v.n))
uint32Value_toYDB(v)       == Leaf(Node("uint32_value", v.n))
uint64Value_toYDB(v)       == Leaf(Node("uint64_value", v.n))
textValue_toYDB(v)         == Leaf(Node("text_value", v.s))
ysonValue_toYDB(v)         == Leaf(Node("bytes_value", v.s))
bytesValue_toYDB(v)        == Leaf(Node("bytes_value", v.s))

\* The shared message every Void encodes to.
_voidValue         == Leaf(NullFlag)
voidValue_toYDB(v) == _voidValue

\* The low eight bytes go to the oneof, the high eight to a field beside it.
uuidValue_toYDB(v) ==
    [EmptyValue EXCEPT !.Value = Node("low_128", v.u128[2]), !.High_128 = v.u128[1]]
decimalValue_toYDB(v) ==
    [EmptyValue EXCEPT !.Value = Node("low_128", v.u128[2]), !.High_128 = v.u128[1]]

-----------------------------------------------------------------------------
(* toYDB of the containers, and the dispatch on the value's kind. *)

RECURSIVE toYDB(_)

listValue_toYDB(v)  == [EmptyValue EXCEPT !.Items = [i \in DOMAIN v.items |-> toYDB(v.items[i])]]
tupleValue_toYDB(v) == [EmptyValue EXCEPT !.Items = [i \in DOMAIN v.items |-> toYDB(v.items[i])]]
structValue_toYDB(v) ==
    [EmptyValue EXCEPT !.Items = [i \in DOMAIN v.fields |-> toYDB(v.fields[i].V)]]
\* dictValue.toYDB with the key and the payload of a pair exchanged.
dictValue_toYDB_Swapped(v) ==
    [EmptyValue EXCEPT !.Pairs = [i \in DOMAIN v.values |->
        [Key |-> toYDB(v.values[i].V), Payload |-> toYDB(v.values[i].K)]]]
dictValue_toYDB(v) ==
    [EmptyValue EXCEPT !.Pairs = [i \in DOMAIN v.values |->
        [Key |-> toYDB(v.values[i].K), Payload |-> toYDB(v.values[i].V)]]]

\* An optional holding an optional nests its encoding; an optional holding
\* anything else takes the oneof of its encoding; a NULL is a null flag.
optionalValue_toYDB(v) ==
    IF v.value.kind = "Optional"
    THEN Leaf(Node("nested_value", toYDB(v.value)))
    ELSE IF v.value # Nil
         THEN Leaf(toYDB(v.value).Value)
         ELSE Leaf(NullFlag)

variantValue_toYDB(v) ==
    [EmptyValue EXCEPT !.Value = Node("nested_value", toYDB(v.value)),
                       !.VariantIndex = v.idx]

toYDB(v) ==
    CASE v.kind = "Bool"         -> boolValue_toYDB(v)
      [] v.kind = "Date"         -> dateValue_toYDB(v)
      [] v.kind = "Datetime"     -> datetimeValue_toYDB(v)
      [] v.kind = "Decimal"      -> decimalValue_toYDB(v)
      [] v.kind = "Dict"         -> dictValue_toYDB(v)
      [] v.kind = "Double"       -> doubleValue_toYDB(v)
      [] v.kind = "DyNumber"     -> dyNumberValue_toYDB(v)
      [] v.kind = "Float"        -> floatValue_toYDB(v)
      [] v.kind = "Int8"         -> int8Value_toYDB(v)
      [] v.kind = "Int16"        -> int16Value_toYDB(v)
      [] v.kind = "Int32"        -> int32Value_toYDB(v)
      [] v.kind = "Int64"        -> int64Value_toYDB(v)
      [] v.kind = "Interval"     -> intervalValue_toYDB(v)
      [] v.kind = "JSON"         -> jsonValue_toYDB(v)
      [] v.kind = "JSONDocument" -> jsonDocumentValue_toYDB(v)
      [] v.kind = "List"         -> listValue_toYDB(v)
      [] v.kind = "Optional"     -> optionalValue_toYDB(v)
      [] v.kind = "Struct"       -> structValue_toYDB(v)
      [] v.kind = "Timestamp"    -> timestampValue_toYDB(v)
      [] v.kind = "Tuple"        -> tupleValue_toYDB(v)
      [] v.kind = "TzDate"       -> tzDateValue_toYDB(v)
      [] v.kind = "TzDatetime"   -> tzDatetimeValue_toYDB(v)
      [] v.kind = "TzTimestamp"  -> tzTimestampValue_toYDB(v)
      [] v.kind = "Uint8"        -> uint8Value_toYDB(v)
      [] v.kind = "Uint16"       -> uint16Value_toYDB(v)
      [] v.kind = "Uint32"       -> uint32Value_toYDB(v)
      [] v.kind = "Uint64"       -> uint64Value_toYDB(v)
      [] v.kind = "Text"         -> textValue_toYDB(v)
      [] v.kind = "UUID"         -> uuidValue_toYDB(v)
      [] v.kind = "Variant"      -> variantValue_toYDB(v)
      [] v.kind = "Void"         -> voidValue_toYDB(v)
      [] v.kind = "YSON"         -> ysonValue_toYDB(v)
      [] v.kind = "Bytes"        -> bytesValue_toYDB(v)

\* ToYDB(v, a): the typed value sent as a query parameter.
ToYDB(v) == [Type |-> TypeToYDB(TypeOf(v)), Value |-> toYDB(v)]

-----------------------------------------------------------------------------
(* Decoding. *)

\* What fromYDB returns beside a value: an error, which FromYDB turns into a
\* panic.
DecodeError == [kind |-> "error"]

\* nullValueFromYDB that answers a null flag with a NULL whatever the type.
RECURSIVE nullValueFromYDB_AnyType(_, _)
nullValueFromYDB_AnyType(x, t) ==
    CASE x.Value.is = "nested_value"    -> nullValueFromYDB_AnyType(x.Value.nested, t)
      [] x.Value.is = "null_flag_value" ->
            IF t.kind = "Optional" THEN NullValue(t.innerType) ELSE NullValue(t)
      [] OTHER                          -> Nil

\* nullValueFromYDB(x, t): follow nested values down to a null flag; the
\* value for it is chosen by the type t the caller started with.  Nil stands
\* for the result (nil, false).
RECURSIVE nullValueFromYDB(_, _)
nullValueFromYDB(x, t) ==
    CASE x.Value.is = "nested_value"    -> nullValueFromYDB(x.Value.nested, t)
      [] x.Value.is = "null_flag_value" ->
            CASE t.kind = "Optional" -> NullValue(t.innerType)
              [] t.kind = "Void"     -> VoidValue
              [] OTHER               -> Nil
      [] OTHER                          -> Nil

\* primitiveValueFromYDB(t, v): read the leaf through its getter and convert
\* to the width of the kind.
primitiveValueFromYDB(t, v) ==
    CASE t = "Bool"         -> BoolValue(GetB(v, "bool_value"))
      [] t = "Int8"         -> Int8Value(AsInt(W8, GetN(v, "int32_value")))
      [] t = "Int16"        -> Int16Value(AsInt(W16, GetN(v, "int32_value")))
      [] t = "Int32"        -> Int32Value(GetN(v, "int32_value"))
      [] t = "Int64"        -> Int64Value(GetN(v, "int64_value"))
      [] t = "Uint8"        -> Uint8Value(AsUint(W8, GetN(v, "uint32_value")))
      [] t = "Uint16"       -> Uint16Value(AsUint(W16, GetN(v, "uint32_value")))
      [] t = "Uint32"       -> Uint32Value(GetN(v, "uint32_value"))
      [] t = "Uint64"       -> Uint64Value(GetN(v, "uint64_value"))
      [] t = "Date"         -> DateValue(GetN(v, "uint32_value"))
      [] t = "Datetime"     -> DatetimeValue(GetN(v, "uint32_value"))
      [] t = "Interval"     -> IntervalValue(GetN(v, "int64_value"))
      [] t = "Timestamp"    -> TimestampValue(GetN(v, "uint64_value"))
      [] t = "Float"        -> FloatValue(GetN(v, "float_value"))
      [] t = "Double"       -> DoubleValue(GetN(v, "double_value"))
      [] t = "Text"         -> TextValue(GetS(v, "text_value"))
      [] t = "YSON"         ->
            IF v.Value.is \in {"text_value", "bytes_value"}
            THEN YSONValue(v.Value.s) ELSE DecodeError
      [] t = "JSON"         -> JSONValue(GetS(v, "text_value"))
      [] t = "JSONDocument" -> JSONDocumentValue(GetS(v, "text_value"))
      [] t = "DyNumber"     -> DyNumberValue(GetS(v, "text_value"))
      [] t = "TzDate"       -> TzDateValue(GetS(v, "text_value"))
      [] t = "TzDatetime"   -> TzDatetimeValue(GetS(v, "text_value"))
      [] t = "TzTimestamp"  -> TzTimestampValue(GetS(v, "text_value"))
      [] t = "Bytes"        -> BytesValue(GetS(v, "bytes_value"))
      [] t = "UUID"         -> UUIDValue(BigEndianUint128(v.High_128, GetN(v, "low_128")))
      [] OTHER              -> DecodeError

RECURSIVE fromYDB(_, _)

\* FromYDB(t, v): the value, or a panic when fromYDB reports an error.
FromYDB(t, v) ==
    LET vv == fromYDB(t, v) IN IF vv = DecodeError THEN Panic ELSE vv

\* The elements of a list, a tuple or a struct are decoded one by one
\* against the element type at the same index; an item beyond the last
\* element type is an index out of range.
DecodeItems(types, items) ==
    IF Len(items) > Len(types) THEN <<Panic>>
    ELSE [i \in DOMAIN items |-> FromYDB(TypeToYDB(types[i]), items[i])]

\* fromYDB(t, v): a null first, whatever the type; then by the type.
fromYDB(t, v) ==
    LET tt   == TypeFromYDB(t)
        null == nullValueFromYDB(v, tt)
    IN
    IF null # Nil THEN null ELSE
    CASE tt.kind = "Primitive" -> primitiveValueFromYDB(tt.id, v)
      [] tt.kind = "Void"      -> VoidValue
      [] tt.kind = "Null"      -> NullValue(tt)
      [] tt.kind = "Decimal"   ->
            DecimalValue(BigEndianUint128(v.High_128, GetN(v, "low_128")),
                         tt.Precision, tt.Scale)
      [] tt.kind = "Optional"  ->
            IF v.Value.is = "nested_value"
            THEN OptionalValue(FromYDB(t.item, v.Value.nested))
            ELSE OptionalValue(FromYDB(t.item, v))
      [] tt.kind = "List"      ->
            ListValue([i \in DOMAIN v.Items |-> FromYDB(TypeToYDB(tt.itemType), v.Items[i])])
      [] tt.kind = "Tuple"     -> TupleValue(DecodeItems(tt.items, v.Items))
      [] tt.kind = "Struct"    ->
            LET vs == DecodeItems([i \in DOMAIN tt.fields |-> tt.fields[i].T], v.Items)
            IN  Strict(vs, StructValue([i \in DOMAIN vs |->
                                           StructValueField(tt.fields[i].Name, vs[i])]))
      [] tt.kind = "Dict"      ->
            DictValue([i \in DOMAIN v.Pairs |->
                DictValueField(FromYDB(TypeToYDB(tt.keyType), v.Pairs[i].Key),
                               FromYDB(TypeToYDB(tt.valueType), v.Pairs[i].Payload))])
      [] tt.kind = "Variant"   ->
            LET inner == IF v.Value.is # "nested_value" THEN Panic
                         ELSE FromYDB(TypeToYDB(tt.innerType), v.Value.nested)
            IN  CASE tt.variantType = "tuple"  ->
                         Strict(<<inner>>, VariantValueTuple(inner, v.VariantIndex))
                  [] tt.variantType = "struct" ->
                         Strict(<<inner>>, VariantValueStruct(inner, v.VariantIndex))
                  [] OTHER                     -> DecodeError
      [] OTHER                 -> DecodeError
=============================================================================
