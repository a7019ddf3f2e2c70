------------------------------ MODULE YdbType ------------------------------
(***************************************************************************)
(* The type registry of the SDK (package value, file type.go) and the wire *)
(* form of a type (Ydb.Type).  An in-memory Type is a record tagged by     *)
(* `kind`; a wire type is a record tagged by `oneof`, the name of the      *)
(* protobuf alternative that is set.  The value model (YdbValue, YdbWire)  *)
(* is written against these two shapes.                                    *)
(*                                                                         *)
(* type.go is not among the sources kept with this project, so every       *)
(* definition here follows the repository's specification (sections 3,     *)
(* 4.2 and 6) and the way value.go uses the type it names.                 *)
(***************************************************************************)
EXTENDS Naturals, Sequences

\* The primitive type ids (specification, section 3).
PrimitiveTypes ==
    { "Bool", "Int8", "Int16", "Int32", "Int64",
      "Uint8", "Uint16", "Uint32", "Uint64", "Float", "Double",
      "Date", "Datetime", "Timestamp", "Interval",
      "Text", "Bytes", "UUID", "JSON", "JSONDocument", "YSON", "DyNumber",
      "TzDate", "TzDatetime", "TzTimestamp" }

-----------------------------------------------------------------------------
(* Constructors of in-memory types. *)

Primitive(id)        == [kind |-> "Primitive", id |-> id]
Optional(t)          == [kind |-> "Optional", innerType |-> t]
List(t)              == [kind |-> "List", itemType |-> t]
EmptyList            == [kind |-> "EmptyList"]
Tuple(ts)            == [kind |-> "Tuple", items |-> ts]
StructField(name, t) == [Name |-> name, T |-> t]
Struct(fs)           == [kind |-> "Struct", fields |-> fs]
Dict(k, v)           == [kind |-> "Dict", keyType |-> k, valueType |-> v]
EmptyDict            == [kind |-> "EmptyDict"]
Decimal(p, s)        == [kind |-> "Decimal", Precision |-> p, Scale |-> s]
Void                 == [kind |-> "Void"]
Null                 == [kind |-> "Null"]

\* What a constructor yields when its argument is structurally impossible:
\* the process aborts (specification, section 7).
TypePanic == [kind |-> "panic"]

\* Variant(t): the inner type decides the flavour; anything but a tuple or
\* a struct is refused.
Variant(t) ==
    CASE t.kind = "Tuple"  -> [kind |-> "Variant", innerType |-> t, variantType |-> "tuple"]
      [] t.kind = "Struct" -> [kind |-> "Variant", innerType |-> t, variantType |-> "struct"]
      [] OTHER             -> TypePanic

\* Structural equality of two types: optional depth, decimal (precision,
\* scale) and the ordered (name, type) pairs of a struct all take part.
equalsTo(a, b) == a = b

-----------------------------------------------------------------------------
(* Type.toYDB: the wire description of a type. *)

RECURSIVE TypeToYDB(_)
TypeToYDB(t) ==
    CASE t.kind = "Primitive" -> [oneof |-> "type_id", type_id |-> t.id]
      [] t.kind = "Optional"  -> [oneof |-> "optional_type", item |-> TypeToYDB(t.innerType)]
      [] t.kind = "List"      -> [oneof |-> "list_type", item |-> TypeToYDB(t.itemType)]
      [] t.kind = "Tuple"     ->
            [oneof |-> "tuple_type",
             elements |-> [i \in DOMAIN t.items |-> TypeToYDB(t.items[i])]]
      [] t.kind = "Struct"    ->
            [oneof |-> "struct_type",
             members |-> [i \in DOMAIN t.fields |->
                             [name |-> t.fields[i].Name, type |-> TypeToYDB(t.fields[i].T)]]]
      [] t.kind = "Dict"      ->
            [oneof |-> "dict_type",
             key |-> TypeToYDB(t.keyType), payload |-> TypeToYDB(t.valueType)]
      [] t.kind = "Decimal"   ->
            [oneof |-> "decimal_type", precision |-> t.Precision, scale |-> t.Scale]
      [] t.kind = "Variant"   ->
            [oneof |-> "variant_type",
             of    |-> IF t.variantType = "tuple" THEN "tuple_items" ELSE "struct_items",
             inner |-> TypeToYDB(t.innerType)]
      [] t.kind = "Void"      -> [oneof |-> "void_type"]
      [] t.kind = "Null"      -> [oneof |-> "null_type"]
      [] t.kind = "EmptyList" -> [oneof |-> "empty_list_type"]
      [] t.kind = "EmptyDict" -> [oneof |-> "empty_dict_type"]

(* TypeFromYDB: the in-memory type a wire description denotes. *)

RECURSIVE TypeFromYDB(_)
TypeFromYDB(x) ==
    CASE x.oneof = "type_id"         -> Primitive(x.type_id)
      [] x.oneof = "optional_type"   -> Optional(TypeFromYDB(x.item))
      [] x.oneof = "list_type"       -> List(TypeFromYDB(x.item))
      [] x.oneof = "tuple_type"      ->
            Tuple([i \in DOMAIN x.elements |-> TypeFromYDB(x.elements[i])])
      [] x.oneof = "struct_type"     ->
            Struct([i \in DOMAIN x.members |->
                       StructField(x.members[i].name, TypeFromYDB(x.members[i].type))])
      [] x.oneof = "dict_type"       -> Dict(TypeFromYDB(x.key), TypeFromYDB(x.payload))
      [] x.oneof = "decimal_type"    -> Decimal(x.precision, x.scale)
      [] x.oneof = "variant_type"    -> Variant(TypeFromYDB(x.inner))
      [] x.oneof = "void_type"       -> Void
      [] x.oneof = "null_type"       -> Null
      [] x.oneof = "empty_list_type" -> EmptyList
      [] x.oneof = "empty_dict_type" -> EmptyDict

-----------------------------------------------------------------------------
(* Measures used by the bounds of the models. *)

\* The maximum of a set of naturals, 0 for the empty set.
MaxOf(S) == IF S = {} THEN 0 ELSE CHOOSE m \in S : \A n \in S : n <= m

\* One more than the sum of a sequence of naturals: a node and its parts.
RECURSIVE SumNodes(_)
SumNodes(ns) == IF ns = <<>> THEN 1 ELSE Head(ns) + SumNodes(Tail(ns))

\* The number of type constructors in a type.
RECURSIVE TypeNodes(_)
TypeNodes(t) ==
    CASE t.kind \in {"Optional", "Variant"} -> 1 + TypeNodes(t.innerType)
      [] t.kind = "List"   -> 1 + TypeNodes(t.itemType)
      [] t.kind = "Dict"   -> 1 + TypeNodes(t.keyType) + TypeNodes(t.valueType)
      [] t.kind = "Tuple"  -> SumNodes([i \in DOMAIN t.items |-> TypeNodes(t.items[i])])
      [] t.kind = "Struct" -> SumNodes([i \in DOMAIN t.fields |-> TypeNodes(t.fields[i].T)])
      [] OTHER             -> 1
=============================================================================
