---------------------------- MODULE ValueSession ----------------------------
(***************************************************************************)
(* An application's use of the value model: it builds a value with the     *)
(* constructors of internal/value/value.go, hands it to ToYDB, and what    *)
(* comes back over the wire is handed to FromYDB.                          *)
(*                                                                         *)
(* The values under construction are a stack, the way nested constructor   *)
(* calls evaluate their arguments: a constructor takes its arguments from  *)
(* the top of the stack and leaves its result there.  A constructor that   *)
(* panics aborts the session.                                              *)
(***************************************************************************)
EXTENDS YdbWire

CONSTANTS
    Leaves,         \* scalar, decimal and void values the first argument is taken from
    MoreLeaves,     \* the values any further argument is taken from
    FieldNames,     \* names of struct fields, as strings of character codes
    VariantIndexes, \* the indexes given to the variant constructors
    Faults,         \* the ways a reply of the server departs from the echo
    MaxOperands,    \* bound on the number of values under construction
    MaxNodes        \* bound on the constructors in the values under construction

VARIABLES
    operands,   \* the values under construction, the most recent last
    aborted,    \* TRUE once a constructor has panicked
    sent,       \* the value handed to ToYDB, Nil before
    wire,       \* the typed value ToYDB returned, Nil before
    received    \* what FromYDB returned for it: a value or a panic, Nil before

vars == <<operands, aborted, sent, wire, received>>

-----------------------------------------------------------------------------
(* The stack. *)

Building == ~aborted /\ wire = Nil

Top(n)  == SubSeq(operands, Len(operands) - n + 1, Len(operands))
Rest(n) == SubSeq(operands, 1, Len(operands) - n)

\* The constructors in a stack of values.
StackNodes(stack) == SumNodes([i \in DOMAIN stack |-> Nodes(stack[i])]) - 1

\* The stack after a call that took n arguments and returned v.
Returned(n, v) == Append(Rest(n), v)

\* The call returned v in place of its n arguments, or panicked.  The model
\* follows a call only while the stack stays within its bounds.
Return(n, v) ==
    /\ ~IsPanic(v) => /\ Len(Returned(n, v)) <= MaxOperands
                      /\ StackNodes(Returned(n, v)) <= MaxNodes
    /\ operands' = IF IsPanic(v) THEN operands ELSE Returned(n, v)
    /\ aborted' = IsPanic(v)
    /\ UNCHANGED <<sent, wire, received>>

-----------------------------------------------------------------------------
(* Constructor calls. *)

\* A scalar constructor, DecimalValue or VoidValue.
MakeLeaf ==
    /\ Building
    /\ \E v \in IF operands = <<>> THEN Leaves ELSE MoreLeaves : Return(0, v)

WrapOptional ==
    /\ Building /\ operands # <<>>
    /\ Return(1, OptionalValue(Last(operands)))

\* NullValue and ZeroValue take a type: the type of a value already built.
MakeNull ==
    /\ Building /\ operands # <<>>
    /\ Return(1, NullValue(TypeOf(Last(operands))))

MakeZero ==
    /\ Building /\ operands # <<>>
    /\ Return(1, ZeroValue(TypeOf(Last(operands))))

MakeList ==
    /\ Building
    /\ \E n \in 0..Len(operands) : Return(n, ListValue(Top(n)))

MakeTuple ==
    /\ Building
    /\ \E n \in 0..Len(operands) : Return(n, TupleValue(Top(n)))

\* The fields are given in any order, under distinct names.
MakeStruct ==
    /\ Building
    /\ \E n \in 0..Len(operands) : \E name \in [1..n -> FieldNames] :
        /\ \A i, j \in 1..n : name[i] = name[j] => i = j
        /\ Return(n, StructValue([i \in 1..n |-> StructValueField(name[i], Top(n)[i])]))

\* The pairs are key, payload, key, payload, ... on the stack.
MakeDict ==
    /\ Building
    /\ \E n \in 0..(Len(operands) \div 2) :
        LET args == Top(2 * n) IN
        /\ \A i \in 1..n : StringModelled(args[2 * i - 1])
        /\ Return(2 * n, DictValue([i \in 1..n |->
                                      DictValueField(args[2 * i - 1], args[2 * i])]))

MakeVariantTuple ==
    /\ Building /\ operands # <<>>
    /\ \E idx \in VariantIndexes : Return(1, VariantValueTuple(Last(operands), idx))

MakeVariantStruct ==
    /\ Building /\ operands # <<>>
    /\ \E idx \in VariantIndexes : Return(1, VariantValueStruct(Last(operands), idx))

\* dictValue.Values() of the dict built last.  The call changes nothing of
\* the session unless it panics.
ReadValues ==
    /\ Building /\ operands # <<>> /\ Last(operands).kind = "Dict"
    /\ IsPanic(dictValue_Values(Last(operands)))
    /\ aborted' = TRUE
    /\ UNCHANGED <<operands, sent, wire, received>>

-----------------------------------------------------------------------------
(* The wire. *)

\* ToYDB of the value built last; the others were its discarded siblings.
Encode ==
    /\ Building /\ operands # <<>>
    /\ sent' = Last(operands)
    /\ wire' = ToYDB(Last(operands))
    /\ operands' = <<>>
    /\ UNCHANGED <<aborted, received>>

\* v and every value inside it.
RECURSIVE Parts(_)
Parts(v) == {v} \cup UNION { Parts(Children(v)[i]) : i \in DOMAIN Children(v) }

\* Every value of type t has a toString() that is modelled.
RECURSIVE StringModelledType(_)
StringModelledType(t) ==
    \/ t.kind = "Void"
    \/ t.kind = "Primitive" /\ StringModelled(zeroPrimitiveValue(t.id))
    \/ t.kind = "Optional" /\ StringModelledType(t.innerType)

\* Leaves a server can put where another was expected: numbers at the ends
\* of the 32-bit leaves, and a text.
ForeignLeaves ==
    { Node("int32_value", 2^(W32 - 1) - 1), Node("int32_value", -1),
      Node("uint32_value", 2^W32 - 1),      Node("text_value", <<>>) }

\* What a fault makes of a message, where it applies.
Fault(fault, applies, messages) == IF fault \in Faults /\ applies THEN messages ELSE {}

\* The message m with one fault at its root.
FaultyAtRoot(m) ==
    Fault("drop_item",  m.Items # <<>>, {[m EXCEPT !.Items = Front(m.Items)]}) \cup
    Fault("drop_item",  m.Pairs # <<>>, {[m EXCEPT !.Pairs = Front(m.Pairs)]}) \cup
    Fault("extra_item", m.Items # <<>>, {[m EXCEPT !.Items = Append(m.Items, Last(m.Items))]}) \cup
    Fault("other_leaf", TRUE, {[m EXCEPT !.Value = x] : x \in ForeignLeaves}) \cup
    Fault("null_flag",  TRUE, {[m EXCEPT !.Value = NullFlag]}) \cup
    Fault("nest",       TRUE, {Leaf(Node("nested_value", m))}) \cup
    Fault("index",      TRUE, {[m EXCEPT !.VariantIndex = AsUint(W32, m.VariantIndex + 1)]})

\* The message m with one fault, at its root or anywhere inside.
RECURSIVE Faulty(_)
Faulty(m) ==
    FaultyAtRoot(m) \cup
    UNION { {[m EXCEPT !.Items[i] = x] : x \in Faulty(m.Items[i])} : i \in DOMAIN m.Items } \cup
    UNION { {[m EXCEPT !.Pairs[i].Key = x] : x \in Faulty(m.Pairs[i].Key)} \cup
            {[m EXCEPT !.Pairs[i].Payload = x] : x \in Faulty(m.Pairs[i].Payload)} :
                i \in DOMAIN m.Pairs } \cup
    IF m.Value.is = "nested_value"
    THEN {[m EXCEPT !.Value.nested = x] : x \in Faulty(m.Value.nested)}
    ELSE {}

\* The server answers with another message than the one it was sent, under
\* the type it was sent.  The model follows it where the decoder can order
\* whatever it makes of a dict key.
Reply ==
    /\ wire # Nil /\ received = Nil
    /\ wire.Value = toYDB(sent)
    /\ \A v \in Parts(sent) : v.kind = "Dict" => StringModelledType(v.t.keyType)
    /\ \E m \in Faulty(wire.Value) : wire' = [wire EXCEPT !.Value = m]
    /\ UNCHANGED <<operands, aborted, sent, received>>

\* FromYDB of what the server answered.
Decode ==
    /\ wire # Nil /\ received = Nil
    /\ received' = FromYDB(wire.Type, wire.Value)
    /\ UNCHANGED <<operands, aborted, sent, wire>>

\* The next request starts from nothing.
Restart ==
    /\ aborted \/ received # Nil
    /\ operands' = <<>> /\ aborted' = FALSE
    /\ sent' = Nil /\ wire' = Nil /\ received' = Nil

-----------------------------------------------------------------------------
Init ==
    /\ operands = <<>> /\ aborted = FALSE
    /\ sent = Nil /\ wire = Nil /\ received = Nil

Next ==
    \/ MakeLeaf \/ WrapOptional \/ MakeNull \/ MakeZero
    \/ MakeList \/ MakeTuple \/ MakeStruct \/ MakeDict
    \/ MakeVariantTuple \/ MakeVariantStruct \/ ReadValues
    \/ Encode \/ Reply \/ Decode \/ Restart

Spec == Init /\ [][Next]_vars

-----------------------------------------------------------------------------
(* What the properties speak of. *)

Kinds == PrimitiveTypes \cup
         {"Optional", "List", "Tuple", "Struct", "Dict", "Variant", "Decimal", "Void"}

\* The Go type behind the payload of an integer kind.
KindRange(kind) ==
    CASE kind = "Int8"                              -> IntRange(W8)
      [] kind = "Int16"                             -> IntRange(W16)
      [] kind = "Int32"                             -> IntRange(W32)
      [] kind \in {"Int64", "Interval"}             -> IntRange(W64)
      [] kind = "Uint8"                             -> UintRange(W8)
      [] kind = "Uint16"                            -> UintRange(W16)
      [] kind \in {"Uint32", "Date", "Datetime"}    -> UintRange(W32)
      [] kind \in {"Uint64", "Timestamp"}           -> UintRange(W64)
      [] OTHER                                      -> Int

\* v is a value: a known kind, a payload within the Go type of the kind, and
\* values inside.
RECURSIVE IsValue(_)
IsValue(v) ==
    /\ v.kind \in Kinds
    /\ v.kind \in NumberKinds => v.n \in KindRange(v.kind)
    /\ v.kind \in {"UUID", "Decimal"} => v.u128 \in UintRange(W64) \X UintRange(W64)
    /\ v.kind = "Bool" => v.b \in BOOLEAN
    /\ \A i \in DOMAIN Children(v) : IsValue(Children(v)[i])

\* Every value the session holds, with the values inside them.
Held ==
    UNION { Parts(x) : x \in { y \in ToSet(operands) \cup {sent, received} :
                                   y.kind \in Kinds } }

\* The payload of v is of the type v carries (the values inside v apart).
TypedPayload(v) ==
    CASE v.kind = "Optional" -> v.value = Nil \/ TypeOf(v.value) = v.innerType.innerType
      [] v.kind = "Variant"  -> TypeOf(v.value) = v.innerType.innerType
      [] v.kind = "List"     -> \A i \in DOMAIN v.items : TypeOf(v.items[i]) = v.t.itemType
      [] v.kind = "Tuple"    -> v.t.items = [i \in DOMAIN v.items |-> TypeOf(v.items[i])]
      [] v.kind = "Struct"   ->
            v.t.fields = [i \in DOMAIN v.fields |->
                             StructField(v.fields[i].Name, TypeOf(v.fields[i].V))]
      [] v.kind = "Dict"     ->
            \A i \in DOMAIN v.values : /\ TypeOf(v.values[i].K) = v.t.keyType
                                       /\ TypeOf(v.values[i].V) = v.t.valueType
      [] OTHER               -> TRUE

\* The items of a list, or the pairs of a dict, are not all of the types of
\* the first.
Mixed(v) ==
    \/ v.kind = "List" /\ \E i \in DOMAIN v.items : TypeOf(v.items[i]) # TypeOf(v.items[1])
    \/ v.kind = "Dict" /\ \E i \in DOMAIN v.values :
           \/ TypeOf(v.values[i].K) # TypeOf(v.values[1].K)
           \/ TypeOf(v.values[i].V) # TypeOf(v.values[1].V)

\* An optional whose wire form keeps all of its payload: a NULL, an optional
\* that is not a NULL, or a payload whose message is its oneof and nothing
\* beside it, the oneof being neither a null flag nor a nested value.
PlainOptional(v) ==
    \/ v.value = Nil
    \/ v.value.kind = "Optional" /\ v.value.value # Nil
    \/ /\ v.value.kind \notin {"Optional", "Void", "Variant"}
       /\ toYDB(v.value) = [EmptyValue EXCEPT !.Value = toYDB(v.value).Value]

\* The values the wire format carries faithfully: typed payloads, no empty
\* list or dict, and optionals that are plain, all the way down.
RECURSIVE Portable(_)
Portable(v) ==
    /\ TypedPayload(v)
    /\ v.kind = "Optional" => PlainOptional(v)
    /\ v.kind \in {"List", "Dict"} => Children(v) # <<>>
    /\ \A i \in DOMAIN Children(v) : Portable(Children(v)[i])

\* An optional of optionals that ends in a NULL or in a plain scalar.
RECURSIVE OptionalChain(_)
OptionalChain(v) ==
    /\ v.kind = "Optional"
    /\ \/ v.value = Nil
       \/ IsScalar(v.value) /\ v.value.kind # "UUID"
       \/ OptionalChain(v.value)

\* The server answered with what it was sent.
Echoed == wire.Value = toYDB(sent)

\* The message ends, through nested values, in a null flag.
RECURSIVE ReachesNull(_)
ReachesNull(m) ==
    \/ m.Value.is = "null_flag_value"
    \/ m.Value.is = "nested_value" /\ ReachesNull(m.Value.nested)

\* The message m has the shape of a value of type t: as many items as the
\* type has elements, at least one item in a list and one pair in a dict, a
\* nested value for a variant, and the same of everything inside.  What the
\* oneof of a leaf holds is not part of the shape.
RECURSIVE Shaped(_, _)
Shaped(t, m) ==
    \/ t.kind \in {"Optional", "Void"} /\ ReachesNull(m)
    \/ CASE t.kind = "Primitive" ->
                t.id = "YSON" => m.Value.is \in {"text_value", "bytes_value"}
          [] t.kind \in {"Void", "Decimal"} -> TRUE
          [] t.kind = "Optional" ->
                Shaped(t.innerType, IF m.Value.is = "nested_value" THEN m.Value.nested ELSE m)
          [] t.kind = "List" ->
                /\ m.Items # <<>>
                /\ \A i \in DOMAIN m.Items : Shaped(t.itemType, m.Items[i])
          [] t.kind = "Tuple" ->
                /\ Len(m.Items) = Len(t.items)
                /\ \A i \in DOMAIN m.Items : Shaped(t.items[i], m.Items[i])
          [] t.kind = "Struct" ->
                /\ Len(m.Items) = Len(t.fields)
                /\ \A i \in DOMAIN m.Items : Shaped(t.fields[i].T, m.Items[i])
          [] t.kind = "Dict" ->
                /\ m.Pairs # <<>>
                /\ \A i \in DOMAIN m.Pairs : /\ Shaped(t.keyType, m.Pairs[i].Key)
                                             /\ Shaped(t.valueType, m.Pairs[i].Payload)
          [] t.kind = "Variant" ->
                /\ m.Value.is = "nested_value"
                /\ Shaped(t.innerType, m.Value.nested)
          [] OTHER -> FALSE

\* The types ZeroValue has a case for, as far down as it looks: it stops at
\* an optional, a list and a dict, and answers any decimal type with the
\* zero of Decimal(22,9).
RECURSIVE ZeroCovered(_)
ZeroCovered(t) ==
    CASE t.kind \in {"Primitive", "Optional", "List", "Dict"} -> TRUE
      [] t.kind = "Decimal" -> t = Decimal(22, 9)
      [] t.kind = "Tuple"   -> \A i \in DOMAIN t.items : ZeroCovered(t.items[i])
      [] t.kind = "Struct"  -> \A i \in DOMAIN t.fields : ZeroCovered(t.fields[i].T)
      [] t.kind = "Variant" -> ZeroCovered(t.innerType)
      [] OTHER              -> FALSE

\* A decimal as the specification writes it: the sign, the digits with the
\* point Scale digits from the right, zeros where the number has too few.
DecimalText(n, scale) ==
    LET digits == FormatUint(IF n < 0 THEN -n ELSE n)
        padded == [i \in 1..(scale + 1 - Len(digits)) |-> 48] \o digits
        point  == Len(padded) - scale
    IN  (IF n < 0 THEN <<45>> ELSE <<>>)
            \o SubSeq(padded, 1, point) \o <<46>> \o SubSeq(padded, point + 1, Len(padded))

\* The strings the keys of a dict are ordered by.
KeyStrings(v) == [i \in DOMAIN v.values |-> toString(v.values[i].K)]

-----------------------------------------------------------------------------
(* Properties that hold. *)

\* The state is well formed: the stack holds values within the bound, every
\* integer payload is within the Go type of its kind, a wire message exists
\* exactly when a value was handed to ToYDB, and FromYDB returned a value or
\* panicked.  A constructor that panics (DictValue without pairs, ZeroValue
\* of an uncovered type, VariantValueTuple of a non-tuple) must never leave
\* its result among the values under construction.
TypeOK ==
    /\ Len(operands) <= MaxOperands
    /\ \A i \in DOMAIN operands : IsValue(operands[i])
    /\ aborted \in BOOLEAN
    /\ sent = Nil \/ IsValue(sent)
    /\ (wire = Nil) <=> (sent = Nil)
    /\ received = Nil \/ IsPanic(received) \/ IsValue(received)

\* The type a value carries is the type of what it holds, whichever way it
\* was made (a constructor, ZeroValue, NullValue, the decoder), except for
\* the one thing no constructor checks: a list or a dict takes its type from
\* its first element, and ListValue, whose check compares the type of each
\* item with itself, lets items of other types in.  A value is ill-typed
\* exactly when it is such a list or dict; the zero values of the types
\* ZeroValue does not cover, which ZeroValueOfItsType is about, are left
\* aside.
IllTypedOnlyByMixing ==
    \A v \in Held : ZeroCovered(TypeOf(v)) => (TypedPayload(v) <=> ~Mixed(v))

\* "different types of items": ListValue panics when its items are not of
\* one type, so every list there is holds items of the type of its first
\* (the loop over the items in ListValue, which compares v.Type() with
\* v.Type()).
ListItemsOfOneType ==
    \A v \in Held :
        v.kind = "List" => \A i \in DOMAIN v.items : TypeOf(v.items[i]) = TypeOf(v.items[1])

\* Round trip: of the values whose parts hold what their types say,
\* FromYDB(ToYDB(v)) is v exactly for the portable ones.  Each toYDB writes
\* the leaf that primitiveValueFromYDB reads for the same kind,
\* optionalValue.toYDB and the optional case of fromYDB agree on when a
\* nested value stands for an optional level, and StructValue and DictValue
\* called by the decoder restore the order the encoder wrote; an optional
\* that is not plain loses what its payload keeps beside the oneof, or the
\* level of its NULL, and a list or dict without elements loses its type or
\* panics in the decoder.
RoundTripIffPortable ==
    (received # Nil /\ Echoed /\ \A v \in Parts(sent) : TypedPayload(v))
        => (received = sent <=> Portable(sent))

\* ZeroValue(t) is a value of type t, typed all the way down, exactly for
\* the types it covers; it panics at a Void, a Null, an EmptyList or an
\* EmptyDict anywhere in a tuple, struct or variant, and under a decimal
\* type other than Decimal(22,9) it returns a value of another type.  About
\* the type switch of ZeroValue (its void case matches a pointer, the void
\* type is a value), the types its constructors compute again, and
\* zeroPrimitiveValue returning the kind asked for.
ZeroValueOfItsType ==
    \A v \in Held :
        LET t == TypeOf(v)
            z == ZeroValue(t)
        IN  ZeroCovered(t) <=>
                /\ ~IsPanic(z)
                /\ TypeOf(z) = t
                /\ \A p \in Parts(z) : TypedPayload(p)

\* The text of a decimal is the number with the point Scale digits from
\* the right ("0.000000000" for the zero of Decimal(22,9), a leading "-"
\* for a negative number; specification, section 8, property 13 and
\* scenario S5) exactly when the number has more digits than Scale.
\* decimalValue.toString cuts the text of the number, sign included, Scale
\* characters from the right: with as many digits as Scale nothing is left
\* before the point, with fewer the point lands before the sign or the
\* slice starts before the string and the call panics.
DecimalTextIffLongerThanScale ==
    \A v \in Held : v.kind = "Decimal" =>
        LET n    == FromBytes(v.u128, v.innerType.Precision, v.innerType.Scale)
            text == decimalValue_toString(v)
        IN  (~IsPanic(text) /\ text.s = DecimalText(n, v.innerType.Scale))
                <=> Len(FormatUint(IF n < 0 THEN -n ELSE n)) > v.innerType.Scale

\* The decoder against a server that answers with any message: whenever the
\* message has the shape of the type asked for, FromYDB returns a value of
\* that type in which every container holds what its type says, whatever
\* the leaves hold and at whatever depth the message was changed; and only
\* then.  About the order of nullValueFromYDB
\* and the switch on the type in fromYDB, the getters that read another
\* alternative as zero, the element types indexed by the position of the
\* item, and the types the constructors called by the decoder compute again
\* from what was decoded.
DecodeTypedIffShaped ==
    received # Nil =>
        LET t == TypeFromYDB(wire.Type)
        IN  Shaped(t, wire.Value) <=>
                /\ ~IsPanic(received)
                /\ TypeOf(received) = t
                /\ \A v \in Parts(received) : TypedPayload(v)

\* Struct order canonicalisation: StructValue sorts its fields by name, so
\* whatever the order of the arguments the value, its type and so the items
\* its toYDB writes are the same.  Holds of every struct the session holds,
\* those built by ZeroValue and by the decoder included.
StructOrderCanonical ==
    \A v \in Held : v.kind = "Struct" =>
        \A fields \in SetToSeqs(ToSet(v.fields)) : StructValue(fields) = v

\* Dict key canonicalisation: DictValue sorts its pairs by the toString() of
\* the key, so for keys whose strings differ the value is the same whatever
\* the order of the arguments, and the strings ascend along the pairs.  (The
\* dict without pairs is built by ZeroValue alone, never by DictValue.)
DictOrderCanonical ==
    \A v \in Held : (v.kind = "Dict" /\ v.values # <<>> /\ IsInjective(KeyStrings(v))) =>
        /\ \A values \in SetToSeqs(ToSet(v.values)) : DictValue(values) = v
        /\ \A i, j \in DOMAIN v.values : i < j => StrLess(KeyStrings(v)[i], KeyStrings(v)[j])

-----------------------------------------------------------------------------
(* Properties the specification states and the code does not have. *)

\* Optional nesting preservation (specification, section 8, property 4): an
\* optional of optionals round-trips to the same shape, the level at which
\* it is NULL included.  About optionalValue.toYDB and nullValueFromYDB.
OptionalNestingPreserved ==
    (received # Nil /\ OptionalChain(sent)) => received = sent

\* Dict key canonicalisation (specification, section 8, property 3): the
\* order of the pairs of a dict with distinct keys of one type does not
\* depend on the order of the arguments of DictValue.
DictOrderDeterministic ==
    \A v \in Held : (v.kind = "Dict" /\ v.values # <<>> /\ TypedPayload(v)
                       /\ IsInjective([i \in DOMAIN v.values |-> v.values[i].K])) =>
        \A values \in SetToSeqs(ToSet(v.values)) : DictValue(values) = v
=============================================================================
