--------------------------- MODULE ValueAliasing ---------------------------
(***************************************************************************)
(* The slices behind the container values of internal/value/value.go.      *)
(*                                                                         *)
(* ListValue, TupleValue, StructValue and DictValue are variadic.  Called  *)
(* with arguments, f(x, y), Go makes a new slice that only the value       *)
(* holds.  Called with a slice, f(args...), the value keeps that very      *)
(* slice: the caller and the value share one backing array.  StructValue   *)
(* and DictValue sort it in place, and tupleValue.Items() hands the slice  *)
(* of a tuple out again.                                                   *)
(*                                                                         *)
(* The other modules take a value to be an immutable record.  Here a       *)
(* value is a kind, the type computed when it was built, and a reference   *)
(* to a backing array, so that a write through one reference is seen       *)
(* through the other.                                                      *)
(***************************************************************************)
EXTENDS YdbValue

CONSTANTS
    Arrays,         \* the backing arrays a program may allocate
    Items,          \* the values put into slices
    FieldNames,     \* the names of struct fields
    MaxLen,         \* the longest slice
    MaxBuilt        \* the most container values built before a restart

VARIABLES
    heap,           \* backing array -> what it holds, NoArray before it is made
    shared,         \* the backing arrays the caller has a slice of
    built,          \* the container values built so far
    aborted         \* a constructor panicked

vars == <<heap, shared, built, aborted>>

-----------------------------------------------------------------------------
(* Slices.  The element type of a Go slice is fixed: []Value,              *)
(* []StructValueField or []DictValueField.                                 *)

NoArray == [elem |-> "none"]

ElementsOf(elem) ==
    CASE elem = "values" -> Items
      [] elem = "fields" -> { StructValueField(n, v) : n \in FieldNames, v \in Items }
      [] elem = "pairs"  -> { DictValueField(k, v) : k \in Items, v \in Items }

SlicesOf(elem) == UNION { [1..n -> ElementsOf(elem)] : n \in 0..MaxLen }

Array(elem, slice) == [elem |-> elem, at |-> slice]

\* The slice each constructor takes.
Takes == [List |-> "values", Tuple |-> "values", Struct |-> "fields", Dict |-> "pairs"]

\* The slice a container value keeps: items, fields or values.
Kept(v) ==
    CASE v.kind \in {"List", "Tuple"} -> v.items
      [] v.kind = "Struct"           -> v.fields
      [] v.kind = "Dict"             -> v.values

\* &listValue{t: t, items: items}: the type as computed, the slice by
\* reference.
Ref(kind, t, a) == [kind |-> kind, t |-> t, ref |-> a]

-----------------------------------------------------------------------------
(* The state. *)

TypeOK ==
    /\ heap \in [Arrays -> {NoArray} \cup
                    UNION { { Array(elem, s) : s \in SlicesOf(elem) } :
                            elem \in {"values", "fields", "pairs"} }]
    /\ shared \subseteq { a \in Arrays : heap[a] # NoArray }
    /\ \A b \in built : /\ b.kind \in DOMAIN Takes
                        /\ heap[b.ref].elem = Takes[b.kind]
    /\ aborted \in BOOLEAN

Init ==
    /\ heap = [a \in Arrays |-> NoArray]
    /\ shared = {}
    /\ built = {}
    /\ aborted = FALSE

-----------------------------------------------------------------------------
(* The caller. *)

\* args := []Value{...}
MakeSlice ==
    /\ ~aborted
    /\ \E a \in Arrays, elem \in {"values", "fields", "pairs"} :
        /\ heap[a] = NoArray
        /\ \E s \in SlicesOf(elem) : heap' = [heap EXCEPT ![a] = Array(elem, s)]
        /\ shared' = shared \cup {a}
    /\ UNCHANGED <<built, aborted>>

\* args[i] = x
Store ==
    /\ ~aborted
    /\ \E a \in shared : \E i \in DOMAIN heap[a].at :
        \E x \in ElementsOf(heap[a].elem) \ {heap[a].at[i]} :
            heap' = [heap EXCEPT ![a].at[i] = x]
    /\ UNCHANGED <<shared, built, aborted>>

-----------------------------------------------------------------------------
(* The constructors. *)

\* The arguments of a variadic call, as the backing array and the slice:
\* f(args...) on a slice of the caller, or f(x, y, ...), for which Go
\* makes a slice of its own.
Arguments(elem) ==
    { <<a, heap[a].at>> : a \in { b \in shared : heap[b].elem = elem } }
        \cup ({ a \in Arrays : heap[a] = NoArray } \X SlicesOf(elem))

\* What a constructor leaves behind when it has made v of the slice in the
\* backing array a: its sort, if it has one, was done in the array, and the
\* value refers to the array.  A panic leaves no value.
Return(a, elem, v) ==
    IF IsPanic(v)
    THEN /\ aborted' = TRUE
         /\ UNCHANGED <<heap, built>>
    ELSE /\ heap' = [heap EXCEPT ![a] = Array(elem, Kept(v))]
         /\ built' = built \cup {Ref(v.kind, v.t, a)}
         /\ UNCHANGED aborted

Calling == ~aborted /\ Cardinality(built) < MaxBuilt

CallListValue ==
    /\ Calling
    /\ \E x \in Arguments("values") : Return(x[1], "values", ListValue(x[2]))
    /\ UNCHANGED shared

CallTupleValue ==
    /\ Calling
    /\ \E x \in Arguments("values") : Return(x[1], "values", TupleValue(x[2]))
    /\ UNCHANGED shared

CallStructValue ==
    /\ Calling
    /\ \E x \in Arguments("fields") : Return(x[1], "fields", StructValue(x[2]))
    /\ UNCHANGED shared

CallDictValue ==
    /\ Calling
    /\ \E x \in Arguments("pairs") : Return(x[1], "pairs", DictValue(x[2]))
    /\ UNCHANGED shared

\* tupleValue.Items(): the slice of the tuple itself.
TupleItems ==
    /\ ~aborted
    /\ \E b \in built : /\ b.kind = "Tuple"
                        /\ b.ref \notin shared
                        /\ shared' = shared \cup {b.ref}
    /\ UNCHANGED <<heap, built, aborted>>

\* The process ends and another begins.
Restart ==
    /\ heap' = [a \in Arrays |-> NoArray]
    /\ shared' = {}
    /\ built' = {}
    /\ aborted' = FALSE

Next ==
    \/ MakeSlice \/ Store
    \/ CallListValue \/ CallTupleValue \/ CallStructValue \/ CallDictValue
    \/ TupleItems
    \/ Restart

Spec == Init /\ [][Next]_vars

-----------------------------------------------------------------------------
(* Properties. *)

\* Ownership (specification, section 3: "a Value exclusively owns its
\* payload; container values own their element Values", and a Value has an
\* immutable type): once ListValue, TupleValue, StructValue or DictValue
\* has returned a value, no step of the program changes what the value
\* holds.
ValueOwnsItsPayload ==
    [][\A b \in built \cap built' : heap'[b.ref] = heap[b.ref]]_vars

=============================================================================
