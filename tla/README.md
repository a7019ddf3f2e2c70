# TLA+ models of ydb-go-sdk

This directory holds TLA+ specifications of the parts of the SDK whose source
is in this repository, the TLC configurations that check them, and
`PROJECT.json`, which lists the components, the runs, the map from every
definition to the lines of Go it models, the findings and the hazards.

Run a check with `tlc -workers 2 -config <run>.cfg <module>`, the module being
`MCValueSession`, for `cast` `MCCastSession`, for `aliasing`
`MCValueAliasing`, for `balancer_test` `MCBalancerTest`, and for `registry`,
`discovery_failure` and `load_factor` `MCCluster`.

## 1. The system

| Part | Source | What it is |
|---|---|---|
| Typed value model | `src/internal/value/value.go` | 33 kinds of value (25 scalars, decimal, optional, list, tuple, struct, dict, variant, void), their constructors, `Type()`, `toString()`, `castTo()`, `toYDB()`, the decoder `FromYDB`, and `ZeroValue` |
| Type registry | `type.go` (not in `src/`) | The types the values carry, their equality and their wire form |
| Arena allocator | `internal/allocator` (not in `src/`) | Hands out zeroed wire nodes to the encoder |
| Decimal codec | `internal/decimal` (not in `src/`) | Big integers to 16 bytes and back; `decimalValue.toString()` of `value.go` writes the text |
| Discovery client | `src/discovery.go` | One RPC, `ListEndpoints`, turned into a list of `Endpoint` |
| Endpoint registry | the discovery loop (not in `src/`) | Calls `Discover` on a tick and reconciles the answer into the balancer |
| Balancer | tests only, `src/unnamed/part_000` | Insert, Remove, Pessimize, Next over weighted connections |
| Generated scanner | `src/cmd/ydbgen/tests/date_ydbgen.go` | Scan, query parameters and struct value of one test struct |

### State

The value model is a library of immutable values; the state of a program using
it is the values it holds and the wire messages in flight. The discovery
client holds `database` and `ssl`; the balancer holds the set of elements,
their load factors and the banned ones; the discovery loop holds the call
in flight.

### Operations

* constructors: one per scalar kind, `DecimalValue`, `VoidValue`,
  `OptionalValue`, `NullValue`, `ListValue`, `TupleValue`, `StructValue`
  (sorts by name), `DictValue` (sorts by the key's `toString()`),
  `VariantValue`, `VariantValueTuple`, `VariantValueStruct`, `ZeroValue`;
* `ToYDB(v)`: the wire type and the wire value;
* `FromYDB(t, v)`: `nullValueFromYDB` first, then by the wire type, calling
  the constructors again for the containers; panics where `fromYDB` returns an
  error;
* `castTo(dst)`: the cast matrix from a kind to a Go destination;
* `DateValueFromTime`, `DatetimeValueFromTime`, `TimestampValueFromTime`,
  `IntervalValueFromDuration`: a Go time or duration made into a count;
* `Values()` and `Fields()`: a dict and a struct copied into a Go map;
* `Discover`: the endpoints whose `Ssl` is the client's, `Local` set by
  location.

### Interactions

The encoder and the decoder meet on the wire: what one writes the other must
read as the same value. The decoder calls the constructors, so their
canonicalising sorts run twice. `ZeroValue` builds values from types, by
another path than the constructors. Discovery feeds the balancer with
endpoints.

### What is hard

The value model is sequential; what is hard in it is the number of shapes: 33 kinds nested
in each other, each encoded by one function and decoded by another, with
integer kinds narrower than their wire leaf, optional levels that are
sometimes a wire node and sometimes not, and two sorts whose order depends on
strings. A unit test covers a handful of shapes; the model builds every value
up to a size and sends it through.

On the cluster side the sources hold one call, `Discover`, and the tests of
the balancer. What is hard there is what `Discover` makes of a call that did
not bring a listing: the listing it returns is reconciled as authoritative, so
an answer taken for a listing by mistake empties the balancer. The workers
that call `Next` and `Pessimize` concurrently, the mutex of the balancer and
the timer of the discovery loop are not in the sources and not modelled.

### What must hold

1. Round trip: `FromYDB(ToYDB(v)) = v` (specification, 8.1).
2. A struct is the same value whatever the order of the arguments (8.2).
3. The order of the pairs of a dict does not depend on the order of the
   arguments (8.3).
4. Optional nesting is preserved, NULL levels included (8.4).
5. A constructor either returns a well-formed value or panics; `ZeroValue`
   returns a value for every type a value can have.
6. The items of a list are of the item type of the list.
7. The balancer holds the endpoints of the last listing that speak the
   client's ssl; a failed discovery leaves it as it is (4.5, 7).
8. A banned connection is handed out only when every element is banned
   (4.6, 8.10), and no row of the balancer's tests fails.
9. The decoder makes of a reply a value of the type that came with it, or
   refuses it (7).
10. A value owns its payload: nothing changes it once it is built (3, 5).
11. A temporal value is the count of its unit since the epoch (3), and the
    text of an interval is the interval.
12. An endpoint is received with its load factor (4.5).
13. The text of a decimal has the point `scale` digits from the right, the
    zero of Decimal(22, 9) being `0.000000000` (8.13, S5).
14. The keys of a dict are distinct (9).

## 2. The modules

| Module | Models | From |
|---|---|---|
| `YdbType` | type constructors, `equalsTo`, `TypeToYDB`, `TypeFromYDB` | the specification (type.go is not in `src/`) |
| `YdbValue` | Go integer conversions, `strconv` formatting, string order, `sort.Slice`, all constructors, `Type()`, `toString()`, `Values()`, `Fields()`, `ZeroValue`, `DecimalValueFromBigInt`; `BigIntToByte` and `FromBytes` of the decimal codec | `value.go`; the specification, 4.4, for the codec |
| `YdbTime` | the constructors from a Go time or duration, `intervalValue.toString()` | `value.go` |
| `YdbWire` | wire nodes, `toYDB` of every kind, `ToYDB`, `nullValueFromYDB`, `primitiveValueFromYDB`, `fromYDB`, `FromYDB` | `value.go` |
| `YdbCast` | `castTo` of every kind: the destinations accepted, Go's numeric conversions (wrapping to integers, rounding to floats), the delegation of optionals, variants and one-item tuples | `value.go` |
| `ValueSession` | a program that builds values, encodes one and decodes the reply, which is the echo or the echo with one fault; the properties | `value.go` |
| `MCValueSession` | the pools of values and names for TLC | |
| `ValueAliasing` | the slices behind the container values: the backing arrays, the caller's slices, the variadic constructors that keep them, `tupleValue.Items()` | `value.go` |
| `MCValueAliasing` | the values and names for TLC | |
| `CastSession` | a caller that reads a column, written as a value or from a Go time, possibly wrapped, and scans it into a destination; the properties | `value.go` |
| `MCCastSession` | the columns and the times for TLC | |
| `Discovery` | `Endpoint`, `discoveryClient`, the responses of `ListEndpoints`, `Discover` | `discovery.go` |
| `Balancer` | the table of elements, `Insert`, `Remove`, `Pessimize`, the set `Next` selects among | the specification, 4.6 (the balancer is not in `src/`); `Pessimize` returns what the tests of `part_000` expect |
| `Registry` | the abstract registry: the usable endpoints, a snapshot of them on its way, the members | the specification, 4.5 |
| `Cluster` | the service, the discovery call in flight, the reconcile of what `Discover` returns; the properties | `Discover` from `discovery.go`; the loop around it from the specification, 4.5 |
| `MCCluster` | three endpoints and the client for TLC | |
| `BalancerTest` | `TestRoundRobinBalancer`: the subtest of each row, the loops over `add`, `del` and `banned`, the calls of `Next`, the comparison with `exp`, what the row reports; the properties | `part_000` |
| `MCBalancerTest` | the thirteen rows of `testData` | |

### How the model corresponds to the code

A value is a record tagged by `kind`, with the Go field names for the
containers (`t`, `items`, `fields`, `values`, `innerType`, `value`, `idx`). A
payload field holds one sort of thing: `n` an integer, `b` a boolean, `s` a
string as a sequence of character codes, `u128` sixteen bytes as
`<<high, low>>`. `Nil` is the nil `Value` of a NULL, `Panic` the result of a
call that did not return, `DecodeError` the error `fromYDB` returns.

A wire value is the protobuf message `[Value, Items, Pairs, VariantIndex,
High_128]`; `Value` is the oneof, tagged by `is`. The getters `GetB`, `GetN`,
`GetS` return the zero of their sort when another alternative is set, as the
generated getters do.

Operators are named after the functions: `int8Value_toYDB` is
`int8Value.toYDB`, `fromYDB` is `fromYDB`. The control of every function is
kept: the order of the checks in `fromYDB` (null first, then the type), the
type assertion of the variant case that panics on a message that is not
nested, the self-comparison in `ListValue`, the index `values[0]` in
`DictValue`, the dead `*voidType` case of `ZeroValue`, the direct construction
of the zero list and dict. `sort.Slice` is the insertion sort the Go runtime
uses below twelve elements (`SortSlice`, `InsertionStep`), so what the sort
does with elements that compare equal is what the build does.

Data is abstracted where no property tells it apart: floats are whole
numbers, the temporal kinds are integers, the `toString()` of the dates and
times, of the floating-point and uuid kinds and of the containers other than
lists is not modelled and `StringModelled` keeps such values from being dict
keys.

A decimal is its sixteen bytes, `<<high, low>>`. `FromBytes` reads them as a
number in two's complement and `BigIntToByte` writes one, as the
specification describes the codec; `decimalValue_toString` is the method of
`value.go`: the text of that number, sign included, sliced `Scale` characters
from the right, `Panic` when the slice would start before the text, and
`GoString` of the text otherwise. Decimals stay out of `StringModelled`: the
text of a container around a decimal and the sort of decimal keys are not
followed.

`Values()` and `Fields()` return a Go map, `[kind |-> "map", at |-> ...]`. A
key of a map is what Go hashes: the content for the kinds that are Go values,
the address for the kinds that are pointers (`ByAddress`; two keys built
apart are two keys even when equal), and nothing for a byte slice
(`Unhashable`), on which the assignment panics. `ReadValues` of
`ValueSession` is the call of `Values()` that panics. No property is stated
of the maps: each accessor is one loop, and a property of its result says
again what a Go map does with its keys; what they do with byte slices and
with equal keys is listed among the findings.

`YdbTime` takes a `time.Time` to be the nanoseconds since the epoch, of any
size, and a `time.Duration` an integer of `W64` bits. `SinceEpoch` is
`t.Sub(epoch)`, which saturates at the ends of a Duration; `Unix` is
`t.Unix()`, which rounds down; `Quo` is Go's division, which rounds toward
zero; the conversions to `uint64` and `uint32` keep the low bits. The units
are constants (`Microsecond`, `Second`, `Minute`, `Hour`, `hoursPerDay`,
`secondsPerDay`). The text of an interval is the sequence of what
`intervalValue.toString()` writes to its buffer: the sign, the `P`, the `T`,
and each count with its designator.

Integer widths are constants. TLC's integers are 32 bits wide, so the
configurations scale Go's 8, 16, 32 and 64 bits to `W8 = 8`, `W16 = 16`,
`W32 = 20`, `W64 = 24`: the order of the widths and the narrowing from the
32-bit leaf to the 8- and 16-bit kinds are kept, and 8 and 16 are exact.

`ValueSession` is the program around the library. Its state is the stack of
values under construction (`operands`), whether a constructor panicked
(`aborted`), the value handed to `ToYDB` (`sent`), the message (`wire`) and
what `FromYDB` returned (`received`). Each constructor is an action that takes
its arguments from the top of the stack; `Encode` and `Decode` are the calls
of `ToYDB` and `FromYDB`; `Restart` begins the next request.

Between `Encode` and `Decode` the step `Reply` stands for a server that does
not echo. It replaces the message by one of `Faulty(m)`: the message with one
fault, at the root or inside an item, a key, a payload or a nested value.

| Fault | The reply |
|---|---|
| `drop_item` | `Items` or `Pairs` without its last element |
| `extra_item` | `Items` or `Pairs` with its last element twice |
| `other_leaf` | a leaf of another alternative of the oneof (`ForeignLeaves`: the ends of `int32` and `uint32`, an empty text) |
| `null_flag` | a null flag where a value was |
| `nest` | the message inside one more nested value |
| `index` | the next variant index |

The constant `Faults` names the faults a run allows; it is empty in the runs
about the echo, where `Reply` is never enabled. The type of the reply is the
type that was sent: the decoder is given both, and a fault of the type is a
fault of the value seen from the other side.

`ValueAliasing` gives up the immutable records for the one thing they hide.
A container value is `[kind, t, ref]`: the type computed by the constructor
and a reference to a backing array in `heap`; `shared` is the set of backing
arrays the caller has a slice of.

| Action | Code |
|---|---|
| `MakeSlice`, `Store` | the caller: `args := []Value{...}`, `args[i] = x` |
| `CallListValue`, `CallTupleValue`, `CallStructValue`, `CallDictValue` | the constructor, as `f(args...)` on a shared array or as `f(x, y)` on an array of its own; the value is computed by the operator of `YdbValue`, the sort is written to the array, the array is what the value refers to |
| `TupleItems` | `Items()`: the caller gets the slice of the tuple |
| `Restart` | the process ends, after a panic or at any time |

`YdbCast` names a destination by its Go type (`"int8"`, ..., `"float64"`,
`"string"`, `"bytes"`, `"bool"`, `"time"`, `"duration"`, `"array16"`, and
`"other"` for every type no `castTo` has a case for). A cast returns
`CastError`, `errOptionalNilValue`, or what it wrote: `[dst, n]`, `[dst, s]`,
`[dst, b]`, `[dst, u128]`. `ConvertTo` is Go's `T(x)`: the low bits for an
integer type, the nearest number of `Mant32 = 18` or `Mant64 = 22`
significant bits for a float, ties to even (`RoundToFloat`); the significands
are scaled with the widths so that, as in Go, `W16 < Mant32 < W32 < Mant64 <
W64`. The text of a floating-point number is kept as the number.

`CastSession` has three variables: `column`, the value under the cursor,
`outcome`, what `castTo` wrote or returned, and `origin`, the Go time the
column was made from when it was. `Fetch` reads a column, `FetchTime` one
that a `...FromTime` constructor wrote, the `Wrap` actions call a
constructor on it, `Scan` calls `castTo` with a destination.

`Discovery` models `Discover` as an operator of the client and the response.
A response is a listing, a transport error, bytes that do not unmarshal, or an
operation that failed and carries no result. `ListEndpointsResult` is what
`proto.Unmarshal` makes of `GetOperation().GetResult().GetValue()`: the
listing, or, of the nil the getters return when there is no result, an empty
message. An address stands for the pair of address and port. `Endpoint` has
the `LoadFactor` field, which `Discover` never sets.

`Cluster` puts `Discover` between a service and a balancer:

| Variable | Holds |
|---|---|
| `listing`, `changes` | the endpoints the service lists with their load factors; how often that changed |
| `inflight` | the discovery call: `Idle`, `Request`, or the response on its way back |
| `elements` | the balancer's table, connection to `[info, state]` |

| Action | Code |
|---|---|
| `Change` | an endpoint joins, leaves or reports another load |
| `Tick` | the loop calls `Discover`: the request is on its way (specification, 4.5) |
| `AnswerListing`, `AnswerFailure` | the service or the transport responds |
| `Refresh` | `Discover` on the response (the operator of `Discovery`, from `discovery.go`), and the reconcile of what it returns: on a nil error `Remove` of every missing entry, refresh of the ones there, `Insert` of the new ones, atomic per refresh (specification, 4.5 and 5) |
| `Cancel` | the context is done; a late answer is dropped |

Of these only `Discover` is translated from the sources; the service, the
tick, the cancellation and the reconcile are modelled from the specification
and marked so in `PROJECT.json`. The callers of `Next` and `Pessimize` are
not part of the model: nothing of them is in the sources, and with every
operation of the balancer one atomic step a property about them says again
what the contract says of a single call.

`BalancerTest` is the test of `part_000` run against `Balancer`. Its
variables are the row (`test`), what of `add`, `del` and `banned` is still to
be ranged over (`left`), the balancer (`r`), the calls of `Next` made
(`calls`), the addresses counted (`mdist`, as the set of the addresses with a
count), the failures reported (`errors`) and whether the row is over
(`ended`). `InsertEach`, `RemoveEach` and
`PessimizeEach` are one pass of the three loops each, the last in any order,
as Go ranges over a map; `CallNext` is one pass of the loop of `repeat`
calls, in which a nil with elements left is `t.Fatal` and ends the row;
`Compare` is the comparison with `exp`, which reports an address that was
returned and is expected never or not at all (`Mismatches`) and ends the row;
`RunNext` is `t.Run` of the next row. After the last row the test is over,
which is why `balancer_test` does not check for deadlock.
`TestRandomChoiceBalancer` is the same driver on the same balancer; it
differs in the tolerance of the comparison, which the model, keeping of a
count whether it is zero, does not tell apart.

`Pessimize` of `Balancer` returns nil. The specification has it return
`AllBannedError` to the call that bans the last online element; the tests
ban all three elements in two rows and report any error, so the balancer
they were written for does not. `Pessimize_TellingAllBanned` is the
Pessimize of the specification: put in the place of `Pessimize`, it makes
`NoRowFails` fail in those two rows.

The constant `Failures` names the failed responses the service may give:
`TransportError` and `Garbage`, which `Discover` reports, and
`OperationFailed`, which it takes for an empty listing.

### The abstract registry and the refinement

`Registry` says what the discovery loop promises and nothing of how: there is
a set of endpoints the client could use (`offered`), at most one snapshot of
it on its way (`snapshot`), and the set the balancer holds (`members`).
`Offer` changes the first, `Take` copies it into the snapshot, `Install`
makes the snapshot the members, `Drop` forgets it. The members are therefore
always a set that was offered as a whole at one moment: never a mixture of two
listings, never changed by anything but a refresh.

`Cluster` implements it under the mapping

| `Registry` | `Cluster` |
|---|---|
| `offered` | `Usable`: the listed addresses whose ssl is the client's |
| `snapshot` | `SnapshotInFlight`: the same filter on the listing in `inflight`, when `inflight` is a listing |
| `members` | `Conns(elements)`: the connections in the balancer's table |

`Change` is `Offer` or a stuttering step (a load factor, an endpoint the
filter drops), `AnswerListing` is `Take`, `Refresh` of a listing `Install`,
`Cancel` and `Refresh` of a failure `Drop` or stuttering. The
refinement is `RegistrySpec == Abstract!Spec`, checked as a property; both
specifications are safety properties.

## 3. The runs

| Run | Expect | Properties | Shows |
|---|---|---|---|
| `roundtrip` | pass | `TypeOK`, `RoundTripIffPortable`, `IllTypedOnlyByMixing`, `ZeroValueOfItsType`, `DecimalTextIffLongerThanScale` | of the values of up to 4 constructors over a boundary value of each scalar kind, exactly the portable ones round-trip; the type of a value is the type of what it holds unless it is a list of mixed items; `ZeroValue` gives a value of the type asked for exactly for the types it covers; the text of a decimal is the specified one exactly when the number has more digits than the scale; no panic or out-of-range payload is kept as a value |
| `canonical` | pass | `RoundTripIffPortable`, `StructOrderCanonical`, `DictOrderCanonical` | structs and dicts of up to 4 arguments are independent of the argument order; the decoder's second sort restores what was sent |
| `nested_null` | violation | `OptionalNestingPreserved` | `Some(NULL)` comes back as the outer `NULL` |
| `aliasing` | violation | `ValueOwnsItsPayload` | a struct built with `StructValue(args...)` holds another value, of another type than its own says, after the caller writes `args[0]` |
| `dict_order` | violation | `DictOrderDeterministic` | keys that print alike keep the order of the arguments |
| `cast` | pass | `TypeOK`, `CastIntegerExact`, `CastTextIsToStringBelowSignBit`, `TimeSurvivesWithinItsRange`, `IntervalTextReadsBack` | over 42 columns under up to three wrappers and 17 destinations: a write is reported only to a destination the kind has a case for; an integer kind and the count of a temporal kind arrive unchanged in every numeric destination their `castTo` lists, the two rounding casts apart, but for a Date scanned into `*int32`, which is another number exactly from the sign bit on; the text scanned is the text of `toString()` exactly below the sign bit of a `Uint64`; a time made into a Date, Datetime or Timestamp is scanned back cut to the unit exactly within the range of the kind; the text of an interval reads back as the interval |
| `list_items` | violation | `ListItemsOfOneType` | `ListValue` of a Void and an `Int32` is a list of type `List<Void>` that holds an `Int32` |
| `registry` | pass | `TypeOK`, `RegistryReflectsDiscovery`, `RegistrySpec`, `FailureKeepsTheSet` | with a listing that changes while calls are on their way, and calls that succeed, fail the way `Discover` reports or are cancelled: the balancer holds only what `Discover` lets through, with the right `Local`; `Cluster` implements `Registry`; a call that failed or was cancelled leaves the set of elements as it was |
| `decode` | pass | `TypeOK`, `DecodeTypedIffShaped` | over every reply with one fault at any depth: `FromYDB` returns a value of the type asked for, typed in every part, exactly when the message has the shape of the type (`Shaped`), and panics otherwise |
| `discovery_failure` | violation | `FailureKeepsTheSet` | a response whose operation failed empties the balancer |
| `load_factor` | violation | `LoadFactorIsOneReported` | every element of the balancer has load factor zero, which no endpoint reported |
| `balancer_test` | pass | `TypeOK`, `NextServesWhomTheTestExpects`, `NoRowFails` | on the thirteen rows of the table, the banned addresses ranged over in every order: `Next` serves exactly the addresses the row expects a share for, and no row reports a failure |

A property stated as an equivalence says where the code keeps a promise and
where it does not: `RoundTripIffPortable`, `CastTextIsToStringBelowSignBit`,
`ZeroValueOfItsType`, `CastIntegerExact`,
`DecimalTextIffLongerThanScale`, `DecodeTypedIffShaped` and
`TimeSurvivesWithinItsRange` each hold with the exceptions spelled out, and
each exception is a finding.

`Portable` is the set of values for which the round trip holds: the payload of
every container is of the type the container carries, no list or dict is
empty, and every optional is a NULL, holds an optional that is not a NULL, or
holds a payload whose message is its oneof and nothing beside it (a scalar
other than a UUID or a decimal, or a tuple or struct without items). The
round trip is stated as an equivalence of the values whose parts are typed;
an ill-typed list can come back as it went by the luck of its items.
`ZeroCovered` is the set of types `ZeroValue` gives a value of: not Void,
Null, EmptyList or EmptyDict, and of the decimal types only Decimal(22, 9).

### Bounds

| Constant | `roundtrip` | `canonical` | Why it is enough |
|---|---|---|---|
| `Leaves` | 31 values: every scalar kind at an end of its range, UUIDs and decimals with and without high bytes, decimals of more digits than their scale (-16777215 at scale 2), of as many (12 at 2) and of fewer (-5 at 2, 0 at 9), Void | `Int32` 9 and 10 | every leaf the encoder writes and the decoder reads is exercised; 9 and 10 order differently as numbers and as text |
| `MoreLeaves` | `Int32` 9, 10 and a text | the same two | second arguments of both equal and different type |
| `FieldNames` | `a`, `b`, `ab` | `b`, `ab` | a name that is a prefix of another, and a longer name that sorts first |
| `MaxOperands` | 2 | 4 | two-field structs; two-pair dicts need four arguments |
| `MaxNodes` | 4 | 5 | optional of optional of optional, optional of variant of tuple, dict of optional; a dict of two pairs is five constructors |

`MaxNodes` bounds the constructors in the values under construction, types of
NULLs included, which makes the state space finite: every constructor adds a
node.

`Shaped(t, m)` is the shape `fromYDB` needs of a message `m` for the type
`t`: a null flag under nested values only for an optional or Void; a list or
dict with at least one element, each shaped; a tuple or struct with exactly
as many items as the type has elements; a variant that is a nested value; a
YSON leaf that is text or bytes. Any leaf will do for the other scalars: the
getters answer zero for an alternative that is not set.

The `decode` run takes `Leaves` = an `Int8` and a `Uint8` at the end of their
ranges, a `Uint16`, a boolean, a text, a YSON, a UUID and Void;
`MaxOperands = 2` and `MaxNodes = 4`, so that a fault can sit two levels
below the root (an item of a tuple in an optional) and a tuple, struct, list
and dict each get a reply with one element less and one more; all six faults;
`VariantIndexes = {0}`. A dict whose keys are not of a kind with a modelled
`toString()` gets no faulty reply, as it cannot be built either.

The `aliasing` run takes two backing arrays, slices of up to two elements
over an `Int32` and a text, two field names and at most two values built:
one array shared between the caller and a value is enough for the
violation, and the second lets a value with an array of its own stand beside
it. With these constants the model has 305,376 states, on all of which
`TypeOK` of `ValueAliasing` holds.

The `cast` run takes `Columns` = one value of every kind, both ends of the
range of every signed integer kind, the largest value of every unsigned and
temporal kind, a `Uint64` just below and just above the sign bit, intervals
of no length, of one microsecond before zero, of days only, of a day, an hour,
a minute, a second and a microsecond, and the longest a Duration holds, and a
list, a struct and a dict; `VariantIndexes = {0, 1}`; `MaxNodes = 4`, which
allows three wrappers around a scalar (optional of variant of tuple of one)
and a tuple of two. The units are scaled with the widths: `Microsecond = 3`,
`Second = 6`, `Minute = 12`, `Hour = 24`, `hoursPerDay = 2`,
`secondsPerDay = 8`. As in Go, the longest Duration (2^23 - 1) is more than
2^32 seconds (here 2^20) and far less than 2^32 days, and the smallest int64
is not a whole number of microseconds. `Times` are the times around the epoch
(a day, a second, a microsecond and a nanosecond before it, and after), around
the end of a Datetime, and around the longest Duration, a day beyond included.

In `roundtrip` a dict has one pair (`MaxOperands = 2`), so the dict side of
`Mixed` is never met; lists and structs have two elements. In `canonical` a
dict has two pairs, whose keys are 9 or 10 or the NULL of their type. The
`list_items` run has the constants of `roundtrip`. The decimals of the model are numbers of at most 31 bits, the
high half of the sixteen bytes being the sign extension.

The `balancer_test` run takes the thirteen rows of `testData`, with the load
factors in hundredths, and `MaxCalls = 4` calls of `Next` per row in place of
`repeat`: the set `Next` selects among does not change between the calls, so
each further call adds nothing that the first does not show. Four calls can
return each of three elements and one of them twice. With the loop cut
short, the model cannot tell that an expected address was never returned,
and `Mismatches` leaves that report out.

The runs of `MCCluster` take three endpoints: `local` (ssl, where the client
is), `remote` (ssl, elsewhere) and `plain` (no ssl), so that the filter and
the flag each have both outcomes; a client with ssl; `LoadFactors = {5, 7}`,
two so that a reload is a change; `MaxChanges = 3`, enough for an endpoint to
join, leave and join again while a call is on its way. The calls of
discovery are not bounded. `registry` allows the failures `Discover`
reports; with the third, `OperationFailed`, neither the refinement nor
`FailureKeepsTheSet` holds, which is the finding of `discovery_failure`, the
same run with that failure added.

### Fairness and liveness

No run assumes fairness and no run checks liveness. The value library has no
threads, locks, timers or retries, and nothing in it must eventually happen;
`BalancerTest` is a test of one thread. `discovery.go` is one call, without
a timer or a retry: how often the loop ticks, whether the service ever
answers and whether a call is cancelled every time are not decided by
anything in the sources, so `Cluster` states only what a step may do. That a
failed discovery "is retried on the next tick" (specification, 4.5) is a
promise of a loop that is not in the repository.

The sessions never deadlock (a request can always be restarted, a row
fetched, a tick taken), so TLC's deadlock check stays on, except in
`balancer_test`: a test ends after its last row.

## 4. Findings

See `findings` in `PROJECT.json`; in short:

* `nullValueFromYDB` returns the NULL of the outermost optional type whatever
  the depth of the null flag (value.go:61).
* `optionalValue.toYDB` keeps only the oneof of its payload's message, so an
  optional UUID or decimal loses `High_128`, and an optional container its
  items (value.go:1163).
* An empty list is given the type `EmptyList`, which `fromYDB` cannot decode
  (value.go:260); an empty dict panics in `DictValue` (value.go:536). The
  `decode` run shows both on the echo.
* The container constructors keep the caller's slice, and two of them sort
  it in place: a value changes when the caller writes to the slice
  (value.go:1114).
* The `*voidType` case of `ZeroValue` is dead, and its decimal case returns
  a Decimal(22, 9) for every decimal type (value.go:2052, 2055).
* `dictValue.Values()` panics for a dict whose keys are `Bytes` or `YSON`
  (value.go:495).
* `DictValue` takes the duplicate keys the specification forbids; `Values()`
  then has one entry for them or all, by the Go type behind the kind
  (value.go:532).
* `decimalValue.toString` slices the text of the number at `len(s)-Scale`:
  it panics for the zero of Decimal(22, 9) and for every number of fewer
  digits than the scale, and leaves nothing, or the sign, before the point
  for the others that are not longer than the scale (value.go:418).
* The constructors from a Go time wrap before the epoch, a Datetime wraps
  from 2^32 seconds on, and a Date and a Timestamp stand still beyond the
  longest Duration (value.go:356, 408, 1293).
* The decoder panics where the specification says it returns an error: on
  every element that cannot be decoded, on a tuple or struct reply with more
  items than the type has, on a variant that is not nested (value.go:194,
  204, 243).
* A tuple or struct reply with fewer items than the type decodes to a value
  of another type than the column's, and a scalar leaf of another alternative
  to zero (value.go:203, 77).
* `ListValue` compares each item's type with itself, so a list of items of
  several types is built where the code means to panic (value.go:1108; the
  `list_items` run).
* `DictValue` orders by `toString()`, under which distinct keys collide
  (value.go:533).
* `uint64Value.castTo` formats through `int64` where `toString` formats the
  unsigned number (value.go:1684).
* The cast matrix narrows in three places, `Int32` to `float32`, `Int64` to
  `float64` and `Date` to `int32` (value.go:820, 867, 322), and a variant
  delegates `castTo` where the specification says it refuses (value.go:1827).
* `Discover` does not look at the status of the operation: a failed
  operation is an empty listing with a nil error (discovery.go:33).
* `Discover` never copies the load factor (discovery.go:40).
* The tests fail a row on any error of `Pessimize`, and four rows ban every
  element, where the specification says the call that leaves every element
  banned returns `AllBannedError` (part_000:246). `Pessimize` of the model
  returns nil, as the tests expect; with `Pessimize_TellingAllBanned`, the
  operation as the specification words it, `NoRowFails` is violated on the
  first of those rows.
* The random-choice test builds a round-robin balancer and the field `err`
  of the table is never read (part_000:285, 144); property 7 of the
  specification does not follow from its formula for the shares.

## 5. Not modelled

| Part | Why |
|---|---|
| `String()` of every kind | renders a value as a YQL literal with the name of its type; `Type.String()` is in type.go, which is not in `src/`, and the rest is the layout of a text |
| `toString()` of Date, Datetime, Timestamp, Float, Double, UUID | `time.Format`, `fmt.Sprintf("%v")` and the uuid package: text formats of libraries |
| `toString()` of tuple, struct, dict, variant | built from `String()` of the parts |
| `TzDateValueFromTime`, `TzDatetimeValueFromTime`, `TzTimestampValueFromTime` | the payload is the text `time.Format` lays out with the name of the zone |
| the decimal codec beyond the encoding of a number | clamping on overflow, the special values and the parsing of text are the codec's own, and the codec is not in `src/` |
| the callers of the balancer, the mutex of the client, the timer and the retry of the discovery loop | none of them is in `src/`, and the specification does not say how the steps of a caller interleave with a refresh: a model of them would be the modeller's scheduling, and a property of it would say nothing of the code |
| lifting a ban | neither the specification nor the tests name an operation that brings a banned element back online |
| the generated scanner, `date_ydbgen.go` | every step is a call of `table.Result` or `ydb.Time`, which are neither in `src/` nor described by the specification |
| the frequencies of `Next` | statistics of one thread; `Next` is a choice among the elements it can return |
| protobuf marshalling, the gRPC call of `Discover` | I/O; the model starts at the messages |

Some divergences have no run of their own: the finding is shown by a
property that holds as an equivalence, with the divergence as the exception
it names (the optional that loses its payload, the text of a large `Uint64`,
the dead case of `ZeroValue`, the round trip of an empty list or dict, the
text of a short decimal, a Date scanned into `*int32`). The two findings on
`dictValue.Values()` are read off the code and have no property: a property
of the map would only count the keys the model's own map keeps.
