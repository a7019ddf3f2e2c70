--------------------------- MODULE MCValueSession ---------------------------
(***************************************************************************)
(* The value session instantiated for model checking: the pools of leaf    *)
(* values, one or two per kind, at the boundaries of the kind's range.     *)
(***************************************************************************)
EXTENDS ValueSession

\* Strings used as payloads and field names.
StrEmpty == <<>>
StrA     == <<97>>
StrB     == <<98>>
StrAB    == <<97, 98>>
StrNULL  == <<78, 85, 76, 76>>

\* One value of every scalar kind at an end of its range, a UUID and a
\* decimal whose high eight bytes are not zero and ones whose are, decimals
\* of more digits than their scale, of as many and of fewer, and Void.
MCLeaves ==
    { BoolValue(TRUE),
      Int8Value(-(2^(W8 - 1))),   Int16Value(2^(W16 - 1) - 1),
      Int32Value(-(2^(W32 - 1))), Int64Value(2^(W64 - 1) - 1),
      Uint8Value(2^W8 - 1),       Uint16Value(2^W16 - 1),
      Uint32Value(2^W32 - 1),     Uint64Value(2^W64 - 1),
      FloatValue(1),              DoubleValue(-1),
      DateValue(2^W32 - 1),       DatetimeValue(1),
      TimestampValue(2^W64 - 1),  IntervalValue(-1),
      TextValue(StrNULL),         BytesValue(StrEmpty),
      YSONValue(StrA),            JSONValue(StrA),
      JSONDocumentValue(StrA),    DyNumberValue(StrA),
      TzDateValue(StrA),          TzDatetimeValue(StrA),
      TzTimestampValue(StrA),
      UUIDValue(BigEndianUint128(1, 2)), UUIDValue(BigEndianUint128(0, 2)),
      DecimalValue(BigEndianUint128(2^W64 - 1, 1), 5, 2),
      DecimalValue(BigEndianUint128(0, 0), 22, 9),
      DecimalValueFromBigInt(-5, 5, 2), DecimalValueFromBigInt(12, 5, 2),
      VoidValue }

\* Further arguments: two integers whose order as numbers and as strings
\* differ, and a text.
MCMoreLeaves == { Int32Value(9), Int32Value(10), TextValue(StrA) }

\* The arguments of the runs about order: two integers whose order as
\* numbers and as strings differ.
MCOrderLeaves == { Int32Value(9), Int32Value(10) }

\* The text that is also the string of a NULL.
MCNullLeaves == { TextValue(StrNULL) }

\* Two names of which the longer comes first.
MCOrderNames == { StrB, StrAB }

MCFieldNames == { StrA, StrB, StrAB }

\* The leaves of the run about replies: integers narrower than their wire
\* leaf, a boolean, a text, a YSON, which takes two alternatives of the
\* oneof, a UUID, which keeps half of itself beside the oneof, and Void.
MCReplyLeaves ==
    { Int8Value(-(2^(W8 - 1))), Uint8Value(2^W8 - 1), Uint16Value(1), BoolValue(TRUE),
      TextValue(StrA), YSONValue(StrA), UUIDValue(BigEndianUint128(1, 2)), VoidValue }
=============================================================================
