SPECIFICATION Spec
CONSTANTS
    W8 = 8
    W16 = 16
    W32 = 20
    W64 = 24
    Arrays = {a1, a2}
    Items <- MCItems
    FieldNames <- MCNames
    MaxLen = 2
    MaxBuilt = 2
PROPERTY
    ValueOwnsItsPayload
