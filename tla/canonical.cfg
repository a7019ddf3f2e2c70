SPECIFICATION Spec
CONSTANTS
    W8 = 8
    W16 = 16
    W32 = 20
    W64 = 24
    Leaves <- MCOrderLeaves
    MoreLeaves <- MCOrderLeaves
    FieldNames <- MCOrderNames
    Faults = {}
    VariantIndexes = {1}
    MaxOperands = 4
    MaxNodes = 5
INVARIANTS
    RoundTripIffPortable
    StructOrderCanonical
    DictOrderCanonical
