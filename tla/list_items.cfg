SPECIFICATION Spec
CONSTANTS
    W8 = 8
    W16 = 16
    W32 = 20
    W64 = 24
    Leaves <- MCLeaves
    MoreLeaves <- MCMoreLeaves
    FieldNames <- MCFieldNames
    Faults = {}
    VariantIndexes = {0, 1}
    MaxOperands = 2
    MaxNodes = 4
INVARIANT
    ListItemsOfOneType
