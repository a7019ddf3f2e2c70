SPECIFICATION Spec
CONSTANTS
    W8 = 8
    W16 = 16
    W32 = 20
    W64 = 24
    Leaves <- MCReplyLeaves
    MoreLeaves <- MCOrderLeaves
    FieldNames <- MCOrderNames
    Faults = {"drop_item", "extra_item", "other_leaf", "null_flag", "nest", "index"}
    VariantIndexes = {0}
    MaxOperands = 2
    MaxNodes = 4
INVARIANTS
    TypeOK
    DecodeTypedIffShaped
