SPECIFICATION Spec
CONSTANTS
    Formats <- InStructure
    Longs = {4, 8}
    Values = {1, 2}
    EnumRange = 65536
    Tails <- NoTail
INVARIANT MessagesArrive
CHECK_DEADLOCK FALSE
