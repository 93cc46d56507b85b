\* Deep nesting with one integer and one string; nothing fails.
CONSTANTS
    Destinations = {"MEMORY"}
    Types = {4, 8, 48, 49, 50}
    Strings = {0}
    Nulls = {}
    Values = {0}
    Floats = {}
    Units = {0}
    Mod32 = 65536
    Host = "LE"
    Faults = {}
    MaxElements = 8
    MaxDepth = 4
    MaxFaults = 0
SPECIFICATION WSpec
INVARIANTS TypeOK Nesting Grammatical WireHoldsAcked
PROPERTIES ClosedIsFinal
CHECK_DEADLOCK FALSE
