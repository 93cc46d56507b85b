\* A put of a document with a table may fail.
CONSTANTS
    Destinations = {"MEMORY"}
    Types = {4, 50}
    Strings = {0}
    Nulls = {}
    Values = {0}
    Floats = {}
    Units = {0}
    Mod32 = 65536
    Host = "LE"
    Faults = {"put"}
    MaxElements = 3
    MaxDepth = 3
    MaxFaults = 1
SPECIFICATION WSpec
INVARIANTS WireHoldsAcked
CHECK_DEADLOCK FALSE
