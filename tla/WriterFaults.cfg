\* Any put may fail, and any growth of the state stack.
CONSTANTS
    Destinations = {"FILE", "MEMORY"}
    Types = {4, 13, 17, 48, 49, 50}
    Strings = {1}
    Nulls = {8}
    Values = {0}
    Floats = {}
    Units = {1}
    Mod32 = 65536
    Host = "LE"
    Faults = {"put", "push"}
    MaxElements = 4
    MaxDepth = 3
    MaxFaults = 1
SPECIFICATION WSpec
INVARIANTS TypeOK Nesting Grammatical FailuresReported
PROPERTIES ClosedIsFinal
CHECK_DEADLOCK FALSE
