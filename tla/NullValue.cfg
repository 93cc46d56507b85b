\* A null among the values.
CONSTANTS
    Destinations = {"MEMORY"}
    Types = {48}
    Strings = {}
    Nulls = {8}
    Values = {0}
    Floats = {}
    Units = {0}
    Mod32 = 65536
    Host = "LE"
    Faults = {}
    MaxElements = 2
    MaxDepth = 3
    MaxFaults = 0
    RHost = "LE"
    RFaults = {}
    Noise = {0}
    MaxBuffers = 1
    MaxRetries = 0
    MaxPressed = 0
    Truncation = FALSE
SPECIFICATION Spec
INVARIANTS RoundTrip
CHECK_DEADLOCK FALSE
