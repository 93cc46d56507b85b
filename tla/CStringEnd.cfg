\* A C string longer than the limit the application passes.
CONSTANTS
    Destinations = {"MEMORY"}
    Types = {48}
    Strings = {0}
    Nulls = {}
    Values = {0}
    Floats = {}
    Units = {1, 2}
    Mod32 = 65536
    Host = "LE"
    Faults = {}
    MaxElements = 2
    MaxDepth = 3
    MaxFaults = 0
    RHost = "LE"
    RFaults = {}
    Noise = {0}
    MaxBuffers = 1
    MaxRetries = 0
    MaxPressed = 0
    Truncation = FALSE
SPECIFICATION Spec
INVARIANTS CStringEnds
CHECK_DEADLOCK FALSE
