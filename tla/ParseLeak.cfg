\* A string read by ujo_reader_parse.
CONSTANTS
    Destinations = {"MEMORY"}
    Types = {48}
    Strings = {1}
    Nulls = {}
    Values = {1}
    Floats = {}
    Units = {1}
    Mod32 = 65536
    Host = "LE"
    Faults = {}
    MaxElements = 2
    MaxDepth = 3
    MaxFaults = 0
    RHost = "LE"
    RFaults = {}
    Noise = {0}
    MaxBuffers = 1
    MaxRetries = 0
    MaxPressed = 0
    Truncation = FALSE
SPECIFICATION Spec
INVARIANTS ParseDisposes
CHECK_DEADLOCK FALSE
