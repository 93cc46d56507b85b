\* Every type, string subtype and container, through memory and through a file
\* that a crash or a full disk may have cut short at any octet.
\* Lengths up to the number a count can hold, which is 3 here, and beyond.
CONSTANTS
    Destinations = {"FILE", "MEMORY"}
    Types = {1, 2, 3, 4, 5, 6, 7, 8, 9, 10, 11, 12, 13, 14, 15, 16, 17, 18, 19, 48, 49, 50}
    Strings = {0, 1, 2, 3}
    Nulls = {}
    Values = {0, 1}
    Floats = {0, 1065353217, 1199570944}
    Units = {0, 1, 2, 3}
    Mod32 = 3
    Host = "LE"
    Faults = {}
    MaxElements = 2
    MaxDepth = 2
    MaxFaults = 0
    RHost = "LE"
    RFaults = {}
    Noise = {0, 1, 95}
    MaxBuffers = 1
    MaxRetries = 0
    MaxPressed = 1
    Truncation = TRUE
SPECIFICATION Spec
INVARIANTS ReaderTypeOK WireHoldsAcked RoundTrip ReadsInStep OneAccessor
CHECK_DEADLOCK FALSE
