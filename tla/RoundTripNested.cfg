\* Nested documents.  The reader gets a second buffer in mid-document or after an
\* error, memory and stack may be exhausted while it reads, files may be cut short,
\* and the application calls again after any error: the reader goes on within an
\* element or the header, in octets it takes for a string or a terminator.
CONSTANTS
    Destinations = {"FILE", "MEMORY"}
    Types = {4, 8, 49, 50}
    Strings = {1}
    Nulls = {}
    Values = {0}
    Floats = {}
    Units = {1}
    Mod32 = 65536
    Host = "LE"
    Faults = {}
    MaxElements = 4
    MaxDepth = 2
    MaxFaults = 0
    RHost = "LE"
    RFaults = {"calloc", "push"}
    Noise = {0, 4}
    MaxBuffers = 2
    MaxRetries = 1
    MaxPressed = 1
    Truncation = TRUE
SPECIFICATION Spec
INVARIANTS RoundTrip ReadsInStep MisuseYieldsNothing ElementsOwned
PROPERTIES PullOwnsPayloads LoopAdvances ParseReturns
CHECK_DEADLOCK FALSE
