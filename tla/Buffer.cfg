\* A growth step of 3 octets; puts shorter and longer than a step, and empty.
CONSTANTS
    UJO_DEFAULT_BUFSIZE = 3
    Octets = {0, 1}
    Lengths = {0, 1, 3, 4, 7}
    Addresses = {"a", "b"}
    MaxBytes = 8
SPECIFICATION Spec
INVARIANTS BufferTypeOK InBounds
PROPERTIES BufferIsSink
CHECK_DEADLOCK FALSE
