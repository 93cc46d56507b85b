\* A pointer to the buffer is kept across a put.
CONSTANTS
    UJO_DEFAULT_BUFSIZE = 3
    Octets = {0}
    Lengths = {1, 3}
    Addresses = {"a", "b"}
    MaxBytes = 6
SPECIFICATION Spec
INVARIANTS ViewStaysValid
CHECK_DEADLOCK FALSE
