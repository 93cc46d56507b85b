\* Every half and its neighbours among the floats; words of two digits.
CONSTANTS
    Samples <- AllHalves
    Offsets <- Neighbours
    Digits = {0, 255}
SPECIFICATION SSpec
INVARIANTS ScalarTypeOK HostsAgree HalfExact
CHECK_DEADLOCK FALSE
