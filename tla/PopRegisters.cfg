\* The system stops when the list of operations ends, or cannot become a rule.
CONSTANTS
    ENCODE_REGISTERS <- CodeRegisters
    Others = {"RAX"}
    Digits = 65536
SPECIFICATION PopsSpec
INVARIANT
    RoundTrip
CHECK_DEADLOCK FALSE
