\* A module is made once.
CONSTANTS
    Inputs <- MCInputs
    base_svma = 1
    MaxU32 = 4
    None = None
SPECIFICATION Spec
INVARIANT
    DataIsAskedOnce
    CoveredAddressesHaveTheirRow
PROPERTIES
    IndexIsAllOrNothing
    
CHECK_DEADLOCK FALSE
