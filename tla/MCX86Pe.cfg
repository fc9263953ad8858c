CONSTANTS
    AddrSpace = 10
    Word = 2
    UOffsets = {0, 1, 2}
    IOffsets <- MCIOffsets
    MaxPops = 3
    Stacks <- MCStacks
    StackValues <- MCStackValues
    InitialRegs <- MCInitialRegs
    MaxFrames = 3
    ENCODE_REGISTERS <- MCRegisters
    Digits = 65536
    OperationLists <- MCOperationLists
    NoRule = NoRule
SPECIFICATION SpecByPe
INVARIANT
    RuleIsSequence
