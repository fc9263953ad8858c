CONSTANTS
    AddrSpace = 256
    Word = 1
    mask = 128
    UOffsets <- MCOffsets
    IOffsets <- MCIOffsets
    NoRule = NoRule
    Stacks = {}
    StackValues = {}
    InitialRegs = {}
    CfaRules = {}
    RegisterRules = {}
    DwarfRegisters <- MCDwarfRegisters
    Garbage = 1
    Images <- MCLocalsImages
    StackStart = 32
SPECIFICATION ThreadSpec
INVARIANT
    ProloguesAreUndone
CHECK_DEADLOCK FALSE
