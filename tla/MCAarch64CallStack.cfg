CONSTANTS
    AddrSpace = 256
    Word = 1
    mask = 128
    UOffsets <- MCOffsets
    IOffsets <- MCIOffsets
    NoRule = NoRule
    Stacks = {}
    StackValues = {}
    InitialRegs = {}
    CfaRules = {}
    RegisterRules = {}
    DwarfRegisters <- MCDwarfRegisters
    Garbage = 1
    Images <- MCImages
    StackStart = 32
SPECIFICATION ThreadSpec
PROPERTIES
    WalkYieldsCallStack
    WalkIsComplete
CHECK_DEADLOCK FALSE
