CONSTANTS
    AddrSpace = 256
    Word = 1
    UOffsets <- MCOffsets
    IOffsets <- MCIOffsets
    MaxPops = 4
    NoRule = NoRule
    Stacks = {}
    StackValues = {}
    InitialRegs = {}
    MaxFrames = 8
    CfaRules = {}
    RegisterRules = {}
    DwarfRegisters <- MCDwarfRegisters
    OperationLists = {}
    ENCODE_REGISTERS <- MCRegisters
    Digits = 65536
    Garbage = 1
    Images <- MCImages
    StackStart = 38
SPECIFICATION ThreadSpec
PROPERTIES
    WalkYieldsCallStack
    WalkIsComplete
CHECK_DEADLOCK FALSE
