CONSTANTS
    AddrSpace = 5
    Word = 1
    UOffsets = {0, 1}
    IOffsets <- MCRuleIOffsets
    MaxPops = 2
    NoRule = NoRule
    Stacks <- MCRuleStacks
    StackValues = {0, 1, 3}
    InitialRegs <- MCRuleInitialRegs
    MaxFrames = 4
    CfaRules = {}
    RegisterRules = {}
    DwarfRegisters <- MCRegisters
SPECIFICATION SpecByRules
INVARIANTS
    TypeOK
    FramesBounded
    IpIsBelowSp
PROPERTIES
    ErrorsKeepFrame
    WalkEnds
