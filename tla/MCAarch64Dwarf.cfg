CONSTANTS
    AddrSpace = 8
    Word = 1
    mask = 4
    UOffsets = {0, 1, 2}
    IOffsets <- MCIOffsets
    Stacks <- MCStacks
    StackValues <- MCStackValues
    InitialRegs <- MCInitialRegs
    CfaRules <- MCCfaRules
    RegisterRules <- MCRegisterRules
    DwarfRegisters <- MCRegisters
    NoRule = NoRule
SPECIFICATION SpecByCfi
INVARIANT
    TranslationAgrees
    TypeOK
    FramesBounded
PROPERTIES
    StackPointerAdvances
    WalkEnds
