CONSTANTS
    AddrSpace = 14
    Word = 2
    UOffsets = {0, 1, 2}
    IOffsets <- MCIOffsets
    MaxPops = 0
    Stacks <- MCStacks
    StackValues <- MCStackValues
    InitialRegs <- MCInitialRegs
    MaxFrames = 3
    CfaRules <- MCCfaRules
    RegisterRules <- MCRegisterRules
    DwarfRegisters <- MCRegisters
    NoRule = NoRule
SPECIFICATION SpecByCfi
INVARIANTS
    TranslationAgrees
    TranslationIsComplete
    IpIsFrameAddress
PROPERTY
    NeverStandsStill
