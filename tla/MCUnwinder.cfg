CONSTANTS
    d1 = d1
    d2 = d2
    fp = fp
    r1 = r1
    r2 = r2
    None = None
    Generic = Generic
    NoInfo = NoInfo
    Uncacheable = Uncacheable
    NoUnwind = NoUnwind
    Rules = {fp, r1, r2}
    Fallback = fp
    Data = {d1, d2}
    Modules <- MCModules
    MaxRel = 5
    UnwindInfo <- MCUnwindInfo
    IPs <- MCIPs
    RAs <- MCRAs
    SlotCount = 3
    GenCount = 4
    Unwinders = {u1, u2}
    Caches = {c1}
    MaxDraws = 4
    MaxLookups = 2
    Bits = 4
SPECIFICATION Spec
INVARIANTS
    TypeOK
    CacheCoherent
    SameGenerationSameModules
    ModulesSorted
    LookupsExact
    FilledSlotsCounted
    MaskKeepsCodeAddresses
PROPERTY
    CachingInvisible
CHECK_DEADLOCK FALSE
