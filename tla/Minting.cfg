SPECIFICATION Spec
CONSTANTS
    None = None
    SixToFour = 2
    PrefixBits = 2
    AnchorBits = 1
    PadBits = 1
    HighBits = 1
    LowBits = 3
    HostBits = 1
    TypeBits = 1
    DayBits = 1
    SequenceBits = 2
    VersionBits = 1
    VariantBits = 1
    VERSION = 1
    VARIANT = 0
    Ticks = 2
    Address <- MCAddress
    Typed <- MCTyped
    CrtShText = "other"
    Key = {k1, k2}
    Types = {1}
    Requested <- MCRequested
    Given <- MCGiven
    Random <- MCRandom
    Lifetime = 0
    SealLifetime = 3
    Backdate = 1
    Start <- MCStart
    End = 4
    MaxCerts = 2
SYMMETRY KeySymmetry
INVARIANTS
    TypeOK
    MintedReadsBack
    NoDayToCome
    SealedIsProvable
    RecordsAreProof
    CoverageIsGenesis
    HonestRangeIsRight
PROPERTIES
    CoverageOnlyGrows
CHECK_DEADLOCK FALSE
