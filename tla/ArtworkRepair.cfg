SPECIFICATION Spec
CONSTANTS
    Grain = 4
    ZeroTolerance = 4
    GapTolerance = 10
    FlattenTolerance = 10
    MinLineWidth = 20
    MinBridgeWidth = 32
    MinSpacing = 20
    MinEnclosedArea = 1600
    MaxNodeDensity = 20
    MergeRadius = 60
    Artworks <- MCArtworks
    Samples <- MCSamples
INVARIANTS
    TypeOK
    SoundArtworkGetsDies
    MendKeepsTheFilling
    OnlyUntidyHolesAreRemoved
    MergingKeepsTheArea
    LooseIslandsAreOutOfReach
    OnlyTheFirstCornerGapes
    PushedEdgesPart
CHECK_DEADLOCK FALSE
