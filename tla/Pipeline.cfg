SPECIFICATION Spec
CONSTANTS
    Artworks = 2
    Runs = {1, 2}
    NoRun = NoRun
INVARIANTS
    TypeOK
    ReportDescribesTheDies
    OneRowPerArtwork
    FailureNamesItsStage
    ColumnsDoNotAccuse
    OutputsOfReturnedRuns
    ReportBelongsToDxf
    CutShortMeansNoSuccess
CHECK_DEADLOCK FALSE
