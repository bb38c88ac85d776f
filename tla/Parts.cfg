SPECIFICATION Spec
CONSTANTS
    ResolverCases <- ResolverResults
    StageCases <- StageResults
    OutputCases <- OutputResults
    RasterCases <- RasterResults
    None = None
    c1 = c1
    c2 = c2
    c3 = c3
    r1 = r1
    r2 = r2
    j1 = j1
    j2 = j2
    a1 = a1
    a2 = a2
    h1 = h1
    producer = producer
INVARIANTS
    OneController
    SourceStaysReadable
    RecoveredReadable
    AcknowledgedWhole
    FailsOnlyOvertaken
    RelaysAccounted
    PinnedDestination
    ReportedDestination
    PublishedAsDescribed
    PublishAllOrNothing
    FencedInTime
    ToldTruth
    ResolvesToMeaning
    StagesCompileAsWritten
    OutputsAsReported
    HydratesItsOwn
    CountsExact
SYMMETRY Submissions
CHECK_DEADLOCK FALSE
