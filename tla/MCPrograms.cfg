CONSTANTS
    Capacity = 10
    Size = 4
    MaxReadings = 12
    Parts = {1, 2}
    Default <- MCDefault
    Period = 5
    Work = 4
    Readings = {40, 41, 246}
    SamplingPeriod = 3
    SetPause = 1
    SetWork = 1
    Places <- MCPlaces
    Order <- MCOrder
    Ready = {"temp"}
SPECIFICATION ProgramSpec
INVARIANTS
    ProgramTypeOK
    CommandsObeyed ShowsLatest DistWasMeasured SocketsClosed LinesWhole
PROPERTIES
    ErrorResyncs ImplementsQueue DefaultOnlyOnMisread
    EachNumberOnce ShowsTheWheel ColoursKeepTurning StaysInStep GoesOnIndicating
    ConnectsWhenInformed LastingLinkIsUsed PersonIsFound PostsEnd
CHECK_DEADLOCK FALSE
