CONSTANTS
    Order <- MCOrder
    Ready = {"temp", "mag"}
SPECIFICATION FairSpec
INVARIANTS TypeOK SamplingHasThread StaysSane
PROPERTY StopsEnd
CHECK_DEADLOCK FALSE
