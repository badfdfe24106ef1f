CONSTANTS
    Capacity = 10
    Size = 4
    MaxReadings = 12
SPECIFICATION RingSpec
INVARIANT WholeReadings
