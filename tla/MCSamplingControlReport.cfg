CONSTANTS
    Order <- MCOrder
    Ready = {"temp", "mag"}
SPECIFICATION Spec
INVARIANT SamplingIsReported
CHECK_DEADLOCK FALSE
