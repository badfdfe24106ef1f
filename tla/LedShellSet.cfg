SPECIFICATION LedSpec
INVARIANT SetLightsLeds
