CONSTANTS
    Names = {A, B, C}
    Rows = 2
    MaxListed = 2
SPECIFICATION FairSpec
INVARIANTS TypeOK ScanIsOfOneList OrderlySessionIsSafe
PROPERTIES CommandsReturn KeepsTracking
