CONSTANTS
    Beacons = 2
    MaxMoves = 1
SPECIFICATION FairSpec
INVARIANTS TypeOK SnapshotIsWhole RightBeacon
PROPERTIES NeverOlder KeepsUp
