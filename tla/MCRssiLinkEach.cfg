CONSTANTS
    Beacons = 2
    MaxMoves = 1
SPECIFICATION Spec
PROPERTY EachBeaconStored
