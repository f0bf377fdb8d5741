SPECIFICATION BothSpec
CONSTANTS
    MaxFrameSize = 11
    InterByteTimeout = 2
    MaxInvalid = 2
    NoiseBytes <- LineNoise
    Bodies <- ShortBodies
    Offers <- MCOffers
    Capacities <- MCCapacities
CHECK_DEADLOCK FALSE
INVARIANTS
    ParserTypeOK
    RoomIsExact
PROPERTIES
    FrameDelivered
    CountsDiscarded
