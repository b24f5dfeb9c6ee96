SPECIFICATION BusSpec
CONSTANTS
    Players = {p1, p2}
    Channels = {c1}
    Filters = {"none", "radio"}
    Metas <- RoomMetas
    CellSize = 4
    FreshSlots = 1
    SuppressDouble = TRUE
    Places <- RoomPlaces
    Tunings <- RoomTunings
    DefaultTuning <- StreetTuning
    NearestN = 0
    SilenceTicks = 1
    FreshTicks = 0
    Traffic = {"pos", "mute", "channel", "key", "audio", "gone"}
    NoCell = NoCell
    NoPlayer = NoPlayer
INVARIANTS MembershipSymmetric BusStateOwned BusAudience NoEcho
PROPERTIES GoneLeavesNothing
SYMMETRY Symmetry
