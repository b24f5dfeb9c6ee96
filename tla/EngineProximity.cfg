SPECIFICATION BusSpec
CONSTANTS
    Players = {p1, p2, p3}
    Channels = {}
    Filters = {"none"}
    Metas <- StreetMetas
    Places <- StreetPlaces
    CellSize = 4
    Tunings <- StreetTunings
    DefaultTuning <- StreetTuning
    NearestN = 1
    SilenceTicks = 1
    FreshTicks = 0
    FreshSlots = 0
    SuppressDouble = TRUE
    Traffic = {"config", "pos", "meta", "audio", "gone"}
    NoCell = NoCell
    NoPlayer = NoPlayer
INVARIANTS GridExact LoudestHeard TalkAgrees
SYMMETRY Symmetry
