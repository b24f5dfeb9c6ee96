SPECIFICATION Spec
CONSTANTS
    Players = {p1}
    IdSpace = 2
    Attrs = {"filter"}
    Values = {0, 1}
    WireCap = 2
    StatusCap = 2
    Scenarios = {{"members"}, {"conf"}, {"voice"}}
INVARIANTS MirrorAgrees ViewFollows GhostFree
PROPERTY LinkPromise
