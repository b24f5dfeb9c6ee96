SPECIFICATION Spec
CONSTANTS
    JitterMin = 1
    JitterMax = 3
    JitterCap = 4
    FirstTarget = 2
    StarveReset = 2
    StableShrink = 2
    Frames = 6
INVARIANTS MixerHasDevice
PROPERTIES PlayoutPromise EvictsOnlyWhenReady PlayoutStarts
