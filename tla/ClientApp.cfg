SPECIFICATION Spec
CONSTANTS
    usb = usb
    dock = dock
    DefaultMic = none
    Names <- TwoNames
    Mics = {usb, dock}
    Cut <- CutDock
    BindKeys = {8, 66}
    TryEvery = 2
    Scenarios = {{"mode", "mic", "file"}, {"mode", "rebind", "file"}, {"mode", "talk"},
                 {"rebind", "talk"}, {"mic", "talk"}}
INVARIANTS PanelSaved AsShown
PROPERTIES PanelFollows
