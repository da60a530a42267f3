\* Two sessions, a client of a user and one of root, with VTs and without: a card
\* that other processes use as well and a mouse that is plugged in and out.
SPECIFICATION Spec
CONSTANTS
    Sessions = {s1, s2}
    Clients = {c1, c2}
    Root = {c2}
    card = card
    mouse = mouse
    DRM = {card}
    Evdev = {mouse}
    Machines <- BothMachines
    MaxVT = 2
    MaxSignals = 2
    Nil = Nil
SYMMETRY DeviceSymmetry
INVARIANTS TypeOK OnlyActiveHasDevices ForegroundHasDevices NothingLeftBehind ControllerKnows DevicesKnown
PROPERTIES PausedBeforeSwitch
