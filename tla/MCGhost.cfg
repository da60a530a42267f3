\* Root takes a session over from its controller and disconnects.
SPECIFICATION Spec
CONSTANTS
    Sessions = {s1, s2}
    Clients = {c1, c2}
    Root = {c2}
    card = card
    mouse = mouse
    DRM = {card}
    Evdev = {mouse}
    Machines <- OnlyVTs
    MaxVT = 2
    MaxSignals = 2
    Nil = Nil
SYMMETRY DeviceSymmetry
INVARIANTS NoGhostController
