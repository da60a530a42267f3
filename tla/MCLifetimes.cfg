\* Three greeters on one VT, or two sessions of which one is to be primary, or starts
\* that fail: slots and pointers, the choice of the display, how long users live.
SPECIFICATION LifetimesSpec
CONSTANTS
    SessionIds = {s1, s2, s3}
    Uids = {u1}
    Seats = {seat0}
    Seat0 = seat0
    Classes = {"user", "user-incomplete", "greeter", "manager"}
    Types = {"x11", "tty"}
    MaxVT = 1
    MaxPos = 1
    SessionsMax = 3
    UserStopDelay = "finite"
    StopIdle = FALSE
    Lingerers = {u1}
    Repopulates = TRUE
    StartMayFail = TRUE
    Nil = Nil
SYMMETRY Symmetry
INVARIANTS PointersValid ListOrder NoForgottenUser RuntimeDirHeld
PROPERTIES SlotKept 
