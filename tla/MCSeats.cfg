\* Two sessions on two VTs, on a seat that is plugged in and out or, if they do not pin
\* their user, on none; idle sessions, lingering and a stop delay.
SPECIFICATION Spec
CONSTANTS
    SessionIds = {s1, s2}
    Uids = {u1}
    Seats = {seat0, seat1}
    Seat0 = seat0
    Classes = {"user", "user-incomplete", "manager"}
    Types = {"tty"}
    MaxVT = 2
    MaxPos = 2
    SessionsMax = 2
    UserStopDelay = "finite"
    StopIdle = TRUE
    Lingerers = {u1}
    Repopulates = FALSE
    StartMayFail = FALSE
    Nil = Nil
SYMMETRY Symmetry
CONSTRAINTS SeatPins IncompleteAlone
INVARIANTS TypeOK ActiveIsForeground StopTimerStamped
PROPERTIES LiveSessionKept
