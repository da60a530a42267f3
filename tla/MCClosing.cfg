\* A stopped session that stays in state closing with no process left.
SPECIFICATION Spec
CONSTANTS
    SessionIds = {s1, s2}
    Uids = {u1}
    Seats = {seat0}
    Seat0 = seat0
    Classes = {"user"}
    Types = {"tty"}
    MaxVT = 1
    MaxPos = 1
    SessionsMax = 2
    UserStopDelay = "zero"
    StopIdle = FALSE
    Lingerers = {}
    Repopulates = FALSE
    StartMayFail = FALSE
    Nil = Nil
INVARIANT ClosingHasProcesses
