\* Shutdowns that are scheduled, cancelled and overtaken, and children of any sort.
SPECIFICATION Spec
CONSTANTS
    Actions = {"hybrid-sleep","poweroff"}
    InhibitorIds = {i1}
    Whats = {"shutdown"}
    Modes = {"block","delay"}
    InhibitorsMax = 2
    DelayMax = TRUE
    HoldOff = FALSE
    LidSwitch = "ignore"
    LidIgnoreInhibited = FALSE
    IdleAction = "ignore"
    PowerOffInterrupts = TRUE
    SuspendInterrupts = TRUE
    SkipInhibitors = TRUE
    Schedules = TRUE
    OtherChildren = TRUE
    ForkMayFail = FALSE
    CallFailures = {"late"}
    CallsMax = 1
    Pids = {p1, p2}
    Nil = Nil
    i1 = i1
    p1 = p1
    p2 = p2
SYMMETRY Symmetry
INVARIANTS TypeOK ActionStateAgrees ScheduleValid
PROPERTIES OneActionWanted WakeIsTold
