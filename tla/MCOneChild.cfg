\* A second action while the child of the first is at work.
SPECIFICATION Spec
CONSTANTS
    Actions = {"suspend","poweroff"}
    InhibitorIds = {i1}
    Whats = {"shutdown","sleep"}
    Modes = {"block","delay"}
    InhibitorsMax = 2
    DelayMax = TRUE
    HoldOff = FALSE
    LidSwitch = "ignore"
    LidIgnoreInhibited = FALSE
    IdleAction = "ignore"
    PowerOffInterrupts = FALSE
    SuspendInterrupts = FALSE
    SkipInhibitors = FALSE
    Schedules = FALSE
    OtherChildren = TRUE
    ForkMayFail = FALSE
    CallFailures = {}
    CallsMax = 1
    Pids = {p1, p2}
    Nil = Nil
    i1 = i1
    p1 = p1
    p2 = p2
SYMMETRY Symmetry
INVARIANTS OneChild
