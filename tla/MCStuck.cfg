\* A cancelled shutdown that is never over.
SPECIFICATION FairSpec
CONSTANTS
    Actions = {"suspend","poweroff"}
    InhibitorIds = {i1}
    Whats = {"shutdown","sleep"}
    Modes = {"block","delay"}
    InhibitorsMax = 2
    DelayMax = TRUE
    HoldOff = FALSE
    LidSwitch = "ignore"
    LidIgnoreInhibited = FALSE
    IdleAction = "ignore"
    PowerOffInterrupts = TRUE
    SuspendInterrupts = FALSE
    SkipInhibitors = FALSE
    Schedules = FALSE
    OtherChildren = FALSE
    ForkMayFail = FALSE
    CallFailures = {}
    CallsMax = 1
    Pids = {p1}
    Nil = Nil
    i1 = i1
    p1 = p1
PROPERTIES ActionEnds
