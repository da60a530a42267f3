\* Requests, the lid and the idle action against two inhibitors of every mode.
SPECIFICATION Spec
CONSTANTS
    Actions = {"suspend","suspend-then-hibernate","poweroff"}
    InhibitorIds = {i1, i2}
    Whats = {"shutdown","sleep","handle-lid-switch"}
    Modes = {"block","block-weak","delay"}
    InhibitorsMax = 2
    DelayMax = TRUE
    HoldOff = TRUE
    LidSwitch = "suspend-then-hibernate"
    LidIgnoreInhibited = FALSE
    IdleAction = "suspend"
    PowerOffInterrupts = FALSE
    SuspendInterrupts = FALSE
    SkipInhibitors = FALSE
    Schedules = FALSE
    OtherChildren = FALSE
    ForkMayFail = TRUE
    CallFailures = {"unsent"}
    CallsMax = 1
    Pids = {p1}
    Nil = Nil
    i1 = i1
    i2 = i2
    p1 = p1
SYMMETRY Symmetry
PROPERTIES BlockRespected DelayRespected
