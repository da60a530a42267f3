\* What must eventually happen, part by part.
SPECIFICATION ProgressSpec
CONSTANTS
    MaxRequests = 3
    s1 = s1
    s2 = s2
    u1 = u1
    seat0 = seat0
    i1 = i1
    p1 = p1
    c1 = c1
    e1 = e1
    e2 = e2
    e3 = e3
    Nil = Nil
INVARIANTS NewestWins
PROPERTIES ReplyMeansWritten AllAnswered GcTerminates SleepEnds SwitchAnswered FairWithinPriority CauseBeforeExit Served
CHECK_DEADLOCK FALSE
