\* Two users, one of whom lingers, with two sessions, or with one, a controller
\* and an inhibitor lock: crashes between any two writes, exits and starts.
SPECIFICATION Spec
CONSTANTS
    Sessions = {s1, s2}
    u1 = u1
    u2 = u2
    Users = {u1, u2}
    Lingerers = {u2}
    Clients = {c1}
    Locks = {l1}
    Machines <- AllMachines
    Nil = Nil
SYMMETRY RestartSymmetry
INVARIANTS UserFileFirst SavedBeforeReply RemovedStaysRemoved SessionSurvives SavedWhenIdle ClaimsKept RuntimeDirKept
