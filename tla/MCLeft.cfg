\* The daemon is restarted on a kernel with pidfds.
SPECIFICATION Spec
CONSTANTS
    Sessions = {s1, s2}
    u1 = u1
    u2 = u2
    Users = {u1, u2}
    Lingerers = {u2}
    Clients = {c1}
    Locks = {l1}
    Machines <- WithPidfds
    Nil = Nil
SYMMETRY RestartSymmetry
INVARIANTS SessionsLeftInPlace
