----------------------------- MODULE MCRestart ------------------------------
(***************************************************************************)
(* Instances of Restart for TLC.                                           *)
(***************************************************************************)
EXTENDS Restart, TLC

CONSTANTS u1, u2

RestartSymmetry == Permutations(Sessions)

\* Two sessions of one or two users on a kernel without pidfds; and, with and without
\* them, one session of one of two users and a lock.
TwoSessions == [pidfd |-> FALSE, sessions |-> Sessions, users |-> {u1, u2},
                clients |-> {}, locks |-> {}]
OneSession(p, s) == [pidfd |-> p, sessions |-> {s}, users |-> {u1, u2},
                     clients |-> Clients, locks |-> Locks]

AllMachines == {TwoSessions} \cup {OneSession(p, s) : p \in BOOLEAN, s \in Sessions}

\* One session on a kernel with pidfds.
WithPidfds == {[pidfd |-> TRUE, sessions |-> {s}, users |-> {u1}, clients |-> {},
                locks |-> {}] : s \in Sessions}
=============================================================================
