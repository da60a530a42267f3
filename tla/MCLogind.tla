------------------------------ MODULE MCLogind ------------------------------
(***************************************************************************)
(* Instances of Logind for TLC.  The runs differ in their constants only.  *)
(***************************************************************************)
EXTENDS Logind, TLC

\* Bound: the sessions on a seat are those that pin their user.
SeatPins ==
    \A s \in sessions : (info[s].seat # Nil) = SESSION_CLASS_PIN_USER(info[s].class)

\* Bound: a session whose class SetClass() may change is the only one until it has;
\* MCLifetimes has them beside others.
IncompleteAlone ==
    \A s \in sessions : info[s].class = "user-incomplete" => sessions = {s}

Symmetry == Permutations(SessionIds) \cup Permutations(Uids)
=============================================================================
