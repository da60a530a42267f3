---------------------------- MODULE MCLifetimes -----------------------------
(***************************************************************************)
(* Three instances of Logind on one VT, in one model: three greeters that  *)
(* share a slot, with cgroups that are populated again; two sessions whose *)
(* classes and types differ and change, for the choice of the primary one; *)
(* user and manager sessions of a user that may linger, with starts that   *)
(* fail.                                                                   *)
(* The constants of the cfg are their union.                               *)
(***************************************************************************)
EXTENDS MCLogind

VARIABLE instance

Slots == INSTANCE Logind
    WITH Classes <- {"greeter"}, Types <- {"tty"}, UserStopDelay <- "zero",
         Lingerers <- {}, StartMayFail <- FALSE
Primary == INSTANCE Logind
    WITH Classes <- {"user", "user-incomplete", "greeter"}, SessionsMax <- 2, Lingerers <- {},
         Repopulates <- FALSE, StartMayFail <- FALSE
Starts == INSTANCE Logind
    WITH Classes <- {"user", "manager"}, Types <- {"tty"}, SessionsMax <- 2,
         UserStopDelay <- "zero", Repopulates <- FALSE

\* Bounds: a session without a seat has no slot, and the seat is nothing to the display.
Seated   == \A s \in sessions' : info'[s].seat # Nil
Seatless == \A s \in sessions' : info'[s].seat = Nil

LifetimesInit == instance \in {"slots", "primary", "starts"} /\ Init

LifetimesNext ==
    /\ UNCHANGED instance
    /\ \/ instance = "slots" /\ Slots!Next /\ Seated
       \/ instance = "primary" /\ Primary!Next /\ Seatless
       \/ instance = "starts" /\ Starts!Next

LifetimesSpec == LifetimesInit /\ [][LifetimesNext]_<<instance, vars>>
=============================================================================
