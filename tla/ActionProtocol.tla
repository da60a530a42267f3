--------------------------- MODULE ActionProtocol ---------------------------
(***************************************************************************)
(* What the daemon promises about shutdown and sleep: one action is        *)
(* wanted at a time.  It may be put off while somebody holds a delay lock; *)
(* then it can still be withdrawn.  Once it runs it runs to its end, and   *)
(* nothing takes its place before.                                         *)
(***************************************************************************)
CONSTANTS Actions, Nil

VARIABLES
    phase,    \* "idle", "delayed" or "running"
    action    \* the action wanted, Nil when idle

Init == phase = "idle" /\ action = Nil

Delay(a) ==
    /\ phase = "idle"
    /\ phase' = "delayed" /\ action' = a

Start(a) ==
    /\ phase = "idle" \/ (phase = "delayed" /\ action = a)
    /\ phase' = "running" /\ action' = a

\* A delayed action is withdrawn, or cannot be started; a running one ends.
End ==
    /\ phase # "idle"
    /\ phase' = "idle" /\ action' = Nil

Next == End \/ \E a \in Actions : Delay(a) \/ Start(a)

Spec == Init /\ [][Next]_<<phase, action>>

=============================================================================
