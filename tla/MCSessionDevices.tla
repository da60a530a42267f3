-------------------------- MODULE MCSessionDevices --------------------------
(***************************************************************************)
(* Instances of SessionDevices for TLC.                                    *)
(***************************************************************************)
EXTENDS SessionDevices, TLC

CONSTANTS card, mouse

DeviceSymmetry == Permutations(Sessions)

\* A machine with virtual terminals, and one without.
WithVTs    == [vts |-> TRUE, devices |-> {card}, hotplug |-> {},
               shared |-> {}]
WithoutVTs == [vts |-> FALSE, devices |-> {card, mouse}, hotplug |-> {mouse},
               shared |-> {card}]

OnlyVTs      == {WithVTs}
BothMachines == {WithVTs, WithoutVTs}
=============================================================================
