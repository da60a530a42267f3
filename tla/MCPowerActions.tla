--------------------------- MODULE MCPowerActions ---------------------------
(***************************************************************************)
(* PowerActions on small instances.                                        *)
(***************************************************************************)
EXTENDS PowerActions, TLC

\* Inhibitors and processes are interchangeable.
Symmetry == Permutations(InhibitorIds) \cup Permutations(Pids)

=============================================================================
