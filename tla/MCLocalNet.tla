----------------------------- MODULE MCLocalNet -----------------------------
(* A small instance of LocalNet for TLC.                                    *)
EXTENDS LocalNet

(* Processes are only names. *)
ProcessSymmetry == Permutations(Processes)

=============================================================================
