------------------------------ MODULE MCSocial ------------------------------
(* Small instances of Social for TLC.                                       *)
EXTENDS Social

CONSTANTS alice, bob

(* Chains are only names. *)
ChainSymmetry == Permutations(Chains)

(* A key of bob with a timestamp none of his posts has.                     *)
MistypedKeys == {[timestamp |-> 1, author |-> bob, index |-> 0]}

=============================================================================
