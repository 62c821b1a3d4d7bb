----------------------------- MODULE MCFungible -----------------------------
(* Small instances of Fungible for TLC.                                     *)
EXTENDS Fungible, TLC

CONSTANTS alice, bob, c1, c2

(* The slots are only names. *)
SlotSymmetry == Permutations(Slots)

MCInitialAccounts == [o \in Owners |-> IF o = alice THEN 2 ELSE 0]

=============================================================================
