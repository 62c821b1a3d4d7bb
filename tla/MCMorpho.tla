------------------------------ MODULE MCMorpho ------------------------------
(* Small instances of Morpho for TLC.                                       *)
EXTENDS Morpho

CONSTANTS alice, bob

(* Loan tokens of one user, and collateral of the other. *)
MCInitialLoan == (alice :> 3) @@ (bob :> 0)
MCInitialLoanFew == (alice :> 2) @@ (bob :> 0)
MCInitialCollateral == (alice :> 0) @@ (bob :> 2)

MCGrants == {<<bob, alice>>}

=============================================================================
