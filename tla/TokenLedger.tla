----------------------------- MODULE TokenLedger -----------------------------
(***************************************************************************)
(* What the fungible token promises its holders, with the chains, the      *)
(* allowances and the message traffic left out: one ledger of available    *)
(* tokens and a set of transfers that have left their sender and are       *)
(* either completed or refunded, each exactly once.                        *)
(***************************************************************************)
EXTENDS Integers, FiniteSets, Functions

CONSTANTS
  Owners,         \* who can hold tokens
  Slots,          \* names of transfers under way
  InitialWealth   \* what each owner starts with

VARIABLES
  available,      \* available[o]: tokens owner o can spend now
  pending         \* pending[s]: the transfer under way in slot s, or NoTransfer

vars == <<available, pending>>

Transfers == [source : Owners, target : Owners, amount : Nat]

NoTransfer == [source |-> "none"]

Supply == SumFunctionOnSet(InitialWealth, Owners)

Moved(from, to, amount) ==
  [[available EXCEPT ![from] = @ - amount] EXCEPT ![to] = @ + amount]

-----------------------------------------------------------------------------

Init ==
  /\ available = InitialWealth
  /\ pending = [s \in Slots |-> NoTransfer]

(* A transfer between two accounts of one chain. *)
Pay(from, to, amount) ==
  /\ amount <= available[from]
  /\ available' = Moved(from, to, amount)
  /\ UNCHANGED pending

(* Tokens leave the sender; no one can spend them until the transfer ends. *)
Begin(s, from, to, amount) ==
  /\ pending[s] = NoTransfer
  /\ amount <= available[from]
  /\ available' = [available EXCEPT ![from] = @ - amount]
  /\ pending' = [pending EXCEPT
       ![s] = [source |-> from, target |-> to, amount |-> amount]]

Complete(s) ==
  /\ pending[s] # NoTransfer
  /\ available' = [available EXCEPT ![pending[s].target] = @ + pending[s].amount]
  /\ pending' = [pending EXCEPT ![s] = NoTransfer]

Refund(s) ==
  /\ pending[s] # NoTransfer
  /\ available' = [available EXCEPT ![pending[s].source] = @ + pending[s].amount]
  /\ pending' = [pending EXCEPT ![s] = NoTransfer]

Next ==
  \/ \E from, to \in Owners : \E amount \in 0..available[from] :
       \/ Pay(from, to, amount)
       \/ \E s \in Slots : Begin(s, from, to, amount)
  \/ \E s \in Slots : Complete(s) \/ Refund(s)

Spec == Init /\ [][Next]_vars

=============================================================================
