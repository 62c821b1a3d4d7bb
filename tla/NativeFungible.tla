---------------------------- MODULE NativeFungible ----------------------------
(***************************************************************************)
(* The native fungible application, which has no balances of its own: its  *)
(* operations move the native tokens of accounts, and send a Notify to the *)
(* other chain, so that the application gets deployed there.               *)
(*                                                                         *)
(* External: the native tokens, which travel in the system's messages      *)
(* Credit and Withdraw.  The messages of one block to one chain are a      *)
(* bundle, executed or rejected together; a rejected Credit comes back.    *)
(***************************************************************************)
EXTENDS Integers, FiniteSets

CONSTANTS
  NativeChains,
  Creator,         \* the chain of the application
  NativeOwners,
  InitialFunds,    \* accounts of the instantiation argument
  ChainFunds,      \* what is left to the creator chain itself
  NativeAmounts,   \* amounts of operations
  MaxBundles       \* bound on the bundles that are sent

ChainOwner == "chain"   \* AccountOwner::CHAIN
NativeAccounts == NativeOwners \cup {ChainOwner}

ASSUME NativeAssumption ==
  /\ Creator \in NativeChains /\ ChainOwner \notin NativeOwners
  /\ ChainFunds \in Nat /\ MaxBundles \in Nat /\ NativeAmounts \subseteq Nat
  /\ InitialFunds \in [NativeOwners -> Nat]

VARIABLES
  funds,        \* native tokens of each account
  bundles,      \* bundles on their way, numbered
  num_bundles,
  deployed,     \* chains that the application is deployed on
  credited,     \* history: chains that have received tokens
  elsewhere     \* history: claims made on one chain, from a second to a third

nativeVars == <<funds, bundles, num_bundles, deployed, credited, elsewhere>>

Account(c, o) == [chain |-> c, owner |-> o]
Credit(amount, from, to) == [type |-> "Credit", amount |-> amount, from |-> from, to |-> to]
WithdrawFrom(amount, from, to) == [type |-> "Withdraw", amount |-> amount, from |-> from, to |-> to]

(* A bundle of a system message and perhaps a Notify.                       *)
Bundle(to, system, notify) ==
  [id |-> num_bundles, to |-> to, system |-> system, notify |-> notify]

Debit(f, account, amount) == [f EXCEPT ![account.chain][account.owner] = @ - amount]
Deposit(f, account, amount) == [f EXCEPT ![account.chain][account.owner] = @ + amount]

Send(bundle) ==
  /\ num_bundles < MaxBundles
  /\ num_bundles' = num_bundles + 1
  /\ bundles' = bundles \cup {bundle}

-----------------------------------------------------------------------------

(* Tokens that leave an account for another chain travel in a bundle.       *)
Move(amount, from, to, notify) ==
  /\ amount <= funds[from.chain][from.owner]
  /\ IF to.chain = from.chain
     THEN /\ funds' = Deposit(Debit(funds, from, amount), to, amount)
          /\ UNCHANGED <<bundles, num_bundles>>
     ELSE /\ funds' = Debit(funds, from, amount)
          /\ Send(Bundle(to.chain, Credit(amount, from, to), notify))

(* By a signer that owns the account; chains have no signer.                *)
TransferNative(here, owner, amount, target) ==
  /\ Move(amount, Account(here, owner), target, TRUE)
  /\ deployed' = deployed \cup {here}
  /\ UNCHANGED <<credited, elsewhere>>

(* A claim on another chain; elsewhere records third chains.                *)
ClaimRemotely(here, source, amount, target) ==
  /\ Send(Bundle(source.chain, WithdrawFrom(amount, source, target), TRUE))
  /\ elsewhere' = elsewhere \cup ({target.chain} \ {here, source.chain})
  /\ UNCHANGED funds

(* Mutant of ClaimNative: a claim on the chain itself notifies nobody.      *)
ClaimNativeSilently(here, source, amount, target) ==
  /\ deployed' = deployed \cup {here}
  /\ IF source.chain = here
     THEN Move(amount, source, target, FALSE) /\ UNCHANGED elsewhere
     ELSE ClaimRemotely(here, source, amount, target)
  /\ UNCHANGED credited

(* The Notify goes to the target of a claim on this chain, and to the       *)
(* source of a claim on another one.                                        *)
ClaimNative(here, source, amount, target) ==
  /\ deployed' = deployed \cup {here}
  /\ IF source.chain = here
     THEN Move(amount, source, target, TRUE) /\ UNCHANGED elsewhere
     ELSE ClaimRemotely(here, source, amount, target)
  /\ UNCHANGED credited

(* A Notify does nothing but arrive.                                        *)
Arrive(bundle) == deployed' = IF bundle.notify THEN deployed \cup {bundle.to} ELSE deployed

ReceiveCredit(bundle) ==
  /\ bundle.system.type = "Credit"
  /\ funds' = Deposit(funds, bundle.system.to, bundle.system.amount)
  /\ bundles' = bundles \ {bundle}
  /\ credited' = credited \cup {bundle.to}
  /\ Arrive(bundle)
  /\ UNCHANGED <<num_bundles, elsewhere>>

Return(system) == Credit(system.amount, system.from, system.from)

(* A rejected Credit is returned to the account that has paid it.           *)
RejectCredit(bundle) ==
  /\ bundle.system.type = "Credit"
  /\ num_bundles < MaxBundles
  /\ LET system == Return(bundle.system) IN
       bundles' = (bundles \ {bundle}) \cup {Bundle(system.to.chain, system, FALSE)}
  /\ num_bundles' = num_bundles + 1
  /\ UNCHANGED <<funds, deployed, credited, elsewhere>>

ReceiveWithdraw(bundle) ==
  /\ bundle.system.type = "Withdraw"
  /\ LET system == bundle.system IN
       /\ system.amount <= funds[system.from.chain][system.from.owner]
       /\ IF system.to.chain = bundle.to
          THEN /\ funds' = Deposit(Debit(funds, system.from, system.amount), system.to,
                                   system.amount)
               /\ bundles' = bundles \ {bundle}
               /\ UNCHANGED num_bundles
          ELSE /\ num_bundles < MaxBundles
               /\ funds' = Debit(funds, system.from, system.amount)
               /\ bundles' = (bundles \ {bundle}) \cup
                    {Bundle(system.to.chain, Credit(system.amount, system.from, system.to), FALSE)}
               /\ num_bundles' = num_bundles + 1
  /\ Arrive(bundle)
  /\ UNCHANGED <<credited, elsewhere>>

RejectWithdraw(bundle) ==
  /\ bundle.system.type = "Withdraw"
  /\ bundles' = bundles \ {bundle}
  /\ UNCHANGED <<funds, num_bundles, deployed, credited, elsewhere>>

-----------------------------------------------------------------------------

(* instantiate has paid the initial accounts from the chain's balance.      *)
NativeInit ==
  /\ funds = [c \in NativeChains |-> [o \in NativeAccounts |->
                IF c # Creator THEN 0
                ELSE IF o = ChainOwner THEN ChainFunds ELSE InitialFunds[o]]]
  /\ bundles = {} /\ num_bundles = 0
  /\ deployed = {Creator}
  /\ credited = {} /\ elsewhere = {}

(* check_account_permission: the owner signs, and no chain does.            *)
Operate ==
  \E here \in NativeChains, c, d \in NativeChains, o, p \in NativeOwners, amount \in NativeAmounts :
    \/ TransferNative(here, o, amount, Account(d, p))
    \/ ClaimNative(here, Account(c, o), amount, Account(d, p))

NativeNext ==
  \/ Operate
  \/ \E bundle \in bundles :
       \/ ReceiveCredit(bundle) \/ RejectCredit(bundle)
       \/ ReceiveWithdraw(bundle) \/ RejectWithdraw(bundle)

NativeSpec == NativeInit /\ [][NativeNext]_nativeVars

-----------------------------------------------------------------------------
(* Properties.                                                              *)

(* A chain that has received tokens has got the application too, unless     *)
(* they were claimed for it on a third chain, whose Notify went to the      *)
(* source of the claim.  A transfer that comes back needs none: the chain   *)
(* has executed an operation, or was notified by the claim.                 *)
DeployedWhereCredited == credited \subseteq deployed \cup elsewhere

=============================================================================
