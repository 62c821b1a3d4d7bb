------------------------------ MODULE Fungible ------------------------------
(***************************************************************************)
(* The fungible token application: the same contract runs on every chain,  *)
(* each chain keeps its own accounts and allowances, and transfers between *)
(* chains travel as messages that the receiving chain may reject.          *)
(*                                                                         *)
(* A panic of the contract aborts the whole transaction, so every panic    *)
(* and failed permission check is a guard here.  An account or allowance   *)
(* of 0 stands for a missing entry: the code removes entries that reach 0. *)
(***************************************************************************)
EXTENDS Integers, FiniteSets, Functions

CONSTANTS
  Chains,           \* microchains on which the application is used
  Owners,           \* account owners
  CreationChain,    \* the chain that instantiates the application
  InitialAccounts,  \* InitialState.accounts, the instantiation argument
  MaxAmount,        \* largest value of the type Amount (2^128 - 1 in the code)
  OperationAmounts, \* bound: the amounts that operations name
  Slots,            \* bound: messages in flight at one time
  MaxAuthorised     \* bound: total amount one owner signs for

Amount == 0..MaxAmount

Account == [chain_id : Chains, owner : Owners]

Supply == SumFunctionOnSet(InitialAccounts, Owners)

(* instantiate refuses a zero supply. That the supply fits in an Amount is  *)
(* not checked by the code: its sum saturates.                              *)
ASSUME FungibleAssumption ==
  /\ IsFiniteSet(Chains) /\ IsFiniteSet(Owners) /\ IsFiniteSet(Slots)
  /\ CreationChain \in Chains
  /\ MaxAmount \in Nat
  /\ OperationAmounts \subseteq Amount
  /\ MaxAuthorised \in Nat
  /\ InitialAccounts \in [Owners -> Amount]
  /\ Supply \in 1..MaxAmount

VARIABLES
  accounts,     \* accounts[c][o]: the balance of o on chain c
  allowances,   \* allowances[c][<<o, s>>]: what spender s may take from o on chain c
  inflight,     \* inflight[s]: the message in slot s, or NoMessage
  authorised,   \* history: authorised[o], the total amount o signed for
  settled       \* history: settled[o], o's tokens by transfers that completed

vars == <<accounts, allowances, inflight, authorised, settled>>

CreditMessage == [type : {"Credit"}, from : Chains, to : Chains, target : Owners,
                  source : Owners, amount : Amount, bouncing : BOOLEAN]

WithdrawMessage == [type : {"Withdraw"}, to : Chains, owner : Owners, signer : Owners,
                    amount : Amount, target_account : Account]

NoMessage == [type |-> "None"]

FreeSlots(mail) == {s \in Slots : mail[s] = NoMessage}

Without(s) == [inflight EXCEPT ![s] = NoMessage]

-----------------------------------------------------------------------------
(* State of one chain.                                                      *)

(* Mutant of SaturatingAdd: adds without the cap.                           *)
UncappedAdd(a, b) == a + b

SaturatingAdd(a, b) == IF a + b > MaxAmount THEN MaxAmount ELSE a + b

Credited(balances, c, owner, amount) ==
  [balances EXCEPT ![c][owner] = SaturatingAdd(@, amount)]

CanDebit(c, owner, amount) == accounts[c][owner] >= amount

Debited(c, owner, amount) == [accounts EXCEPT ![c][owner] = @ - amount]

(* check_account_permission: the signer of the block, or of the block that *)
(* sent the message.                                                        *)
CheckAccountPermission(signer, owner) == signer = owner

Authorise(signer, amount) ==
  /\ authorised[signer] + amount <= MaxAuthorised
  /\ authorised' = [authorised EXCEPT ![signer] = @ + amount]

Settle(from, to, amount) ==
  settled' = [[settled EXCEPT ![from] = @ - amount] EXCEPT ![to] = @ + amount]

(* finish_transfer_to_account on chain c, after the debit gave `balances`   *)
(* and with the messages `mail` in flight.                                  *)
FinishTransfer(c, balances, mail, amount, target_account, source) ==
  \/ /\ target_account.chain_id = c
     /\ accounts' = Credited(balances, c, target_account.owner, amount)
     /\ inflight' = mail
     /\ Settle(source, target_account.owner, amount)
  \/ /\ target_account.chain_id # c
     /\ accounts' = balances
     /\ \E s \in FreeSlots(mail) :
          inflight' = [mail EXCEPT ![s] =
            [type |-> "Credit", from |-> c, to |-> target_account.chain_id,
             target |-> target_account.owner, source |-> source,
             amount |-> amount, bouncing |-> FALSE]]
     /\ UNCHANGED settled

-----------------------------------------------------------------------------
(* execute_operation, in a block of chain c signed by `signer`.             *)

Approve(c, signer, owner, spender, allowance) ==
  /\ CheckAccountPermission(signer, owner)
  /\ allowance # 0 /\ owner # spender
  /\ allowances' = [allowances EXCEPT ![c][<<owner, spender>>] = SaturatingAdd(@, allowance)]
  /\ Authorise(signer, allowance)
  /\ UNCHANGED <<accounts, inflight, settled>>

Transfer(c, signer, owner, amount, target_account) ==
  /\ CheckAccountPermission(signer, owner)
  /\ CanDebit(c, owner, amount)
  /\ FinishTransfer(c, Debited(c, owner, amount), inflight, amount, target_account, owner)
  /\ Authorise(signer, amount)
  /\ UNCHANGED allowances

(* Mutant of TransferFrom: checks the allowance but does not use it up.     *)
TransferFromKeepingAllowance(c, signer, owner, spender, amount, target_account) ==
  /\ CheckAccountPermission(signer, spender)
  /\ amount # 0 => /\ CanDebit(c, owner, amount)
                   /\ owner # spender
                   /\ allowances[c][<<owner, spender>>] >= amount
  /\ FinishTransfer(c, Debited(c, owner, amount), inflight, amount, target_account, owner)
  /\ UNCHANGED <<allowances, authorised>>

TransferFrom(c, signer, owner, spender, amount, target_account) ==
  /\ CheckAccountPermission(signer, spender)
  /\ amount # 0 => /\ CanDebit(c, owner, amount)
                   /\ owner # spender
                   /\ allowances[c][<<owner, spender>>] >= amount
  /\ allowances' = [allowances EXCEPT ![c][<<owner, spender>>] = @ - amount]
  /\ FinishTransfer(c, Debited(c, owner, amount), inflight, amount, target_account, owner)
  /\ UNCHANGED authorised

Claim(c, signer, source_account, amount, target_account) ==
  /\ CheckAccountPermission(signer, source_account.owner)
  /\ \/ /\ source_account.chain_id = c
        /\ CanDebit(c, source_account.owner, amount)
        /\ FinishTransfer(c, Debited(c, source_account.owner, amount), inflight,
                          amount, target_account, source_account.owner)
     \/ /\ source_account.chain_id # c
        /\ \E s \in FreeSlots(inflight) :
             inflight' = [inflight EXCEPT ![s] =
               [type |-> "Withdraw", to |-> source_account.chain_id,
                owner |-> source_account.owner, signer |-> signer,
                amount |-> amount, target_account |-> target_account]]
        /\ UNCHANGED <<accounts, settled>>
  /\ Authorise(signer, amount)
  /\ UNCHANGED allowances

-----------------------------------------------------------------------------
(* execute_message on the chain a message was sent to.                      *)

(* Mutant of CreditReceiver: a bounced message still pays its target.       *)
CreditReceiverIgnoringBounce(m) == m.target

CreditReceiver(m) == IF m.bouncing THEN m.source ELSE m.target

(* Mutant of ExecuteCredit: the message stays in the inbox and runs again.  *)
ExecuteCreditAgain(s) ==
  LET m == inflight[s] IN
  /\ m.type = "Credit"
  /\ accounts' = Credited(accounts, m.to, CreditReceiver(m), m.amount)
  /\ UNCHANGED <<allowances, inflight, authorised, settled>>

ExecuteCredit(s) ==
  LET m == inflight[s] IN
  /\ m.type = "Credit"
  /\ accounts' = Credited(accounts, m.to, CreditReceiver(m), m.amount)
  /\ inflight' = Without(s)
  /\ IF m.bouncing THEN UNCHANGED settled ELSE Settle(m.source, m.target, m.amount)
  /\ UNCHANGED <<allowances, authorised>>

ExecuteWithdraw(s) ==
  LET m == inflight[s] IN
  /\ m.type = "Withdraw"
  /\ CheckAccountPermission(m.signer, m.owner)
  /\ CanDebit(m.to, m.owner, m.amount)
  /\ FinishTransfer(m.to, Debited(m.to, m.owner, m.amount), Without(s),
                    m.amount, m.target_account, m.owner)
  /\ UNCHANGED <<allowances, authorised>>

(* Mutant of RejectMessage: the Credit is sent without tracking.            *)
RejectMessageUntracked(s) ==
  /\ \/ inflight[s].type = "Withdraw"
     \/ inflight[s].type = "Credit" /\ ~inflight[s].bouncing
  /\ inflight' = Without(s)
  /\ UNCHANGED <<accounts, allowances, authorised, settled>>

(* Mutant of RejectMessage: a bounced Credit may be rejected and bounces    *)
(* again.                                                                   *)
RejectMessageRepeatedly(s) ==
  LET m == inflight[s] IN
  /\ m.type = "Credit"
  /\ inflight' = [inflight EXCEPT ![s] = [m EXCEPT !.from = m.to, !.to = m.from]]
  /\ UNCHANGED <<accounts, allowances, authorised, settled>>

(* The receiving chain rejects a message, by choice or because executing it *)
(* panics.  A Credit is sent with tracking and bounces, once, to the chain  *)
(* it came from; a Withdraw is sent without and is dropped.                 *)
RejectMessage(s) ==
  LET m == inflight[s] IN
  /\ \/ /\ m.type = "Credit" /\ ~m.bouncing
        /\ inflight' = [inflight EXCEPT ![s] =
             [m EXCEPT !.from = m.to, !.to = m.from, !.bouncing = TRUE]]
     \/ /\ m.type = "Withdraw"
        /\ inflight' = Without(s)
  /\ UNCHANGED <<accounts, allowances, authorised, settled>>

HandleMessage(s) == ExecuteCredit(s) \/ ExecuteWithdraw(s) \/ RejectMessage(s)

-----------------------------------------------------------------------------

Init ==
  /\ accounts = [c \in Chains |->
       IF c = CreationChain THEN InitialAccounts ELSE [o \in Owners |-> 0]]
  /\ allowances = [c \in Chains |-> [k \in Owners \X Owners |-> 0]]
  /\ inflight = [s \in Slots |-> NoMessage]
  /\ authorised = [o \in Owners |-> 0]
  /\ settled = InitialAccounts

ExecuteOperation(c, signer) ==
  \E owner \in Owners, amount \in OperationAmounts :
    \/ \E spender \in Owners : Approve(c, signer, owner, spender, amount)
    \/ \E target_account \in Account :
         \/ Transfer(c, signer, owner, amount, target_account)
         \/ \E spender \in Owners :
              TransferFrom(c, signer, owner, spender, amount, target_account)
         \/ \E chain \in Chains :
              Claim(c, signer, [chain_id |-> chain, owner |-> owner], amount, target_account)

Next ==
  \/ \E c \in Chains, signer \in Owners : ExecuteOperation(c, signer)
  \/ \E s \in Slots : HandleMessage(s)

Spec == Init /\ [][Next]_vars

(* Each chain's owner keeps processing its inbox.                           *)
Fairness == \A s \in Slots : WF_vars(HandleMessage(s))

FairSpec == Spec /\ Fairness

-----------------------------------------------------------------------------
(* Properties.                                                              *)

TypeOK ==
  /\ accounts \in [Chains -> [Owners -> Amount]]
  /\ allowances \in [Chains -> [Owners \X Owners -> Amount]]
  /\ inflight \in [Slots -> CreditMessage \cup WithdrawMessage \cup {NoMessage}]
  /\ authorised \in [Owners -> 0..MaxAuthorised]
  /\ settled \in [Owners -> Int]

OnAllChains(o) == SumFunctionOnSet([c \in Chains |-> accounts[c][o]], Chains)

InCredits(o, bouncing) ==
  SumFunctionOnSet([s \in Slots |->
    IF /\ inflight[s].type = "Credit"
       /\ inflight[s].source = o
       /\ inflight[s].bouncing \in bouncing
    THEN inflight[s].amount ELSE 0], Slots)

(* The tokens of o on all chains together with o's own transfers under way  *)
(* are exactly what o started with, plus what others completed to o, minus  *)
(* what o completed to others: no token is lost, made, or landed on another *)
(* account by a claim, a rejection or a bounce.                             *)
OwnerAccounting ==
  \A o \in Owners : OnAllChains(o) + InCredits(o, BOOLEAN) = settled[o]

(* The supply never changes: every token is on an account or in exactly one *)
(* Credit message.                                                          *)
SupplyConserved ==
  SumFunctionOnSet([o \in Owners |-> OnAllChains(o) + InCredits(o, BOOLEAN)], Owners) = Supply

OutstandingAllowances(o) ==
  SumFunctionOnSet([k \in Chains \X Owners |-> allowances[k[1]][<<o, k[2]>>]], Chains \X Owners)

PendingWithdrawals(o) ==
  SumFunctionOnSet([s \in Slots |->
    IF inflight[s].type = "Withdraw" /\ inflight[s].owner = o
    THEN inflight[s].amount ELSE 0], Slots)

(* An owner loses at most what the owner signed for, and each signature is  *)
(* used at most once: what is still outstanding as an allowance or a        *)
(* Withdraw message has not been spent too.                                 *)
SpendingAuthorised ==
  \A o \in Owners :
    OnAllChains(o) + InCredits(o, {TRUE}) + authorised[o]
      >= InitialAccounts[o] + OutstandingAllowances(o) + PendingWithdrawals(o)

(* Every message in flight, and every message it turns into, is done with   *)
(* eventually: no credit bounces forever.                                   *)
EventuallySettled ==
  \A s \in Slots : (inflight[s] # NoMessage) ~> (inflight[s] = NoMessage)

(* The application implements the single ledger: Credits not yet bouncing   *)
(* are its transfers under way, and a bouncing Credit is already refunded.  *)
Ledger == INSTANCE TokenLedger WITH
  InitialWealth <- InitialAccounts,
  available <- [o \in Owners |-> OnAllChains(o) + InCredits(o, {TRUE})],
  pending <- [s \in Slots |->
    IF inflight[s].type = "Credit" /\ ~inflight[s].bouncing
    THEN [source |-> inflight[s].source, target |-> inflight[s].target,
          amount |-> inflight[s].amount]
    ELSE [source |-> "none"]]

ImplementsLedger == Ledger!Spec

=============================================================================
