--------------------------- MODULE FungibleProofs ---------------------------
(***************************************************************************)
(* Theorems about Fungible, for every number of chains, owners and         *)
(* messages in flight and every amount: its types, that no token is lost   *)
(* or made, that nobody's tokens are spent beyond what the owner signed    *)
(* for, and that it implements TokenLedger.                                *)
(*                                                                         *)
(* OwnerAccounting alone is not inductive: a credit saturates when the     *)
(* balance it lands on is too large, so the invariant also says that the   *)
(* settled wealth of all owners adds up to the supply, an Amount.          *)
(* SpendingAuthorised is inductive together with that accounting, which    *)
(* also says that a bounced Credit is refunded in full.  For the same      *)
(* reason every step of the chains, with all their messages, is a step of  *)
(* one TokenLedger or leaves it alone.                                     *)
(***************************************************************************)
EXTENDS Fungible, SumTheorems

Message == CreditMessage \cup WithdrawMessage \cup {NoMessage}

-----------------------------------------------------------------------------
(* Type correctness.                                                        *)

(* An empty slot holds neither kind of message.                             *)
LEMMA NoMessageType ==
  /\ \A m \in CreditMessage : m # NoMessage /\ m.type = "Credit"
  /\ \A m \in WithdrawMessage : m # NoMessage /\ m.type = "Withdraw"
BY DEF CreditMessage, WithdrawMessage, NoMessage

(* The capped sum of two amounts is an amount.                              *)
LEMMA SaturatingAddType ==
  ASSUME NEW a \in Amount, NEW b \in Amount
  PROVE  SaturatingAdd(a, b) \in Amount
BY FungibleAssumption DEF SaturatingAdd, Amount

(* A debit that the balance covers leaves balances of the right type.       *)
LEMMA DebitedType ==
  ASSUME TypeOK, NEW c \in Chains, NEW o \in Owners, NEW n \in Amount, CanDebit(c, o, n)
  PROVE  Debited(c, o, n) \in [Chains -> [Owners -> Amount]]
<1>1. accounts[c][o] - n \in Amount
  BY FungibleAssumption DEF TypeOK, CanDebit, Amount
<1>2. QED BY <1>1 DEF TypeOK, Debited

(* finish_transfer_to_account credits an account or fills a free slot.      *)
LEMMA FinishTransferType ==
  ASSUME NEW balances \in [Chains -> [Owners -> Amount]], NEW mail \in [Slots -> Message],
         settled \in [Owners -> Int],
         NEW c \in Chains, NEW n \in Amount, NEW t \in Account, NEW source \in Owners,
         FinishTransfer(c, balances, mail, n, t, source)
  PROVE  /\ accounts' \in [Chains -> [Owners -> Amount]]
         /\ inflight' \in [Slots -> Message]
         /\ settled' \in [Owners -> Int]
<1>1. CASE /\ accounts' = Credited(balances, c, t.owner, n)
           /\ inflight' = mail
           /\ Settle(source, t.owner, n)
  <2>1. t.owner \in Owners
    BY DEF Account
  <2>2. SaturatingAdd(balances[c][t.owner], n) \in Amount
    BY <2>1, SaturatingAddType
  <2>3. accounts' \in [Chains -> [Owners -> Amount]]
    BY <1>1, <2>1, <2>2 DEF Credited
  <2>4. settled' \in [Owners -> Int]
    BY <1>1, <2>1 DEF Settle, Amount
  <2>5. QED BY <1>1, <2>3, <2>4
<1>2. CASE /\ accounts' = balances
           /\ \E s \in FreeSlots(mail) :
                inflight' = [mail EXCEPT ![s] =
                  [type |-> "Credit", from |-> c, to |-> t.chain_id,
                   target |-> t.owner, source |-> source,
                   amount |-> n, bouncing |-> FALSE]]
           /\ UNCHANGED settled
  <2>1. [type |-> "Credit", from |-> c, to |-> t.chain_id, target |-> t.owner,
         source |-> source, amount |-> n, bouncing |-> FALSE] \in Message
    BY DEF Message, CreditMessage, Account
  <2>2. QED BY <1>2, <2>1 DEF FreeSlots
<1>3. QED BY <1>1, <1>2 DEF FinishTransfer

(* Signing for an amount keeps the record of signatures well typed.         *)
LEMMA AuthoriseType ==
  ASSUME authorised \in [Owners -> 0..MaxAuthorised], NEW o \in Owners, NEW n \in Amount,
         Authorise(o, n)
  PROVE  authorised' \in [Owners -> 0..MaxAuthorised]
<1>1. authorised[o] + n \in 0..MaxAuthorised
  BY FungibleAssumption DEF Authorise, Amount
<1>2. QED BY <1>1 DEF Authorise

(* Instantiation establishes the types.                                     *)
LEMMA TypeInit == Init => TypeOK
<1>1. 0 \in Amount /\ 0 \in 0..MaxAuthorised /\ InitialAccounts \in [Owners -> Int]
  BY FungibleAssumption DEF Amount
<1>2. QED BY <1>1, FungibleAssumption DEF Init, TypeOK

(* Every operation and message handler keeps the types.                     *)
LEMMA TypeStep == TypeOK /\ [Next]_vars => TypeOK'
<1> SUFFICES ASSUME TypeOK, [Next]_vars PROVE TypeOK'
  OBVIOUS
<1>a. inflight \in [Slots -> Message]
  BY DEF TypeOK, Message
<1>b. OperationAmounts \subseteq Amount
  BY FungibleAssumption
<1>1. ASSUME NEW c \in Chains, NEW signer \in Owners, NEW owner \in Owners,
             NEW spender \in Owners, NEW n \in OperationAmounts,
             Approve(c, signer, owner, spender, n)
      PROVE  TypeOK'
  <2>1. SaturatingAdd(allowances[c][<<owner, spender>>], n) \in Amount
    BY <1>b, SaturatingAddType DEF TypeOK
  <2>2. allowances' \in [Chains -> [Owners \X Owners -> Amount]]
    BY <1>1, <2>1 DEF Approve, TypeOK
  <2>3. authorised' \in [Owners -> 0..MaxAuthorised]
    BY <1>1, <1>b, AuthoriseType DEF Approve, TypeOK
  <2>4. QED BY <1>1, <2>2, <2>3 DEF Approve, TypeOK
<1>2. ASSUME NEW c \in Chains, NEW signer \in Owners, NEW owner \in Owners,
             NEW n \in OperationAmounts, NEW t \in Account,
             Transfer(c, signer, owner, n, t)
      PROVE  TypeOK'
  <2>1. Debited(c, owner, n) \in [Chains -> [Owners -> Amount]]
    BY <1>2, <1>b, DebitedType DEF Transfer
  <2>2. /\ accounts' \in [Chains -> [Owners -> Amount]]
        /\ inflight' \in [Slots -> Message]
        /\ settled' \in [Owners -> Int]
    BY <1>2, <1>a, <1>b, <2>1, FinishTransferType DEF Transfer, TypeOK
  <2>3. authorised' \in [Owners -> 0..MaxAuthorised]
    BY <1>2, <1>b, AuthoriseType DEF Transfer, TypeOK
  <2>4. QED BY <1>2, <2>2, <2>3 DEF Transfer, TypeOK, Message
<1>3. ASSUME NEW c \in Chains, NEW signer \in Owners, NEW owner \in Owners,
             NEW spender \in Owners, NEW n \in OperationAmounts, NEW t \in Account,
             TransferFrom(c, signer, owner, spender, n, t)
      PROVE  TypeOK'
  <2>1. CanDebit(c, owner, n) /\ allowances[c][<<owner, spender>>] >= n
    BY <1>3, FungibleAssumption DEF TransferFrom, CanDebit, TypeOK, Amount
  <2>2. Debited(c, owner, n) \in [Chains -> [Owners -> Amount]]
    BY <2>1, <1>b, DebitedType
  <2>3. /\ accounts' \in [Chains -> [Owners -> Amount]]
        /\ inflight' \in [Slots -> Message]
        /\ settled' \in [Owners -> Int]
    BY <1>3, <1>a, <1>b, <2>2, FinishTransferType DEF TransferFrom, TypeOK
  <2>4. allowances[c][<<owner, spender>>] - n \in Amount
    BY <2>1, <1>b, FungibleAssumption DEF TypeOK, Amount
  <2>5. allowances' \in [Chains -> [Owners \X Owners -> Amount]]
    BY <1>3, <2>4 DEF TransferFrom, TypeOK
  <2>6. QED BY <1>3, <2>3, <2>5 DEF TransferFrom, TypeOK, Message
<1>4. ASSUME NEW c \in Chains, NEW signer \in Owners, NEW a \in Account,
             NEW n \in OperationAmounts, NEW t \in Account,
             Claim(c, signer, a, n, t)
      PROVE  TypeOK'
  <2>1. authorised' \in [Owners -> 0..MaxAuthorised]
    BY <1>4, <1>b, AuthoriseType DEF Claim, TypeOK
  <2>2. a.owner \in Owners /\ a.chain_id \in Chains
    BY DEF Account
  <2>3. CASE /\ CanDebit(c, a.owner, n)
             /\ FinishTransfer(c, Debited(c, a.owner, n), inflight, n, t, a.owner)
    <3>1. Debited(c, a.owner, n) \in [Chains -> [Owners -> Amount]]
      BY <2>2, <2>3, <1>b, DebitedType
    <3>2. /\ accounts' \in [Chains -> [Owners -> Amount]]
          /\ inflight' \in [Slots -> Message]
          /\ settled' \in [Owners -> Int]
      BY <2>2, <2>3, <1>a, <1>b, <3>1, FinishTransferType DEF TypeOK
    <3>3. QED BY <1>4, <2>1, <3>2 DEF Claim, TypeOK, Message
  <2>4. CASE /\ \E s \in FreeSlots(inflight) :
                  inflight' = [inflight EXCEPT ![s] =
                    [type |-> "Withdraw", to |-> a.chain_id, owner |-> a.owner,
                     signer |-> signer, amount |-> n, target_account |-> t]]
             /\ UNCHANGED <<accounts, settled>>
    <3>1. [type |-> "Withdraw", to |-> a.chain_id, owner |-> a.owner, signer |-> signer,
           amount |-> n, target_account |-> t] \in Message
      BY <2>2, <1>b DEF Message, WithdrawMessage
    <3>2. inflight' \in [Slots -> Message]
      BY <2>4, <3>1, <1>a DEF FreeSlots
    <3>3. QED BY <1>4, <2>1, <2>4, <3>2 DEF Claim, TypeOK, Message
  <2>5. QED BY <1>4, <2>3, <2>4 DEF Claim
<1>5. ASSUME NEW s \in Slots, ExecuteCredit(s)
      PROVE  TypeOK'
  <2>1. inflight[s] \in CreditMessage
    BY <1>5, <1>a DEF ExecuteCredit, Message, CreditMessage, WithdrawMessage, NoMessage
  <2>2. /\ inflight[s].to \in Chains /\ inflight[s].amount \in Amount
        /\ inflight[s].source \in Owners /\ inflight[s].target \in Owners
        /\ CreditReceiver(inflight[s]) \in Owners
    BY <2>1 DEF CreditMessage, CreditReceiver
  <2> DEFINE m == inflight[s]
  <2>3. SaturatingAdd(accounts[m.to][CreditReceiver(m)], m.amount) \in Amount
    BY <2>2, SaturatingAddType DEF TypeOK
  <2>4. accounts' \in [Chains -> [Owners -> Amount]]
    BY <1>5, <2>2, <2>3 DEF ExecuteCredit, Credited, TypeOK
  <2>5. inflight' \in [Slots -> Message]
    BY <1>5, <1>a DEF ExecuteCredit, Without, Message
  <2>6. settled' \in [Owners -> Int]
    BY <1>5, <2>2 DEF ExecuteCredit, Settle, TypeOK, Amount
  <2>7. QED BY <1>5, <2>4, <2>5, <2>6 DEF ExecuteCredit, TypeOK, Message
<1>6. ASSUME NEW s \in Slots, ExecuteWithdraw(s)
      PROVE  TypeOK'
  <2>1. inflight[s] \in WithdrawMessage
    BY <1>6, <1>a DEF ExecuteWithdraw, Message, CreditMessage, WithdrawMessage, NoMessage
  <2> DEFINE m == inflight[s]
  <2>2. /\ m.to \in Chains /\ m.amount \in Amount /\ m.owner \in Owners
        /\ m.target_account \in Account
    BY <2>1 DEF WithdrawMessage
  <2>3. Debited(m.to, m.owner, m.amount) \in [Chains -> [Owners -> Amount]]
    BY <1>6, <2>2, DebitedType DEF ExecuteWithdraw
  <2>4. Without(s) \in [Slots -> Message]
    BY <1>a DEF Without, Message
  <2>5. /\ accounts' \in [Chains -> [Owners -> Amount]]
        /\ inflight' \in [Slots -> Message]
        /\ settled' \in [Owners -> Int]
    BY <1>6, <2>2, <2>3, <2>4, FinishTransferType DEF ExecuteWithdraw, TypeOK
  <2>6. QED BY <1>6, <2>5 DEF ExecuteWithdraw, TypeOK, Message
<1>7. ASSUME NEW s \in Slots, RejectMessage(s)
      PROVE  TypeOK'
  <2>1. ASSUME inflight[s].type = "Credit"
        PROVE  [inflight[s] EXCEPT !.from = inflight[s].to, !.to = inflight[s].from,
                                   !.bouncing = TRUE] \in Message
    <3>1. inflight[s] \in CreditMessage
      BY <2>1, <1>a DEF Message, CreditMessage, WithdrawMessage, NoMessage
    <3>2. QED BY <3>1 DEF Message, CreditMessage
  <2>2. inflight' \in [Slots -> Message]
    BY <1>7, <1>a, <2>1 DEF RejectMessage, Without, Message
  <2>3. QED BY <1>7, <2>2 DEF RejectMessage, TypeOK, Message
<1>8. CASE UNCHANGED vars
  BY <1>8 DEF vars, TypeOK
<1>9. QED
  <2>1. ASSUME NEW c \in Chains, NEW signer \in Owners, ExecuteOperation(c, signer)
        PROVE  TypeOK'
    <3>1. \A chain \in Chains, owner \in Owners :
            [chain_id |-> chain, owner |-> owner] \in Account
      BY DEF Account
    <3>2. QED BY <2>1, <3>1, <1>1, <1>2, <1>3, <1>4 DEF ExecuteOperation
  <2>2. ASSUME NEW s \in Slots, HandleMessage(s)
        PROVE  TypeOK'
    BY <2>2, <1>5, <1>6, <1>7 DEF HandleMessage
  <2>3. QED BY <2>1, <2>2, <1>8 DEF Next

(* Balances and allowances of every chain are Amounts, and every message in *)
(* flight is a well-formed Credit or Withdraw, in every reachable state.    *)
THEOREM TypeCorrect == Spec => []TypeOK
<1>1. QED BY TypeInit, TypeStep, PTL DEF Spec

-----------------------------------------------------------------------------
(* Conservation.                                                            *)

HeldIn(balances, o) == SumFunctionOnSet([c \in Chains |-> balances[c][o]], Chains)

CreditOf(m, o) == IF m.type = "Credit" /\ m.source = o THEN m.amount ELSE 0

CreditsIn(mail, o) == SumFunctionOnSet([s \in Slots |-> CreditOf(mail[s], o)], Slots)

Settled == SumFunctionOnSet(settled, Owners) = Supply

(* With `balances` and `mail`, every owner has what settled says.           *)
Balanced(balances, mail) ==
  \A o \in Owners : HeldIn(balances, o) + CreditsIn(mail, o) = settled[o]

(* The same, but `source` has been debited n and no one has been paid.      *)
Owing(balances, mail, source, n) ==
  \A o \in Owners :
    HeldIn(balances, o) + CreditsIn(mail, o) = settled[o] - (IF o = source THEN n ELSE 0)

(* The inductive invariant.                                                 *)
Accounting == TypeOK /\ Settled /\ Balanced(accounts, inflight)

-----------------------------------------------------------------------------
(* The sums.                                                                *)

(* What an owner holds bounds each of the owner's balances.                 *)
LEMMA HeldBounds ==
  ASSUME NEW balances \in [Chains -> [Owners -> Amount]], NEW o \in Owners
  PROVE  /\ HeldIn(balances, o) \in Nat
         /\ \A c \in Chains : balances[c][o] <= HeldIn(balances, o)
<1> DEFINE f == [c \in Chains |-> balances[c][o]]
<1>1. \A c \in Chains : f[c] \in Nat
  BY FungibleAssumption DEF Amount
<1>2. IsFiniteSet(Chains)
  BY FungibleAssumption
<1>3. SumFunctionOnSet(f, Chains) \in Nat
  BY <1>1, <1>2, SumNat
<1>4. \A c \in Chains : f[c] <= SumFunctionOnSet(f, Chains)
  BY <1>1, <1>2, SumTerm
<1>5. QED BY <1>3, <1>4 DEF HeldIn

(* Changing one balance changes its owner's total by as much.               *)
LEMMA HeldShift ==
  ASSUME NEW balances, NEW after, NEW c \in Chains, NEW n, NEW o
  PROVE  /\ n \in Int
         /\ \A d \in Chains : balances[d][o] \in Int
         /\ \A d \in Chains : after[d][o] = IF d = c THEN balances[d][o] + n
                                                     ELSE balances[d][o]
         => HeldIn(after, o) = HeldIn(balances, o) + n
<1> DEFINE f == [d \in Chains |-> balances[d][o]]
           g == [d \in Chains |-> after[d][o]]
<1>1. SUFFICES ASSUME n \in Int, \A d \in Chains : balances[d][o] \in Int,
                      \A d \in Chains : after[d][o] = IF d = c THEN balances[d][o] + n
                                                               ELSE balances[d][o]
               PROVE  SumFunctionOnSet(g, Chains) = SumFunctionOnSet(f, Chains) + n
  BY DEF HeldIn
<1>2. \A d \in Chains : f[d] \in Int
  BY <1>1
<1>3. \A d \in Chains : g[d] = IF d = c THEN f[d] + n ELSE f[d]
  BY <1>1
<1>4. n \in Int /\ IsFiniteSet(Chains)
  BY <1>1, FungibleAssumption
<1> HIDE DEF f, g
<1>5. QED BY <1>2, <1>3, <1>4, SumShift

(* What a message owes an owner is an amount.                               *)
LEMMA CreditOfType ==
  ASSUME NEW m \in Message, NEW o \in Owners
  PROVE  CreditOf(m, o) \in Nat
BY FungibleAssumption
   DEF CreditOf, Message, CreditMessage, WithdrawMessage, NoMessage, Amount

(* The credits under way that are owed to one owner sum to a natural.      *)
LEMMA CreditsInNat ==
  ASSUME NEW mail \in [Slots -> Message], NEW o \in Owners
  PROVE  CreditsIn(mail, o) \in Nat
<1> DEFINE f == [s \in Slots |-> CreditOf(mail[s], o)]
<1>1. \A s \in Slots : f[s] \in Nat
  BY CreditOfType
<1>2. IsFiniteSet(Slots)
  BY FungibleAssumption
<1>3. SumFunctionOnSet(f, Slots) \in Nat
  BY <1>1, <1>2, SumNat
<1>4. QED BY <1>3 DEF CreditsIn

(* Replacing one message changes the credits under way by the difference.   *)
LEMMA CreditsUpdate ==
  ASSUME NEW mail, NEW after, NEW s \in Slots, NEW m, NEW o \in Owners
  PROVE  /\ mail \in [Slots -> Message]
         /\ m \in Message
         /\ \A r \in Slots : after[r] = IF r = s THEN m ELSE mail[r]
         => CreditsIn(after, o) = CreditsIn(mail, o) - CreditOf(mail[s], o) + CreditOf(m, o)
<1> DEFINE f == [r \in Slots |-> CreditOf(mail[r], o)]
           g == [r \in Slots |-> CreditOf(after[r], o)]
<1>1. SUFFICES ASSUME mail \in [Slots -> Message], m \in Message,
                      \A r \in Slots : after[r] = IF r = s THEN m ELSE mail[r]
               PROVE  SumFunctionOnSet(g, Slots)
                        = SumFunctionOnSet(f, Slots) - CreditOf(mail[s], o) + CreditOf(m, o)
  BY DEF CreditsIn
<1>2. \A r \in Slots : f[r] \in Int
  BY <1>1, CreditOfType
<1>3. g[s] = CreditOf(m, o) /\ f[s] = CreditOf(mail[s], o)
  BY <1>1
<1>4. \A r \in Slots \ {s} : g[r] = f[r]
  BY <1>1
<1>5. g[s] \in Int
  BY <1>1, <1>3, CreditOfType
<1>6. IsFiniteSet(Slots)
  BY FungibleAssumption
<1> HIDE DEF f, g
<1>7. SumFunctionOnSet(g, Slots) = SumFunctionOnSet(f, Slots) - f[s] + g[s]
  BY <1>2, <1>4, <1>5, <1>6, SumUpdate
<1>8. QED BY <1>3, <1>7

(* The accounting of the model, in the terms of this module.                *)
LEMMA AccountingTerms ==
  ASSUME TypeOK, NEW o \in Owners
  PROVE  /\ OnAllChains(o) = HeldIn(accounts, o)
         /\ InCredits(o, BOOLEAN) = CreditsIn(inflight, o)
<1> DEFINE f == [s \in Slots |->
                   IF /\ inflight[s].type = "Credit"
                      /\ inflight[s].source = o
                      /\ inflight[s].bouncing \in BOOLEAN
                   THEN inflight[s].amount ELSE 0]
           g == [s \in Slots |-> CreditOf(inflight[s], o)]
<1>1. ASSUME NEW s \in Slots PROVE f[s] = g[s]
  <2>1. inflight[s] \in Message
    BY DEF TypeOK, Message
  <2>2. inflight[s].type = "Credit" => inflight[s].bouncing \in BOOLEAN
    BY <2>1 DEF Message, CreditMessage, WithdrawMessage, NoMessage
  <2>3. QED BY <2>2 DEF CreditOf
<1>2. IsFiniteSet(Slots)
  BY FungibleAssumption
<1>3. SumFunctionOnSet(f, Slots) = SumFunctionOnSet(g, Slots)
  BY <1>1, <1>2, SumSame
<1>4. QED BY <1>3 DEF OnAllChains, HeldIn, InCredits, CreditsIn

-----------------------------------------------------------------------------
(* The steps of a transfer.                                                 *)

(* A credit of tokens that are owed never saturates.                        *)
LEMMA NoSaturation ==
  ASSUME NEW balances \in [Chains -> [Owners -> Amount]],
         NEW mail \in [Slots -> Message], settled \in [Owners -> Int], Settled,
         NEW source \in Owners, NEW p \in Owners, NEW c \in Chains, NEW n \in Amount,
         Owing(balances, mail, source, n)
  PROVE  SaturatingAdd(balances[c][p], n) = balances[c][p] + n
<1>1. \A o \in Owners : HeldIn(balances, o) \in Nat /\ CreditsIn(mail, o) \in Nat
  BY HeldBounds, CreditsInNat
<1>2. n \in Nat /\ MaxAmount \in Nat /\ Supply \in Int /\ Supply <= MaxAmount
  BY FungibleAssumption DEF Amount
<1>3. \A o \in Owners : settled[o] \in Nat
  <2>1. ASSUME NEW o \in Owners
        PROVE  settled[o] = HeldIn(balances, o) + CreditsIn(mail, o)
                              + (IF o = source THEN n ELSE 0)
    <3>1. HeldIn(balances, o) + CreditsIn(mail, o)
            = settled[o] - (IF o = source THEN n ELSE 0)
      BY DEF Owing
    <3>2. settled[o] \in Int
      OBVIOUS
    <3>3. HeldIn(balances, o) \in Nat /\ CreditsIn(mail, o) \in Nat
      BY <1>1
    <3>4. QED BY <3>1, <3>2, <3>3, <1>2
  <2>2. QED BY <2>1, <1>1, <1>2
<1>4. IsFiniteSet(Owners)
  BY FungibleAssumption
<1>5. balances[c][p] <= HeldIn(balances, p) /\ balances[c][p] \in Nat
  BY HeldBounds, FungibleAssumption DEF Amount
<1>6. CASE p = source
  <2>1. settled[p] <= Supply
    BY <1>3, <1>4, SumTerm DEF Settled
  <2>2. HeldIn(balances, p) + CreditsIn(mail, p) = settled[p] - n
    BY <1>6 DEF Owing
  <2>3. balances[c][p] + n <= MaxAmount
    BY <2>1, <2>2, <1>1, <1>2, <1>3, <1>5
  <2>4. QED BY <2>3, <1>2, <1>5 DEF SaturatingAdd
<1>7. CASE p # source
  <2>1. settled[p] + settled[source] <= Supply
    BY <1>3, <1>4, <1>7, SumTwoTerms DEF Settled
  <2>2. /\ HeldIn(balances, p) + CreditsIn(mail, p) = settled[p] - 0
        /\ HeldIn(balances, source) + CreditsIn(mail, source) = settled[source] - n
    BY <1>7 DEF Owing
  <2>3. n <= settled[source]
    BY <2>2, <1>1, <1>2, <1>3
  <2>4. balances[c][p] + n <= MaxAmount
    BY <2>1, <2>2, <2>3, <1>1, <1>2, <1>3, <1>5
  <2>5. QED BY <2>4, <1>2, <1>5 DEF SaturatingAdd
<1>8. QED BY <1>6, <1>7

(* Settling a transfer leaves the total wealth as it was.                   *)
LEMMA SettleKeepsTotal ==
  ASSUME NEW p \in Owners, NEW q \in Owners, NEW n \in Int
  PROVE  settled \in [Owners -> Int] /\ Settle(p, q, n)
           => SumFunctionOnSet(settled', Owners) = SumFunctionOnSet(settled, Owners)
<1> DEFINE mid == [settled EXCEPT ![p] = @ - n]
<1>1. SUFFICES ASSUME settled \in [Owners -> Int], Settle(p, q, n)
               PROVE  SumFunctionOnSet(settled', Owners) = SumFunctionOnSet(settled, Owners)
  OBVIOUS
<1>2. \A o \in Owners : settled[o] \in Int
  BY <1>1
<1>3. \A o \in Owners : mid[o] = IF o = p THEN settled[o] + (-n) ELSE settled[o]
  BY <1>1
<1>4. \A o \in Owners : mid[o] \in Int
  BY <1>1
<1>5. \A o \in Owners : settled'[o] = IF o = q THEN mid[o] + n ELSE mid[o]
  BY <1>1 DEF Settle
<1>6. -n \in Int
  OBVIOUS
<1>7. IsFiniteSet(Owners)
  BY FungibleAssumption
<1> HIDE DEF mid
<1>8. SumFunctionOnSet(mid, Owners) = SumFunctionOnSet(settled, Owners) + (-n)
  BY <1>2, <1>3, <1>6, <1>7, SumShift
<1>9. SumFunctionOnSet(settled', Owners) = SumFunctionOnSet(mid, Owners) + n
  BY <1>4, <1>5, <1>7, SumShift
<1>10. SumFunctionOnSet(settled, Owners) \in Int
  BY <1>2, <1>7, SumType
<1>11. QED BY <1>8, <1>9, <1>10

(* A credit that does not saturate adds its amount to what its owner holds. *)
LEMMA CreditedHeldExactly ==
  ASSUME NEW balances \in [Chains -> [Owners -> Amount]], NEW c \in Chains,
         NEW p \in Owners, NEW n \in Amount, NEW o \in Owners,
         SaturatingAdd(balances[c][p], n) = balances[c][p] + n
  PROVE  HeldIn(Credited(balances, c, p, n), o)
           = HeldIn(balances, o) + (IF o = p THEN n ELSE 0)
<1> DEFINE after == Credited(balances, c, p, n)
           e == IF o = p THEN n ELSE 0
<1>1. after = [balances EXCEPT ![c][p] = balances[c][p] + n]
  BY DEF Credited
<1>2. e \in Int /\ \A d \in Chains : balances[d][o] \in Int
  BY DEF Amount
<1> HIDE DEF after
<1>3. ASSUME NEW d \in Chains
      PROVE  after[d][o] = IF d = c THEN balances[d][o] + e ELSE balances[d][o]
  <2>1. CASE d = c /\ o = p
    BY <1>1, <2>1
  <2>2. CASE d # c \/ o # p
    BY <1>1, <1>2, <2>2
  <2>3. QED BY <2>1, <2>2
<1> HIDE DEF e
<1>4. HeldIn(after, o) = HeldIn(balances, o) + e
  BY <1>2, <1>3, HeldShift, Z3
<1>5. QED BY <1>4 DEF after, e

(* Crediting the owed tokens settles the transfer.                          *)
LEMMA CreditLands ==
  ASSUME NEW balances \in [Chains -> [Owners -> Amount]],
         NEW mail \in [Slots -> Message], settled \in [Owners -> Int], Settled,
         NEW source \in Owners, NEW p \in Owners, NEW c \in Chains, NEW n \in Amount,
         Owing(balances, mail, source, n),
         accounts' = Credited(balances, c, p, n), inflight' = mail,
         Settle(source, p, n)
  PROVE  Settled' /\ Balanced(accounts, inflight)'
<1>1. n \in Int
  BY DEF Amount
<1>2. accounts' = [balances EXCEPT ![c][p] = balances[c][p] + n]
  BY NoSaturation DEF Credited
<1>3. balances[c][p] \in Int /\ balances[c][p] + n \in Int
  BY <1>1 DEF Amount
<1>4. settled' \in [Owners -> Int]
  BY <1>1 DEF Settle
<1>5. \A o \in Owners :
        settled'[o] = settled[o] - (IF o = source THEN n ELSE 0) + (IF o = p THEN n ELSE 0)
  BY <1>1 DEF Settle
<1>6. ASSUME NEW o \in Owners
      PROVE  HeldIn(accounts', o) + CreditsIn(inflight', o) = settled'[o]
  <2>2. HeldIn(balances, o) \in Nat /\ CreditsIn(mail, o) \in Nat /\ settled[o] \in Int
    BY HeldBounds, CreditsInNat
  <2>3. HeldIn(balances, o) + CreditsIn(mail, o)
          = settled[o] - (IF o = source THEN n ELSE 0)
    BY DEF Owing
  <2>4. HeldIn(accounts', o) = HeldIn(balances, o) + (IF o = p THEN n ELSE 0)
    <3>1. SaturatingAdd(balances[c][p], n) = balances[c][p] + n
      BY NoSaturation
    <3>2. HeldIn(Credited(balances, c, p, n), o)
            = HeldIn(balances, o) + (IF o = p THEN n ELSE 0)
      BY <3>1, CreditedHeldExactly
    <3>3. QED BY <3>2
  <2>5. CreditsIn(inflight', o) = CreditsIn(mail, o)
    OBVIOUS
  <2>6. settled'[o]
          = settled[o] - (IF o = source THEN n ELSE 0) + (IF o = p THEN n ELSE 0)
    BY <1>5
  <2> DEFINE held == HeldIn(balances, o)
             credits == CreditsIn(mail, o)
             paid == IF o = source THEN n ELSE 0
             received == IF o = p THEN n ELSE 0
  <2>7. paid \in Int /\ received \in Int
    BY <1>1
  <2> HIDE DEF held, credits, paid, received
  <2>8. (held + received) + credits = settled[o] - paid + received
    BY <2>2, <2>3, <2>7 DEF held, credits, paid
  <2>9. QED BY <2>4, <2>5, <2>6, <2>8 DEF held, credits, paid, received
<1>7. SumFunctionOnSet(settled', Owners) = Supply
  BY <1>1, SettleKeepsTotal DEF Settled
<1>8. QED BY <1>6, <1>7 DEF Settled, Balanced

(* Putting the owed tokens into a free slot as a Credit settles the debt    *)
(* too: they stay the source's until the Credit is executed.                *)
LEMMA CreditSent ==
  ASSUME NEW balances \in [Chains -> [Owners -> Amount]],
         NEW mail \in [Slots -> Message], settled \in [Owners -> Int], Settled,
         NEW source \in Owners, NEW n \in Amount, Owing(balances, mail, source, n),
         NEW s \in FreeSlots(mail), NEW m \in CreditMessage,
         m.source = source, m.amount = n,
         \A r \in Slots : inflight'[r] = IF r = s THEN m ELSE mail[r],
         accounts' = balances, settled' = settled
  PROVE  Settled' /\ Balanced(accounts, inflight)'
<1>1. m \in Message /\ s \in Slots /\ mail[s] = NoMessage
  BY DEF Message, FreeSlots
<1>2. ASSUME NEW o \in Owners
      PROVE  HeldIn(accounts', o) + CreditsIn(inflight', o) = settled'[o]
  <2>1. CreditOf(mail[s], o) = 0
    BY <1>1 DEF CreditOf, NoMessage
  <2>2. CreditOf(m, o) = IF o = source THEN n ELSE 0
    BY NoMessageType DEF CreditOf
  <2>3. CreditsIn(inflight', o)
          = CreditsIn(mail, o) - CreditOf(mail[s], o) + CreditOf(m, o)
    BY <1>1, CreditsUpdate
  <2>4. /\ HeldIn(balances, o) \in Nat /\ CreditsIn(mail, o) \in Nat
        /\ settled[o] \in Int /\ n \in Int
    BY HeldBounds, CreditsInNat DEF Amount
  <2>5. HeldIn(balances, o) + CreditsIn(mail, o)
          = settled[o] - (IF o = source THEN n ELSE 0)
    BY DEF Owing
  <2> DEFINE owed == IF o = source THEN n ELSE 0
  <2>6. owed \in Int
    BY <2>4
  <2>7. CreditsIn(inflight', o) = CreditsIn(mail, o) + owed
    BY <2>1, <2>2, <2>3, <2>4
  <2>8. HeldIn(accounts', o) = HeldIn(balances, o) /\ settled'[o] = settled[o]
    OBVIOUS
  <2>9. HeldIn(balances, o) + (CreditsIn(mail, o) + owed) = settled[o]
    <3> HIDE DEF owed
    <3>1. HeldIn(balances, o) + CreditsIn(mail, o) = settled[o] - owed
      BY <2>5 DEF owed
    <3>2. QED BY <2>4, <2>6, <3>1
  <2> HIDE DEF owed
  <2>10. QED BY <2>7, <2>8, <2>9
<1>3. Settled'
  BY DEF Settled
<1>4. Balanced(accounts, inflight)'
  BY <1>2, Zenon DEF Balanced
<1>5. QED BY <1>3, <1>4

(* finish_transfer_to_account touches the credited account only.            *)
LEMMA FinishTransferAccounts ==
  ASSUME NEW balances \in [Chains -> [Owners -> Amount]],
         NEW mail \in [Slots -> Message], settled \in [Owners -> Int], Settled,
         NEW c \in Chains, NEW n \in Amount, NEW t \in Account, NEW source \in Owners,
         Owing(balances, mail, source, n),
         FinishTransfer(c, balances, mail, n, t, source)
  PROVE  Settled' /\ Balanced(accounts, inflight)'
<1>1. t.owner \in Owners /\ t.chain_id \in Chains
  BY DEF Account
<1>2. CASE /\ accounts' = Credited(balances, c, t.owner, n)
           /\ inflight' = mail
           /\ Settle(source, t.owner, n)
  BY <1>1, <1>2, CreditLands
<1>3. CASE /\ accounts' = balances
           /\ \E s \in FreeSlots(mail) :
                inflight' = [mail EXCEPT ![s] =
                  [type |-> "Credit", from |-> c, to |-> t.chain_id,
                   target |-> t.owner, source |-> source,
                   amount |-> n, bouncing |-> FALSE]]
           /\ UNCHANGED settled
  <2> DEFINE m == [type |-> "Credit", from |-> c, to |-> t.chain_id,
                   target |-> t.owner, source |-> source,
                   amount |-> n, bouncing |-> FALSE]
  <2>1. m \in CreditMessage /\ m.source = source /\ m.amount = n
    BY <1>1 DEF CreditMessage
  <2>2. PICK s \in FreeSlots(mail) : inflight' = [mail EXCEPT ![s] = m]
    BY <1>3
  <2> HIDE DEF m
  <2>3. \A r \in Slots : inflight'[r] = IF r = s THEN m ELSE mail[r]
    BY <2>2 DEF FreeSlots
  <2>4. accounts' = balances /\ settled' = settled
    BY <1>3
  <2>5. QED BY <2>1, <2>3, <2>4, CreditSent, SMTT(30)
<1>4. QED BY <1>2, <1>3 DEF FinishTransfer

(* A debit lessens what its owner holds.                                    *)
LEMMA DebitedHeld ==
  ASSUME TypeOK, NEW c \in Chains, NEW p \in Owners, NEW n \in Amount, NEW o \in Owners
  PROVE  HeldIn(Debited(c, p, n), o) = HeldIn(accounts, o) - (IF o = p THEN n ELSE 0)
<1> DEFINE after == Debited(c, p, n)
           e == IF o = p THEN -n ELSE 0
<1>1. n \in Int /\ \A q \in Owners : \A d \in Chains : accounts[d][q] \in Int
  BY DEF TypeOK, Amount
<1>2. accounts \in [Chains -> [Owners -> Amount]]
  BY DEF TypeOK
<1>3. ASSUME NEW d \in Chains
      PROVE  after[d][o] = IF d = c THEN accounts[d][o] + e ELSE accounts[d][o]
  <2>1. CASE d = c /\ o = p
    BY <1>1, <1>2, <2>1 DEF Debited
  <2>2. CASE d # c \/ o # p
    BY <1>1, <1>2, <2>2 DEF Debited
  <2>3. QED BY <2>1, <2>2
<1>4. e \in Int
  BY <1>1
<1>5. \A d \in Chains : accounts[d][o] \in Int
  BY <1>1
<1>6. HeldIn(accounts, o) \in Nat
  BY <1>2, HeldBounds
<1> HIDE DEF e, after
<1>7. HeldIn(after, o) = HeldIn(accounts, o) + e
  BY <1>3, <1>4, <1>5, HeldShift
<1>8. QED BY <1>1, <1>6, <1>7 DEF e, after

(* A debit creates a debt of its amount.                                    *)
LEMMA DebitOwes ==
  ASSUME Accounting, NEW c \in Chains, NEW p \in Owners, NEW n \in Amount,
         CanDebit(c, p, n), NEW mail,
         \A o \in Owners : CreditsIn(mail, o) = CreditsIn(inflight, o)
  PROVE  Owing(Debited(c, p, n), mail, p, n)
<1> DEFINE after == Debited(c, p, n)
<1>1. n \in Int
  BY DEF Amount
<1>2. ASSUME NEW o \in Owners
      PROVE  HeldIn(after, o) = HeldIn(accounts, o) - (IF o = p THEN n ELSE 0)
  BY DebitedHeld DEF Accounting
<1>3. ASSUME NEW o \in Owners
      PROVE  HeldIn(after, o) + CreditsIn(mail, o)
               = settled[o] - (IF o = p THEN n ELSE 0)
  <2>1. HeldIn(accounts, o) \in Nat /\ CreditsIn(inflight, o) \in Nat /\ settled[o] \in Int
    BY HeldBounds, CreditsInNat DEF Accounting, TypeOK, Message
  <2>2. HeldIn(accounts, o) + CreditsIn(inflight, o) = settled[o]
    BY DEF Accounting, Balanced
  <2>3. CreditsIn(mail, o) = CreditsIn(inflight, o)
    OBVIOUS
  <2>4. HeldIn(after, o) = HeldIn(accounts, o) - (IF o = p THEN n ELSE 0)
    BY <1>2
  <2> HIDE DEF after
  <2>5. QED BY <1>1, <2>1, <2>2, <2>3, <2>4
<1>4. QED BY <1>3 DEF Owing

(* Taking a message out of its slot takes its Credit out of the sum.        *)
LEMMA WithoutCredits ==
  ASSUME TypeOK, NEW s \in Slots, NEW o \in Owners
  PROVE  CreditsIn(Without(s), o) = CreditsIn(inflight, o) - CreditOf(inflight[s], o)
<1>1. NoMessage \in Message /\ inflight \in [Slots -> Message] /\ inflight[s] \in Message
  BY DEF Message, TypeOK
<1>2. CreditsIn(Without(s), o)
        = CreditsIn(inflight, o) - CreditOf(inflight[s], o) + CreditOf(NoMessage, o)
  <2>1. \A r \in Slots : Without(s)[r] = IF r = s THEN NoMessage ELSE inflight[r]
    BY <1>1 DEF Without
  <2>2. QED BY <1>1, <2>1, CreditsUpdate
<1>3. CreditOf(NoMessage, o) = 0
  BY DEF CreditOf, NoMessage
<1>4. CreditsIn(inflight, o) \in Nat /\ CreditOf(inflight[s], o) \in Nat
  BY <1>1, CreditsInNat, CreditOfType
<1>5. QED BY <1>2, <1>3, <1>4

(* A Credit that is taken out of its slot owes its amount.                  *)
LEMMA CreditOwed ==
  ASSUME Accounting, NEW s \in Slots, inflight[s] \in CreditMessage
  PROVE  Owing(accounts, Without(s), inflight[s].source, inflight[s].amount)
<1> DEFINE m == inflight[s]
<1>1. /\ accounts \in [Chains -> [Owners -> Amount]] /\ inflight \in [Slots -> Message]
      /\ settled \in [Owners -> Int] /\ TypeOK
  BY DEF Accounting, TypeOK, Message
<1>2. ASSUME NEW o \in Owners
      PROVE  HeldIn(accounts, o) + CreditsIn(Without(s), o)
               = settled[o] - (IF o = m.source THEN m.amount ELSE 0)
  <2>1. CreditsIn(Without(s), o) = CreditsIn(inflight, o) - CreditOf(m, o)
    BY <1>1, WithoutCredits
  <2>2. CreditOf(m, o) = IF o = m.source THEN m.amount ELSE 0
    BY NoMessageType DEF CreditOf
  <2>3. HeldIn(accounts, o) + CreditsIn(inflight, o) = settled[o]
    BY DEF Accounting, Balanced
  <2>4. HeldIn(accounts, o) \in Nat /\ CreditsIn(inflight, o) \in Nat
    BY <1>1, HeldBounds, CreditsInNat
  <2>5. CreditOf(m, o) \in Int
    BY <1>1, CreditOfType
  <2> HIDE DEF m
  <2>6. QED BY <2>1, <2>2, <2>3, <2>4, <2>5
<1>3. QED BY <1>2 DEF Owing

(* Replacing a message by one that owes the same to everybody.              *)
LEMMA MailChange ==
  ASSUME Accounting, NEW s \in Slots, NEW m \in Message,
         \A o \in Owners : CreditOf(m, o) = CreditOf(inflight[s], o),
         \A r \in Slots : inflight'[r] = IF r = s THEN m ELSE inflight[r],
         UNCHANGED <<accounts, settled>>
  PROVE  Settled' /\ Balanced(accounts, inflight)'
<1>1. inflight \in [Slots -> Message]
  BY DEF Accounting, TypeOK, Message
<1>2. ASSUME NEW o \in Owners
      PROVE  CreditsIn(inflight', o) = CreditsIn(inflight, o)
  <2>1. CreditsIn(inflight', o)
          = CreditsIn(inflight, o) - CreditOf(inflight[s], o) + CreditOf(m, o)
    BY <1>1, CreditsUpdate
  <2>2. CreditsIn(inflight, o) \in Nat /\ CreditOf(m, o) \in Nat
    BY <1>1, CreditsInNat, CreditOfType
  <2>3. CreditOf(m, o) = CreditOf(inflight[s], o)
    OBVIOUS
  <2>4. QED BY <2>1, <2>2, <2>3
<1>3. QED BY <1>2 DEF Accounting, Settled, Balanced

-----------------------------------------------------------------------------
(* The invariant.                                                           *)

(* The creation chain starts with the whole supply.                         *)
LEMMA AccountingInit == Init => Accounting
<1> SUFFICES ASSUME Init PROVE Accounting
  OBVIOUS
<1>1. TypeOK
  BY TypeInit
<1>2. Settled
  BY DEF Settled, Supply, Init
<1>3. ASSUME NEW o \in Owners
      PROVE  HeldIn(accounts, o) + CreditsIn(inflight, o) = settled[o]
  <2> DEFINE none == [d \in Chains |-> [q \in Owners |-> 0]]
             credits == [s \in Slots |-> CreditOf(inflight[s], o)]
             empty == [d \in Chains |-> none[d][o]]
  <2>1. CreditsIn(inflight, o) = 0
    <3>1. \A s \in Slots : credits[s] = 0
      BY DEF Init, CreditOf, NoMessage
    <3>2. IsFiniteSet(Slots)
      BY FungibleAssumption
    <3>3. SumFunctionOnSet(credits, Slots) = 0
      BY <3>1, <3>2, SumZero
    <3>4. QED BY <3>3 DEF CreditsIn
  <2>2. HeldIn(none, o) = 0
    <3>1. \A d \in Chains : empty[d] = 0
      OBVIOUS
    <3>2. IsFiniteSet(Chains)
      BY FungibleAssumption
    <3>3. SumFunctionOnSet(empty, Chains) = 0
      BY <3>1, <3>2, SumZero
    <3>4. QED BY <3>3 DEF HeldIn
  <2>3. \A d \in Chains : none[d][o] = 0
    OBVIOUS
  <2>4. \A d \in Chains :
          accounts[d][o] = IF d = CreationChain THEN InitialAccounts[o] ELSE 0
    BY DEF Init
  <2>5. InitialAccounts[o] \in Int /\ CreationChain \in Chains
    BY FungibleAssumption DEF Amount
  <2> HIDE DEF none, credits, empty
  <2>6. HeldIn(accounts, o) = HeldIn(none, o) + InitialAccounts[o]
    <3>1. \A d \in Chains : none[d][o] \in Int
      BY <2>3
    <3>2. \A d \in Chains : accounts[d][o] =
            IF d = CreationChain THEN none[d][o] + InitialAccounts[o] ELSE none[d][o]
      BY <2>3, <2>4, <2>5
    <3>3. QED BY <3>1, <3>2, <2>5, HeldShift
  <2>7. settled[o] = InitialAccounts[o]
    BY DEF Init
  <2>8. QED BY <2>1, <2>2, <2>5, <2>6, <2>7
<1>4. QED BY <1>1, <1>2, <1>3 DEF Accounting, Balanced

(* Every operation and message handler keeps the accounting.                *)
LEMMA AccountingStep == Accounting /\ [Next]_vars => Accounting'
<1> SUFFICES ASSUME Accounting, [Next]_vars PROVE Accounting'
  OBVIOUS
<1>a. /\ accounts \in [Chains -> [Owners -> Amount]] /\ inflight \in [Slots -> Message]
      /\ settled \in [Owners -> Int] /\ Settled /\ TypeOK
      /\ OperationAmounts \subseteq Amount
  BY FungibleAssumption DEF Accounting, TypeOK, Message
<1>b. ASSUME NEW c \in Chains, NEW p \in Owners, NEW n \in OperationAmounts, NEW t \in Account,
             CanDebit(c, p, n), FinishTransfer(c, Debited(c, p, n), inflight, n, t, p)
      PROVE  Settled' /\ Balanced(accounts, inflight)'
  <2>1. n \in Amount
    BY <1>a
  <2>2. Owing(Debited(c, p, n), inflight, p, n)
    BY <1>b, <2>1, DebitOwes
  <2>3. Debited(c, p, n) \in [Chains -> [Owners -> Amount]]
    BY <1>a, <1>b, <2>1, DebitedType
  <2> DEFINE after == Debited(c, p, n)
  <2> HIDE DEF after
  <2>4. QED BY <1>a, <1>b, <2>1, <2>2, <2>3, FinishTransferAccounts
<1>c. ASSUME UNCHANGED <<accounts, inflight, settled>>
      PROVE  Settled' /\ Balanced(accounts, inflight)'
  BY <1>c DEF Accounting, Settled, Balanced
<1>1. ASSUME NEW c \in Chains, NEW signer \in Owners, NEW owner \in Owners,
             NEW spender \in Owners, NEW n \in OperationAmounts,
             Approve(c, signer, owner, spender, n)
      PROVE  Settled' /\ Balanced(accounts, inflight)'
  BY <1>1, <1>c DEF Approve
<1>2. ASSUME NEW c \in Chains, NEW signer \in Owners, NEW owner \in Owners,
             NEW n \in OperationAmounts, NEW t \in Account,
             Transfer(c, signer, owner, n, t)
      PROVE  Settled' /\ Balanced(accounts, inflight)'
  BY <1>2, <1>b DEF Transfer
<1>3. ASSUME NEW c \in Chains, NEW signer \in Owners, NEW owner \in Owners,
             NEW spender \in Owners, NEW n \in OperationAmounts, NEW t \in Account,
             TransferFrom(c, signer, owner, spender, n, t)
      PROVE  Settled' /\ Balanced(accounts, inflight)'
  <2>1. CanDebit(c, owner, n)
    <3>1. accounts[c][owner] \in Nat
      BY <1>a, FungibleAssumption DEF Amount
    <3>2. QED BY <1>3, <3>1 DEF TransferFrom, CanDebit
  <2>2. QED BY <1>3, <1>b, <2>1 DEF TransferFrom
<1>4. ASSUME NEW c \in Chains, NEW signer \in Owners, NEW a \in Account,
             NEW n \in OperationAmounts, NEW t \in Account,
             Claim(c, signer, a, n, t)
      PROVE  Settled' /\ Balanced(accounts, inflight)'
  <2>1. a.owner \in Owners /\ a.chain_id \in Chains
    BY DEF Account
  <2>2. CASE /\ CanDebit(c, a.owner, n)
             /\ FinishTransfer(c, Debited(c, a.owner, n), inflight, n, t, a.owner)
    BY <1>b, <2>1, <2>2
  <2>3. CASE /\ \E s \in FreeSlots(inflight) :
                  inflight' = [inflight EXCEPT ![s] =
                    [type |-> "Withdraw", to |-> a.chain_id, owner |-> a.owner,
                     signer |-> signer, amount |-> n, target_account |-> t]]
             /\ UNCHANGED <<accounts, settled>>
    <3> DEFINE m == [type |-> "Withdraw", to |-> a.chain_id, owner |-> a.owner,
                     signer |-> signer, amount |-> n, target_account |-> t]
    <3>1. m \in Message /\ \A o \in Owners : CreditOf(m, o) = 0
      BY <2>1, <1>a DEF Message, WithdrawMessage, CreditOf
    <3>2. PICK s \in FreeSlots(inflight) : inflight' = [inflight EXCEPT ![s] = m]
      BY <2>3
    <3>3. s \in Slots /\ inflight[s] = NoMessage
      BY DEF FreeSlots
    <3>4. \A o \in Owners : CreditOf(inflight[s], o) = 0
      BY <3>3 DEF CreditOf, NoMessage
    <3> HIDE DEF m
    <3>5. \A r \in Slots : inflight'[r] = IF r = s THEN m ELSE inflight[r]
      BY <1>a, <3>2, <3>3
    <3>6. QED BY <2>3, <3>1, <3>3, <3>4, <3>5, MailChange
  <2>4. QED BY <1>4, <2>2, <2>3 DEF Claim
<1>5. ASSUME NEW s \in Slots, ExecuteCredit(s)
      PROVE  Settled' /\ Balanced(accounts, inflight)'
  <2> DEFINE m == inflight[s]
             p == CreditReceiver(m)
  <2>1. m \in CreditMessage
    BY <1>5, <1>a DEF ExecuteCredit, Message, CreditMessage, WithdrawMessage, NoMessage
  <2>2. /\ m.to \in Chains /\ m.amount \in Amount /\ m.source \in Owners
        /\ p \in Owners
    BY <2>1 DEF CreditMessage, CreditReceiver
  <2>3. Owing(accounts, Without(s), m.source, m.amount)
    BY <2>1, CreditOwed
  <2>4. Without(s) \in [Slots -> Message]
    BY <1>a DEF Without, Message
  <2>5. Settle(m.source, p, m.amount)
    <3>1. CASE m.bouncing
      <4>1. p = m.source /\ settled' = settled
        BY <1>5, <3>1 DEF ExecuteCredit, CreditReceiver
      <4>2. m.amount \in Int
        BY <2>2 DEF Amount
      <4> DEFINE a == m.amount
                 same == [[settled EXCEPT ![p] = @ - a] EXCEPT ![p] = @ + a]
      <4> HIDE DEF a, m, p
      <4>3. settled = [o \in Owners |-> settled[o]]
        BY <1>a
      <4>4. \A o \in Owners : same[o] = settled[o]
        BY <1>a, <2>2, <4>2 DEF a
      <4>5. same = [o \in Owners |-> same[o]]
        BY <1>a
      <4> HIDE DEF same
      <4>6. same = settled
        BY <4>3, <4>4, <4>5
      <4>7. QED BY <4>1, <4>6 DEF Settle, same, a
    <3>2. CASE ~m.bouncing
      BY <1>5, <3>2 DEF ExecuteCredit, CreditReceiver
    <3>3. QED BY <3>1, <3>2
  <2>6. accounts' = Credited(accounts, m.to, p, m.amount) /\ inflight' = Without(s)
    BY <1>5 DEF ExecuteCredit
  <2> HIDE DEF m, p
  <2>7. QED BY <1>a, <2>2, <2>3, <2>4, <2>5, <2>6, CreditLands
<1>6. ASSUME NEW s \in Slots, ExecuteWithdraw(s)
      PROVE  Settled' /\ Balanced(accounts, inflight)'
  <2> DEFINE m == inflight[s]
             after == Debited(m.to, m.owner, m.amount)
  <2>1. m \in WithdrawMessage
    BY <1>6, <1>a DEF ExecuteWithdraw, Message, CreditMessage, WithdrawMessage, NoMessage
  <2>2. /\ m.to \in Chains /\ m.amount \in Amount /\ m.owner \in Owners
        /\ m.target_account \in Account
    BY <2>1 DEF WithdrawMessage
  <2>3. ASSUME NEW o \in Owners
        PROVE  CreditsIn(Without(s), o) = CreditsIn(inflight, o)
    <3>1. CreditsIn(Without(s), o) = CreditsIn(inflight, o) - CreditOf(m, o)
      BY <1>a, WithoutCredits
    <3>2. CreditOf(m, o) = 0
      BY <2>1, NoMessageType DEF CreditOf
    <3>3. CreditsIn(inflight, o) \in Nat
      BY <1>a, CreditsInNat
    <3>4. QED BY <3>1, <3>2, <3>3
  <2>4. CanDebit(m.to, m.owner, m.amount)
    BY <1>6 DEF ExecuteWithdraw
  <2>5. Owing(after, Without(s), m.owner, m.amount)
    BY <2>2, <2>3, <2>4, DebitOwes
  <2>6. after \in [Chains -> [Owners -> Amount]]
    BY <1>a, <2>2, <2>4, DebitedType
  <2>7. Without(s) \in [Slots -> Message]
    BY <1>a DEF Without, Message
  <2>8. FinishTransfer(m.to, after, Without(s), m.amount, m.target_account, m.owner)
    BY <1>6 DEF ExecuteWithdraw
  <2> HIDE DEF m, after
  <2>9. QED BY <1>a, <2>2, <2>5, <2>6, <2>7, <2>8, FinishTransferAccounts
<1>7. ASSUME NEW s \in Slots, RejectMessage(s)
      PROVE  Settled' /\ Balanced(accounts, inflight)'
  <2> DEFINE m == inflight[s]
  <2>1. CASE m.type = "Credit"
    <3> DEFINE bounce == [m EXCEPT !.from = m.to, !.to = m.from, !.bouncing = TRUE]
    <3>1. m \in CreditMessage
      BY <2>1, <1>a DEF Message, CreditMessage, WithdrawMessage, NoMessage
    <3>2. bounce \in Message /\ \A o \in Owners : CreditOf(bounce, o) = CreditOf(m, o)
      BY <3>1 DEF Message, CreditMessage, CreditOf
    <3>3. inflight' = [inflight EXCEPT ![s] = bounce]
      BY <1>7, <2>1 DEF RejectMessage
    <3> HIDE DEF bounce
    <3>4. /\ \A r \in Slots : inflight'[r] = IF r = s THEN bounce ELSE inflight[r]
          /\ UNCHANGED <<accounts, settled>>
      BY <1>a, <1>7, <3>3 DEF RejectMessage
    <3>5. QED BY <3>2, <3>4, MailChange
  <2>2. CASE m.type = "Withdraw"
    <3>1. \A o \in Owners : CreditOf(m, o) = 0 /\ CreditOf(NoMessage, o) = 0
      BY <2>2 DEF CreditOf, NoMessage
    <3>2. /\ \A r \in Slots : inflight'[r] = IF r = s THEN NoMessage ELSE inflight[r]
          /\ NoMessage \in Message
      BY <1>a, <1>7, <2>2 DEF RejectMessage, Without, Message
    <3>3. UNCHANGED <<accounts, settled>>
      BY <1>7 DEF RejectMessage
    <3>4. QED BY <3>1, <3>2, <3>3, MailChange
  <2>3. QED BY <1>7, <2>1, <2>2 DEF RejectMessage
<1>8. ASSUME UNCHANGED vars
      PROVE  Settled' /\ Balanced(accounts, inflight)'
  <2>1. UNCHANGED <<accounts, inflight, settled>>
    BY <1>8 DEF vars
  <2>2. QED BY <2>1 DEF Accounting, Settled, Balanced
<1>9. Settled' /\ Balanced(accounts, inflight)'
  <2>1. ASSUME NEW c \in Chains, NEW signer \in Owners, ExecuteOperation(c, signer)
        PROVE  Settled' /\ Balanced(accounts, inflight)'
    <3>1. \A chain \in Chains, owner \in Owners :
            [chain_id |-> chain, owner |-> owner] \in Account
      BY DEF Account
    <3>2. QED BY <2>1, <3>1, <1>1, <1>2, <1>3, <1>4 DEF ExecuteOperation
  <2>2. ASSUME NEW s \in Slots, HandleMessage(s)
        PROVE  Settled' /\ Balanced(accounts, inflight)'
    BY <2>2, <1>5, <1>6, <1>7 DEF HandleMessage
  <2>3. QED BY <2>1, <2>2, <1>8 DEF Next
<1>10. TypeOK'
  BY <1>a, TypeStep
<1>11. QED BY <1>9, <1>10 DEF Accounting

(* The accounting gives both properties that the runs check.                *)
LEMMA AccountingImplies == Accounting => OwnerAccounting /\ SupplyConserved
<1> SUFFICES ASSUME Accounting PROVE OwnerAccounting /\ SupplyConserved
  OBVIOUS
<1>1. TypeOK /\ Settled /\ \A o \in Owners : settled[o] \in Int
  BY DEF Accounting, TypeOK
<1>2. ASSUME NEW o \in Owners
      PROVE  OnAllChains(o) + InCredits(o, BOOLEAN) = settled[o]
  BY <1>1, AccountingTerms DEF Accounting, Balanced
<1> DEFINE total == [o \in Owners |-> OnAllChains(o) + InCredits(o, BOOLEAN)]
<1>3. \A o \in Owners : total[o] = settled[o]
  BY <1>2
<1>4. IsFiniteSet(Owners)
  BY FungibleAssumption
<1>5. SumFunctionOnSet(total, Owners) = SumFunctionOnSet(settled, Owners)
  BY <1>3, <1>4, SumSame
<1>6. QED BY <1>1, <1>2, <1>5 DEF OwnerAccounting, SupplyConserved, Settled

(* The accounting is an invariant.                                          *)
LEMMA AlwaysAccounting == Spec => []Accounting
<1>1. QED BY AccountingInit, AccountingStep, PTL DEF Spec

(* No sequence of transfers, claims, rejections and bounces loses an        *)
(* owner's tokens or gives one owner another's: what the code keeps on all  *)
(* chains and in Credit messages is what completed transfers leave.         *)
THEOREM OwnersKeepTheirTokens == Spec => []OwnerAccounting
<1>1. QED BY AlwaysAccounting, AccountingImplies, PTL

(* The contract never changes the supply, on however many chains it runs.   *)
THEOREM SupplyIsConserved == Spec => []SupplyConserved
<1>1. QED BY AlwaysAccounting, AccountingImplies, PTL

-----------------------------------------------------------------------------
(* Spending, and the ledger that the chains implement together.             *)

(* What a message in flight will refund to an owner, and withdraw from it.  *)
RefundOf(m, o) ==
  IF /\ m.type = "Credit"
     /\ m.source = o
     /\ m.bouncing \in {TRUE}
  THEN m.amount ELSE 0

WithdrawalOf(m, o) == IF m.type = "Withdraw" /\ m.owner = o THEN m.amount ELSE 0

Refunds(mail, o) == SumFunctionOnSet([s \in Slots |-> RefundOf(mail[s], o)], Slots)

Withdrawals(mail, o) == SumFunctionOnSet([s \in Slots |-> WithdrawalOf(mail[s], o)], Slots)

Allowed(allowed, o) ==
  SumFunctionOnSet([k \in Chains \X Owners |-> allowed[k[1]][<<o, k[2]>>]], Chains \X Owners)

(* One allowance on chain c differs by n.                                   *)
AllowanceChanged(allowed, after, c, p, q, n) ==
  /\ c \in Chains /\ p \in Owners /\ q \in Owners /\ n \in Int
  /\ \A d \in Chains, k \in Owners \X Owners :
       /\ allowed[d][k] \in Int
       /\ after[d][k] = IF d = c /\ k = <<p, q>> THEN allowed[d][k] + n ELSE allowed[d][k]

AllowanceGrows(c, p, q, n) ==
  /\ n \in Int
  /\ allowances' = [allowances EXCEPT ![c][<<p, q>>] = allowances[c][<<p, q>>] + n]

(* The property in these terms, with what each operation may change.        *)
Margin(balances, allowed, mail, signed, o) ==
  (HeldIn(balances, o) + Refunds(mail, o) + signed[o])
    - (InitialAccounts[o] + Allowed(allowed, o) + Withdrawals(mail, o))

Spending == Accounting /\ \A o \in Owners : Margin(accounts, allowances, inflight, authorised, o) >= 0

-----------------------------------------------------------------------------
(* The sums.                                                                *)

(* The types that the steps need.                                           *)
LEMMA SpendingTypes ==
  ASSUME Spending
  PROVE  /\ TypeOK /\ Amount \subseteq Nat
         /\ accounts \in [Chains -> [Owners -> Amount]]
         /\ allowances \in [Chains -> [Owners \X Owners -> Amount]]
         /\ inflight \in [Slots -> Message]
<1>1. TypeOK
  BY DEF Spending, Accounting
<1>2. Amount \subseteq Nat
  BY FungibleAssumption DEF Amount
<1>3. QED BY <1>1, <1>2 DEF TypeOK, Message

(* What a message counts for is an amount.                                  *)
LEMMA ValueTypes ==
  ASSUME NEW m \in Message, NEW o \in Owners
  PROVE  RefundOf(m, o) \in Nat /\ WithdrawalOf(m, o) \in Nat
<1>1. (RefundOf(m, o) = m.amount /\ m.type = "Credit") \/ RefundOf(m, o) = 0
  BY Zenon DEF RefundOf
<1>2. (WithdrawalOf(m, o) = m.amount /\ m.type = "Withdraw") \/ WithdrawalOf(m, o) = 0
  BY Zenon DEF WithdrawalOf
<1>3. m.type \in {"Credit", "Withdraw"} => m.amount \in Nat
  BY FungibleAssumption DEF Message, CreditMessage, WithdrawMessage, NoMessage, Amount
<1>4. QED BY <1>1, <1>2, <1>3

(* Replacing one message changes both sums by the difference.               *)
LEMMA ValuesUpdate ==
  ASSUME NEW mail \in [Slots -> Message], NEW after, NEW s \in Slots, NEW m \in Message,
         NEW o \in Owners, \A r \in Slots : after[r] = IF r = s THEN m ELSE mail[r]
  PROVE  /\ Refunds(mail, o) \in Int /\ Withdrawals(mail, o) \in Int
         /\ Refunds(after, o) = Refunds(mail, o) - RefundOf(mail[s], o) + RefundOf(m, o)
         /\ Withdrawals(after, o)
              = Withdrawals(mail, o) - WithdrawalOf(mail[s], o) + WithdrawalOf(m, o)
<1>1. IsFiniteSet(Slots)
  BY FungibleAssumption
<1>2. /\ Refunds(mail, o) \in Int
      /\ Refunds(after, o) = Refunds(mail, o) - RefundOf(mail[s], o) + RefundOf(m, o)
  <2> DEFINE f == [r \in Slots |-> RefundOf(mail[r], o)]
             g == [r \in Slots |-> RefundOf(after[r], o)]
  <2>1. \A r \in Slots : f[r] \in Int
    BY ValueTypes
  <2>2. g[s] = RefundOf(m, o) /\ f[s] = RefundOf(mail[s], o)
    OBVIOUS
  <2>3. \A r \in Slots \ {s} : g[r] = f[r]
    OBVIOUS
  <2>4. g[s] \in Int
    BY <2>2, ValueTypes
  <2> HIDE DEF f, g
  <2>5. SumFunctionOnSet(g, Slots) = SumFunctionOnSet(f, Slots) - f[s] + g[s]
    BY <1>1, <2>1, <2>3, <2>4, SumUpdate
  <2>6. SumFunctionOnSet(f, Slots) \in Int
    BY <1>1, <2>1, SumType
  <2>7. QED BY <2>2, <2>5, <2>6 DEF Refunds, f, g
<1>3. /\ Withdrawals(mail, o) \in Int
      /\ Withdrawals(after, o)
           = Withdrawals(mail, o) - WithdrawalOf(mail[s], o) + WithdrawalOf(m, o)
  <2> DEFINE f == [r \in Slots |-> WithdrawalOf(mail[r], o)]
             g == [r \in Slots |-> WithdrawalOf(after[r], o)]
  <2>1. \A r \in Slots : f[r] \in Int
    BY ValueTypes
  <2>2. g[s] = WithdrawalOf(m, o) /\ f[s] = WithdrawalOf(mail[s], o)
    OBVIOUS
  <2>3. \A r \in Slots \ {s} : g[r] = f[r]
    OBVIOUS
  <2>4. g[s] \in Int
    BY <2>2, ValueTypes
  <2> HIDE DEF f, g
  <2>5. SumFunctionOnSet(g, Slots) = SumFunctionOnSet(f, Slots) - f[s] + g[s]
    BY <1>1, <2>1, <2>3, <2>4, SumUpdate
  <2>6. SumFunctionOnSet(f, Slots) \in Int
    BY <1>1, <2>1, SumType
  <2>7. QED BY <2>2, <2>5, <2>6 DEF Withdrawals, f, g
<1>4. QED BY <1>2, <1>3

(* The sums over the messages are amounts.                                  *)
LEMMA ValuesNat ==
  ASSUME NEW mail \in [Slots -> Message], NEW o \in Owners
  PROVE  Refunds(mail, o) \in Nat /\ Withdrawals(mail, o) \in Nat
<1> DEFINE f == [s \in Slots |-> RefundOf(mail[s], o)]
           g == [s \in Slots |-> WithdrawalOf(mail[s], o)]
<1>1. IsFiniteSet(Slots)
  BY FungibleAssumption
<1>2. \A s \in Slots : f[s] \in Nat /\ g[s] \in Nat
  BY ValueTypes
<1>3. SumFunctionOnSet(f, Slots) \in Nat /\ SumFunctionOnSet(g, Slots) \in Nat
  BY <1>1, <1>2, SumNat
<1>4. QED BY <1>3 DEF Refunds, Withdrawals

(* An owner's allowances sum to an integer.                                 *)
LEMMA AllowedInt ==
  ASSUME NEW allowed \in [Chains -> [Owners \X Owners -> Amount]], NEW o \in Owners
  PROVE  Allowed(allowed, o) \in Int
<1> DEFINE f == [k \in Chains \X Owners |-> allowed[k[1]][<<o, k[2]>>]]
<1>1. IsFiniteSet(Chains) /\ IsFiniteSet(Owners)
  BY FungibleAssumption
<1>2. IsFiniteSet(Chains \X Owners)
  BY <1>1, FS_Product
<1>3. \A k \in Chains \X Owners : f[k] \in Int
  BY DEF Amount
<1> HIDE DEF f
<1>4. SumFunctionOnSet(f, Chains \X Owners) \in Int
  BY <1>2, <1>3, SumType
<1>5. QED BY <1>4 DEF Allowed, f

(* Changing one allowance changes its owner's sum by as much.               *)
LEMMA AllowedShift ==
  ASSUME NEW allowed, NEW after, NEW c, NEW p, NEW q, NEW n,
         AllowanceChanged(allowed, after, c, p, q, n)
  PROVE  \A o \in Owners :
           Allowed(after, o) = Allowed(allowed, o) + (IF o = p THEN n ELSE 0)
<1> SUFFICES ASSUME NEW o \in Owners
             PROVE  Allowed(after, o) = Allowed(allowed, o) + (IF o = p THEN n ELSE 0)
  OBVIOUS
<1> DEFINE f == [k \in Chains \X Owners |-> allowed[k[1]][<<o, k[2]>>]]
           g == [k \in Chains \X Owners |-> after[k[1]][<<o, k[2]>>]]
           e == IF o = p THEN n ELSE 0
<1>1. IsFiniteSet(Chains \X Owners)
  <2>1. IsFiniteSet(Chains) /\ IsFiniteSet(Owners)
    BY FungibleAssumption
  <2>2. QED BY <2>1, FS_Product
<1>2. e \in Int /\ <<c, q>> \in Chains \X Owners
  BY DEF AllowanceChanged
<1>3. ASSUME NEW k \in Chains \X Owners
      PROVE  f[k] \in Int /\ g[k] = IF k = <<c, q>> THEN f[k] + e ELSE f[k]
  <2>1. k[1] \in Chains /\ k[2] \in Owners /\ <<o, k[2]>> \in Owners \X Owners
        /\ k = <<k[1], k[2]>>
    OBVIOUS
  <2>2. f[k] = allowed[k[1]][<<o, k[2]>>] /\ g[k] = after[k[1]][<<o, k[2]>>]
    OBVIOUS
  <2>3. allowed[k[1]][<<o, k[2]>>] \in Int
    BY <2>1 DEF AllowanceChanged
  <2>4. CASE k[1] = c /\ o = p /\ k[2] = q
    <3>1. after[c][<<p, q>>] = allowed[c][<<p, q>>] + n
      BY DEF AllowanceChanged
    <3>2. QED BY <2>1, <2>2, <2>3, <2>4, <3>1
  <2>5. CASE ~(k[1] = c /\ o = p /\ k[2] = q)
    <3>1. after[k[1]][<<o, k[2]>>] = allowed[k[1]][<<o, k[2]>>]
      BY <2>1, <2>5 DEF AllowanceChanged
    <3>2. k = <<c, q>> => e = 0
      BY <2>5
    <3>3. QED BY <2>2, <2>3, <3>1, <3>2
  <2>6. QED BY <2>4, <2>5
<1>a. \A k \in Chains \X Owners : f[k] \in Int
  BY <1>3
<1>b. \A k \in Chains \X Owners : g[k] = IF k = <<c, q>> THEN f[k] + e ELSE f[k]
  BY <1>3
<1> DEFINE pairs == Chains \X Owners
           a == <<c, q>>
<1> HIDE DEF f, g, e, pairs, a
<1>4. SumFunctionOnSet(g, Chains \X Owners) = SumFunctionOnSet(f, Chains \X Owners) + e
  <2>1. IsFiniteSet(pairs) /\ a \in pairs
    BY <1>1, <1>2 DEF pairs, a
  <2>2. \A k \in pairs : f[k] \in Int
    BY <1>a DEF pairs
  <2>3. \A k \in pairs : g[k] = IF k = a THEN f[k] + e ELSE f[k]
    BY <1>b DEF pairs, a
  <2>4. SumFunctionOnSet(g, pairs) = SumFunctionOnSet(f, pairs) + e
    BY <1>2, <2>1, <2>2, <2>3, SumShift, Z3
  <2>5. QED BY <2>4 DEF pairs
<1>5. QED BY <1>4 DEF Allowed, f, g, e

(* A credit takes from nobody, also when it saturates.                      *)
LEMMA CreditedHeld ==
  ASSUME NEW balances \in [Chains -> [Owners -> Amount]], NEW c \in Chains,
         NEW p \in Owners, NEW n \in Amount, NEW o \in Owners
  PROVE  HeldIn(Credited(balances, c, p, n), o) >= HeldIn(balances, o)
<1> DEFINE after == Credited(balances, c, p, n)
           gain == SaturatingAdd(balances[c][p], n) - balances[c][p]
           e == IF o = p THEN gain ELSE 0
<1>1. gain \in Nat /\ balances[c][p] + gain = SaturatingAdd(balances[c][p], n)
  BY FungibleAssumption DEF SaturatingAdd, Amount
<1>2. \A d \in Chains : balances[d][o] \in Int
  BY DEF Amount
<1>3. ASSUME NEW d \in Chains
      PROVE  after[d][o] = IF d = c THEN balances[d][o] + e ELSE balances[d][o]
  <2> HIDE DEF gain
  <2>1. after = [balances EXCEPT ![c][p] = balances[c][p] + gain]
    BY <1>1 DEF Credited
  <2> HIDE DEF after
  <2>2. CASE d = c /\ o = p
    BY <2>1, <2>2
  <2>3. CASE d # c \/ o # p
    BY <1>2, <2>1, <2>3
  <2>4. QED BY <2>2, <2>3
<1>4. e \in Nat
  BY <1>1
<1>5. HeldIn(balances, o) \in Nat
  BY HeldBounds
<1> HIDE DEF after, gain, e
<1>6. HeldIn(after, o) = HeldIn(balances, o) + e
  BY <1>2, <1>3, <1>4, HeldShift
<1>7. HeldIn(after, o) >= HeldIn(balances, o)
  BY <1>4, <1>5, <1>6
<1>8. QED BY <1>7 DEF after

(* finish_transfer_to_account takes from nobody, and what it sends is       *)
(* neither a refund nor a withdrawal.                                       *)
LEMMA FinishTransferValues ==
  ASSUME NEW balances \in [Chains -> [Owners -> Amount]],
         NEW mail \in [Slots -> Message],
         NEW c \in Chains, NEW n \in Amount, NEW t \in Account, NEW source \in Owners,
         FinishTransfer(c, balances, mail, n, t, source), NEW o \in Owners
  PROVE  /\ HeldIn(accounts', o) >= HeldIn(balances, o)
         /\ Refunds(inflight', o) = Refunds(mail, o)
         /\ Withdrawals(inflight', o) = Withdrawals(mail, o)
<1>1. t.owner \in Owners /\ t.chain_id \in Chains
  BY DEF Account
<1>2. CASE accounts' = Credited(balances, c, t.owner, n) /\ inflight' = mail
  BY <1>1, <1>2, CreditedHeld
<1>3. CASE /\ accounts' = balances
           /\ \E s \in FreeSlots(mail) :
                inflight' = [mail EXCEPT ![s] =
                  [type |-> "Credit", from |-> c, to |-> t.chain_id,
                   target |-> t.owner, source |-> source,
                   amount |-> n, bouncing |-> FALSE]]
  <2> DEFINE m == [type |-> "Credit", from |-> c, to |-> t.chain_id,
                   target |-> t.owner, source |-> source,
                   amount |-> n, bouncing |-> FALSE]
  <2>1. m \in Message /\ m.type = "Credit" /\ m.bouncing = FALSE
    BY <1>1 DEF Message, CreditMessage
  <2>2. PICK s \in FreeSlots(mail) : inflight' = [mail EXCEPT ![s] = m]
    BY <1>3
  <2> HIDE DEF m
  <2>3. s \in Slots /\ mail[s] = NoMessage
    BY DEF FreeSlots
  <2>4. \A r \in Slots : inflight'[r] = IF r = s THEN m ELSE mail[r]
    BY <2>2, <2>3
  <2>5. RefundOf(m, o) = 0 /\ WithdrawalOf(m, o) = 0
    <3>1. m.bouncing \notin {TRUE} /\ m.type # "Withdraw"
      BY <2>1
    <3>2. QED BY <3>1, Zenon DEF RefundOf, WithdrawalOf
  <2>6. RefundOf(mail[s], o) = 0 /\ WithdrawalOf(mail[s], o) = 0
    BY <2>3 DEF RefundOf, WithdrawalOf, NoMessage
  <2>7. /\ Refunds(mail, o) \in Int /\ Withdrawals(mail, o) \in Int
        /\ Refunds(inflight', o) = Refunds(mail, o) - RefundOf(mail[s], o) + RefundOf(m, o)
        /\ Withdrawals(inflight', o)
             = Withdrawals(mail, o) - WithdrawalOf(mail[s], o) + WithdrawalOf(m, o)
    BY <2>1, <2>3, <2>4, ValuesUpdate
  <2>8. HeldIn(balances, o) \in Nat
    BY HeldBounds
  <2>9. QED BY <1>3, <2>5, <2>6, <2>7, <2>8
<1>4. QED BY <1>2, <1>3 DEF FinishTransfer

(* The margin is kept when what an owner gains covers what is newly owed.   *)
LEMMA MarginKept ==
  ASSUME Spending, TypeOK', NEW o \in Owners,
         NEW h \in Int, NEW r \in Int, NEW a \in Int, NEW l \in Int, NEW w \in Int,
         HeldIn(accounts', o) >= HeldIn(accounts, o) + h,
         Refunds(inflight', o) >= Refunds(inflight, o) + r,
         authorised'[o] = authorised[o] + a,
         Allowed(allowances', o) <= Allowed(allowances, o) + l,
         Withdrawals(inflight', o) <= Withdrawals(inflight, o) + w,
         h + r + a >= l + w
  PROVE  Margin(accounts', allowances', inflight', authorised', o) >= 0
<1>1. HeldIn(accounts, o) \in Nat /\ HeldIn(accounts', o) \in Nat
  BY HeldBounds DEF Spending, Accounting, TypeOK
<1>2. /\ Refunds(inflight, o) \in Int /\ Refunds(inflight', o) \in Int
      /\ Withdrawals(inflight, o) \in Int /\ Withdrawals(inflight', o) \in Int
  <2>1. inflight \in [Slots -> Message] /\ inflight' \in [Slots -> Message]
    BY DEF Spending, Accounting, TypeOK, Message
  <2>2. QED BY <2>1, ValuesNat
<1>3. Allowed(allowances, o) \in Int /\ Allowed(allowances', o) \in Int
  BY AllowedInt DEF Spending, Accounting, TypeOK
<1>4. authorised[o] \in Int /\ authorised'[o] \in Int /\ InitialAccounts[o] \in Int
  BY FungibleAssumption DEF Spending, Accounting, TypeOK, Amount
<1>5. Margin(accounts, allowances, inflight, authorised, o) >= 0
  BY DEF Spending
<1>6. QED BY <1>1, <1>2, <1>3, <1>4, <1>5 DEF Margin

-----------------------------------------------------------------------------
(* The invariant.                                                           *)

(* At the start nothing is signed, allowed or under way.                    *)
LEMMA SpendingInit == Init => Spending
<1> SUFFICES ASSUME Init PROVE Spending
  OBVIOUS
<1>1. Accounting
  BY AccountingInit
<1>2. ASSUME NEW o \in Owners
      PROVE  Margin(accounts, allowances, inflight, authorised, o) >= 0
  <2> DEFINE f == [s \in Slots |-> RefundOf(inflight[s], o)]
             g == [s \in Slots |-> WithdrawalOf(inflight[s], o)]
             h == [k \in Chains \X Owners |-> allowances[k[1]][<<o, k[2]>>]]
  <2>1. IsFiniteSet(Slots) /\ IsFiniteSet(Chains) /\ IsFiniteSet(Owners)
    BY FungibleAssumption
  <2>2. IsFiniteSet(Chains \X Owners)
    BY <2>1, FS_Product
  <2>3. \A s \in Slots : f[s] = 0 /\ g[s] = 0
    BY DEF Init, NoMessage, RefundOf, WithdrawalOf
  <2>4. \A k \in Chains \X Owners : h[k] = 0
    BY DEF Init
  <2>5. SumFunctionOnSet(f, Slots) = 0 /\ SumFunctionOnSet(g, Slots) = 0
    BY <2>1, <2>3, SumZero
  <2>6. SumFunctionOnSet(h, Chains \X Owners) = 0
    BY <2>2, <2>4, SumZero
  <2>7. HeldIn(accounts, o) + CreditsIn(inflight, o) = InitialAccounts[o]
    BY <1>1 DEF Init, Accounting, Balanced
  <2>8. HeldIn(accounts, o) \in Nat /\ InitialAccounts[o] \in Int
    BY <1>1, HeldBounds, FungibleAssumption DEF Accounting, TypeOK, Amount
  <2>9. CreditsIn(inflight, o) = 0
    <3> DEFINE credits == [s \in Slots |-> CreditOf(inflight[s], o)]
    <3>1. \A s \in Slots : credits[s] = 0
      BY DEF Init, NoMessage, CreditOf
    <3>2. SumFunctionOnSet(credits, Slots) = 0
      BY <2>1, <3>1, SumZero
    <3>3. QED BY <3>2 DEF CreditsIn
  <2>10. Refunds(inflight, o) = 0 /\ Withdrawals(inflight, o) = 0 /\ Allowed(allowances, o) = 0
    BY <2>5, <2>6 DEF Refunds, Withdrawals, Allowed
  <2>11. authorised[o] = 0
    BY DEF Init
  <2>12. QED BY <2>7, <2>8, <2>9, <2>10, <2>11 DEF Margin
<1>3. QED BY <1>1, <1>2 DEF Spending

(* A debit and what follows it, paid for by n that was signed or allowed.   *)
LEMMA DebitValues ==
  ASSUME Spending, NEW c \in Chains, NEW p \in Owners, NEW n \in Amount, NEW t \in Account,
         CanDebit(c, p, n), NEW mail \in [Slots -> Message],
         FinishTransfer(c, Debited(c, p, n), mail, n, t, p), NEW o \in Owners
  PROVE  /\ HeldIn(accounts', o) >= HeldIn(accounts, o) + (IF o = p THEN -n ELSE 0)
         /\ Refunds(inflight', o) = Refunds(mail, o)
         /\ Withdrawals(inflight', o) = Withdrawals(mail, o)
<1> DEFINE after == Debited(c, p, n)
<1>1. TypeOK /\ n \in Int
  BY DEF Spending, Accounting, Amount
<1>2. after \in [Chains -> [Owners -> Amount]]
  BY <1>1, DebitedType
<1>3. HeldIn(after, o) = HeldIn(accounts, o) - (IF o = p THEN n ELSE 0)
  BY <1>1, DebitedHeld
<1>4. HeldIn(accounts, o) \in Nat
  BY <1>1, HeldBounds DEF TypeOK
<1> HIDE DEF after
<1>5. /\ HeldIn(accounts', o) >= HeldIn(after, o)
      /\ Refunds(inflight', o) = Refunds(mail, o)
      /\ Withdrawals(inflight', o) = Withdrawals(mail, o)
  BY <1>2, FinishTransferValues DEF after
<1>6. QED BY <1>1, <1>3, <1>4, <1>5

(* The same for a step that changes the allowances.                         *)
LEMMA AllowanceStep ==
  ASSUME NEW c \in Chains, NEW p \in Owners, NEW q \in Owners, NEW n,
         Spending, AllowanceGrows(c, p, q, n)
  PROVE  \A o \in Owners :
           Allowed(allowances', o) = Allowed(allowances, o) + (IF o = p THEN n ELSE 0)
<1>1. PICK x, y, e : x = allowances /\ y = allowances' /\ e = n
  OBVIOUS
<1>2. x \in [Chains -> [Owners \X Owners -> Amount]] /\ Amount \subseteq Nat
  BY <1>1, SpendingTypes
<1>3. ASSUME NEW d \in Chains, NEW k \in Owners \X Owners
      PROVE  /\ x[d][k] \in Int
             /\ y[d][k] = IF d = c /\ k = <<p, q>> THEN x[d][k] + e ELSE x[d][k]
  <2>1. x[d][k] \in Int
    <3>1. x[d] \in [Owners \X Owners -> Amount]
      BY <1>2
    <3>2. x[d][k] \in Amount
      BY <3>1
    <3>3. QED BY <3>2 DEF Amount
  <2>2. e \in Int /\ y = [x EXCEPT ![c][<<p, q>>] = x[c][<<p, q>>] + e]
    BY <1>1 DEF AllowanceGrows
  <2>3. QED BY <1>2, <2>1, <2>2
<1>4. AllowanceChanged(x, y, c, p, q, e)
  BY <1>1, <1>3 DEF AllowanceChanged, AllowanceGrows
<1>5. \A o \in Owners : Allowed(y, o) = Allowed(x, o) + (IF o = p THEN e ELSE 0)
  BY <1>4, AllowedShift
<1>6. QED BY <1>1, <1>5

(* Signing for an amount adds it to the signer's record.                    *)
LEMMA AuthoriseAdds ==
  ASSUME TypeOK, NEW p \in Owners, NEW n \in Amount, Authorise(p, n), NEW o \in Owners
  PROVE  authorised'[o] = authorised[o] + (IF o = p THEN n ELSE 0)
<1>1. n \in Int /\ authorised[o] \in Int
  BY DEF TypeOK, Amount
<1>2. QED BY <1>1 DEF Authorise, TypeOK

(* Approve allows at most what is signed for.                               *)
LEMMA ApproveSpending ==
  ASSUME Spending, TypeOK', NEW c \in Chains, NEW p \in Owners, NEW q \in Owners,
         NEW n \in Amount, NEW signer \in Owners, Approve(c, signer, p, q, n), NEW o \in Owners
  PROVE  Margin(accounts', allowances', inflight', authorised', o) >= 0
<1>1. /\ TypeOK /\ n \in Nat /\ inflight \in [Slots -> Message]
      /\ accounts \in [Chains -> [Owners -> Amount]]
      /\ allowances \in [Chains -> [Owners \X Owners -> Amount]]
      /\ allowances[c][<<p, q>>] \in Nat
  BY SpendingTypes
<1>2. authorised'[o] = authorised[o] + (IF o = p THEN n ELSE 0)
  BY <1>1, AuthoriseAdds DEF Approve, CheckAccountPermission
<1>3. accounts' = accounts /\ inflight' = inflight
  BY DEF Approve
<1> DEFINE gain == SaturatingAdd(allowances[c][<<p, q>>], n) - allowances[c][<<p, q>>]
<1>4. gain \in Int /\ gain <= n
      /\ allowances[c][<<p, q>>] + gain = SaturatingAdd(allowances[c][<<p, q>>], n)
  BY <1>1, FungibleAssumption DEF SaturatingAdd
<1> HIDE DEF gain
<1>5. AllowanceGrows(c, p, q, gain)
  BY <1>4 DEF Approve, AllowanceGrows
<1>6. Allowed(allowances, o) \in Int
  BY <1>1, AllowedInt
<1>7. Allowed(allowances', o) = Allowed(allowances, o) + (IF o = p THEN gain ELSE 0)
  BY <1>4, <1>5, AllowanceStep
<1>8. HeldIn(accounts, o) \in Nat /\ Refunds(inflight, o) \in Nat
      /\ Withdrawals(inflight, o) \in Nat
  BY <1>1, HeldBounds, ValuesNat
<1> DEFINE a == IF o = p THEN n ELSE 0
           l == IF o = p THEN gain ELSE 0
<1>9. a \in Int /\ l \in Int /\ 0 + 0 + a >= l + 0
  BY <1>1, <1>4
<1>10. /\ HeldIn(accounts', o) >= HeldIn(accounts, o) + 0
       /\ Refunds(inflight', o) >= Refunds(inflight, o) + 0
       /\ Withdrawals(inflight', o) <= Withdrawals(inflight, o) + 0
       /\ Allowed(allowances', o) <= Allowed(allowances, o) + l
       /\ authorised'[o] = authorised[o] + a
  BY <1>2, <1>3, <1>6, <1>7, <1>8, <1>9
<1> HIDE DEF a, l
<1>11. QED BY <1>9, <1>10, MarginKept

(* Spending n of p's tokens, when p signs for them in the same block.       *)
LEMMA SignedSpending ==
  ASSUME Spending, TypeOK', NEW c \in Chains, NEW p \in Owners, NEW n \in Amount,
         NEW t \in Account, CanDebit(c, p, n),
         FinishTransfer(c, Debited(c, p, n), inflight, n, t, p),
         Authorise(p, n), UNCHANGED allowances, NEW o \in Owners
  PROVE  Margin(accounts', allowances', inflight', authorised', o) >= 0
<1>1. TypeOK /\ n \in Nat /\ inflight \in [Slots -> Message]
  BY SpendingTypes
<1> DEFINE a == IF o = p THEN n ELSE 0
           h == IF o = p THEN -n ELSE 0
<1>2. authorised'[o] = authorised[o] + a
  BY <1>1, AuthoriseAdds
<1>3. /\ HeldIn(accounts', o) >= HeldIn(accounts, o) + h
      /\ Refunds(inflight', o) = Refunds(inflight, o)
      /\ Withdrawals(inflight', o) = Withdrawals(inflight, o)
  BY <1>1, DebitValues
<1>4. Refunds(inflight, o) \in Nat /\ Withdrawals(inflight, o) \in Nat
      /\ Allowed(allowances, o) \in Int
  BY <1>1, ValuesNat, AllowedInt DEF TypeOK
<1>5. a \in Int /\ h \in Int /\ h + 0 + a >= 0 + 0
  BY <1>1
<1> HIDE DEF a, h
<1>6. /\ Refunds(inflight', o) >= Refunds(inflight, o) + 0
      /\ Withdrawals(inflight', o) <= Withdrawals(inflight, o) + 0
      /\ Allowed(allowances', o) <= Allowed(allowances, o) + 0
  BY <1>3, <1>4
<1>7. QED BY <1>2, <1>3, <1>5, <1>6, MarginKept

(* TransferFrom uses up an allowance for what it takes.                     *)
LEMMA TransferFromSpending ==
  ASSUME Spending, TypeOK', NEW c \in Chains, NEW signer \in Owners, NEW p \in Owners,
         NEW q \in Owners, NEW n \in Amount, NEW t \in Account,
         TransferFrom(c, signer, p, q, n, t), NEW o \in Owners
  PROVE  Margin(accounts', allowances', inflight', authorised', o) >= 0
<1>1. /\ TypeOK /\ n \in Nat /\ inflight \in [Slots -> Message]
      /\ allowances \in [Chains -> [Owners \X Owners -> Amount]]
  BY SpendingTypes
<1>2. CanDebit(c, p, n)
  <2>1. accounts[c][p] \in Nat
    BY <1>1, FungibleAssumption DEF TypeOK, Amount
  <2>2. QED BY <2>1 DEF TransferFrom, CanDebit
<1> DEFINE h == IF o = p THEN -n ELSE 0
<1>3. h \in Int /\ h + 0 + 0 >= h + 0
  BY <1>1
<1>4. /\ HeldIn(accounts', o) >= HeldIn(accounts, o) + h
      /\ Refunds(inflight', o) = Refunds(inflight, o)
      /\ Withdrawals(inflight', o) = Withdrawals(inflight, o)
  BY <1>1, <1>2, DebitValues DEF TransferFrom
<1>5. Allowed(allowances', o) = Allowed(allowances, o) + h
      /\ Allowed(allowances, o) \in Int
  <2>1. AllowanceGrows(c, p, q, -n)
    <3>1. allowances[c][<<p, q>>] - n = allowances[c][<<p, q>>] + (-n)
      BY <1>1 DEF Amount
    <3>2. -n \in Int
      BY <1>1
    <3>3. QED BY <3>1, <3>2 DEF TransferFrom, AllowanceGrows
  <2>2. Allowed(allowances', o) = Allowed(allowances, o) + (IF o = p THEN -n ELSE 0)
    <3>1. PICK k : k = -n
      OBVIOUS
    <3>2. AllowanceGrows(c, p, q, k)
      BY <2>1, <3>1
    <3>3. Allowed(allowances', o) = Allowed(allowances, o) + (IF o = p THEN k ELSE 0)
      BY <3>2, AllowanceStep
    <3>4. QED BY <3>1, <3>3
  <2>3. QED BY <1>1, <2>2, AllowedInt
<1>6. /\ Refunds(inflight, o) \in Nat /\ Withdrawals(inflight, o) \in Nat
      /\ authorised[o] \in Int /\ authorised' = authorised
  BY <1>1, ValuesNat DEF TypeOK, TransferFrom
<1> HIDE DEF h
<1>7. /\ Refunds(inflight', o) >= Refunds(inflight, o) + 0
      /\ Withdrawals(inflight', o) <= Withdrawals(inflight, o) + 0
      /\ Allowed(allowances', o) <= Allowed(allowances, o) + h
      /\ authorised'[o] = authorised[o] + 0
  BY <1>3, <1>4, <1>5, <1>6
<1>8. QED BY <1>3, <1>4, <1>7, MarginKept

(* A claim on another chain sends what the owner has signed for.            *)
LEMMA ClaimSpending ==
  ASSUME Spending, TypeOK', NEW c \in Chains, NEW signer \in Owners, NEW account \in Account,
         NEW n \in Amount, NEW t \in Account, Claim(c, signer, account, n, t),
         NEW o \in Owners
  PROVE  Margin(accounts', allowances', inflight', authorised', o) >= 0
<1>1. /\ TypeOK /\ n \in Nat /\ inflight \in [Slots -> Message]
      /\ account.owner \in Owners /\ account.chain_id \in Chains
  BY SpendingTypes DEF Account
<1>2. signer = account.owner /\ Authorise(account.owner, n) /\ UNCHANGED allowances
  BY DEF Claim, CheckAccountPermission
<1>3. CASE /\ CanDebit(c, account.owner, n)
           /\ FinishTransfer(c, Debited(c, account.owner, n), inflight, n, t, account.owner)
  BY <1>1, <1>2, <1>3, SignedSpending
<1>4. CASE /\ \E s \in FreeSlots(inflight) :
                inflight' = [inflight EXCEPT ![s] =
                  [type |-> "Withdraw", to |-> account.chain_id, owner |-> account.owner,
                   signer |-> signer, amount |-> n, target_account |-> t]]
           /\ UNCHANGED <<accounts, settled>>
  <2> DEFINE m == [type |-> "Withdraw", to |-> account.chain_id, owner |-> account.owner,
                   signer |-> signer, amount |-> n, target_account |-> t]
             a == IF o = account.owner THEN n ELSE 0
  <2>1. PICK s \in FreeSlots(inflight) : inflight' = [inflight EXCEPT ![s] = m]
    BY <1>4
  <2>2. s \in Slots /\ inflight[s] = NoMessage
    BY DEF FreeSlots
  <2>3. m \in Message
    BY <1>1 DEF Message, WithdrawMessage
  <2>4. RefundOf(m, o) = 0 /\ WithdrawalOf(m, o) = a
    BY DEF RefundOf, WithdrawalOf
  <2>5. RefundOf(inflight[s], o) = 0 /\ WithdrawalOf(inflight[s], o) = 0
    BY <2>2 DEF RefundOf, WithdrawalOf, NoMessage
  <2> HIDE DEF m
  <2>6. \A r \in Slots : inflight'[r] = IF r = s THEN m ELSE inflight[r]
    BY <1>1, <2>1, <2>2
  <2>7. /\ Refunds(inflight, o) \in Int /\ Withdrawals(inflight, o) \in Int
        /\ Refunds(inflight', o)
             = Refunds(inflight, o) - RefundOf(inflight[s], o) + RefundOf(m, o)
        /\ Withdrawals(inflight', o)
             = Withdrawals(inflight, o) - WithdrawalOf(inflight[s], o) + WithdrawalOf(m, o)
    BY <1>1, <2>2, <2>3, <2>6, ValuesUpdate
  <2>8. authorised'[o] = authorised[o] + a
    BY <1>1, <1>2, AuthoriseAdds
  <2>9. HeldIn(accounts, o) \in Nat /\ Allowed(allowances, o) \in Int
    BY SpendingTypes, HeldBounds, AllowedInt
  <2>10. a \in Int /\ 0 + 0 + a >= 0 + a
    BY <1>1
  <2> HIDE DEF a
  <2>11. /\ HeldIn(accounts', o) >= HeldIn(accounts, o) + 0
         /\ Refunds(inflight', o) >= Refunds(inflight, o) + 0
         /\ Allowed(allowances', o) <= Allowed(allowances, o) + 0
         /\ Withdrawals(inflight', o) <= Withdrawals(inflight, o) + a
    BY <1>2, <1>4, <2>4, <2>5, <2>7, <2>9, <2>10
  <2>12. QED BY <2>8, <2>10, <2>11, MarginKept
<1>5. QED BY <1>3, <1>4 DEF Claim

(* A bounced Credit is refunded in full, because no credit saturates.       *)
LEMMA ExecuteCreditSpending ==
  ASSUME Spending, TypeOK', NEW s \in Slots, ExecuteCredit(s), NEW o \in Owners
  PROVE  Margin(accounts', allowances', inflight', authorised', o) >= 0
<1> DEFINE m == inflight[s]
           p == CreditReceiver(m)
           n == m.amount
           h == IF o = p THEN n ELSE 0
           r == -RefundOf(m, o)
<1>1. /\ TypeOK /\ inflight \in [Slots -> Message] /\ Amount \subseteq Nat
      /\ accounts \in [Chains -> [Owners -> Amount]]
      /\ settled \in [Owners -> Int] /\ Settled /\ Accounting
  BY SpendingTypes DEF Spending, Accounting, TypeOK
<1>2. m \in CreditMessage
  BY <1>1 DEF ExecuteCredit, Message, CreditMessage, WithdrawMessage, NoMessage
<1>3. /\ m.to \in Chains /\ n \in Amount /\ m.source \in Owners /\ p \in Owners
      /\ m.bouncing \in BOOLEAN /\ m.type = "Credit"
  BY <1>2 DEF CreditMessage, CreditReceiver
<1>4. /\ accounts' = Credited(accounts, m.to, p, n) /\ inflight' = Without(s)
      /\ UNCHANGED <<allowances, authorised>>
  BY DEF ExecuteCredit
<1>5. Owing(accounts, Without(s), m.source, n)
  BY <1>1, <1>2, CreditOwed
<1>6. Without(s) \in [Slots -> Message]
  BY <1>1 DEF Without, Message
<1>7. RefundOf(m, o) \in Nat /\ WithdrawalOf(m, o) = 0
  <2>1. m.type # "Withdraw" /\ m \in Message
    BY <1>3, <1>2 DEF Message
  <2>2. QED BY <2>1, ValueTypes DEF WithdrawalOf
<1>8. RefundOf(m, o) <= h
  <2>1. CASE m.bouncing = TRUE /\ m.source = o
    <3>1. p = m.source
      BY <2>1 DEF CreditReceiver
    <3>2. h = n
      BY <2>1, <3>1
    <3>3. RefundOf(m, o) = n
      BY <2>1, <1>3 DEF RefundOf
    <3>4. QED BY <3>2, <3>3, <1>1, <1>3
  <2>2. CASE m.bouncing = FALSE \/ m.source # o
    <3>1. RefundOf(m, o) = 0
      BY <2>2 DEF RefundOf
    <3>2. h \in Nat
      BY <1>1, <1>3
    <3>3. QED BY <3>1, <3>2
  <2>3. QED BY <1>3, <2>1, <2>2
<1>9. SaturatingAdd(accounts[m.to][p], n) = accounts[m.to][p] + n
  BY <1>1, <1>3, <1>5, <1>6, NoSaturation
<1>10. h \in Nat /\ r \in Int /\ h + r + 0 >= 0 + 0
  <2>1. n \in Nat
    BY <1>3 DEF Amount
  <2>2. h \in Nat
    BY <2>1
  <2> HIDE DEF h, m
  <2>3. QED BY <1>7, <1>8, <2>2
<1>11. HeldIn(accounts', o) = HeldIn(accounts, o) + h
  <2>1. m.to \in Chains /\ p \in Owners /\ n \in Amount
    BY <1>3
  <2> HIDE DEF m, p, n
  <2>2. HeldIn(Credited(accounts, m.to, p, n), o)
          = HeldIn(accounts, o) + (IF o = p THEN n ELSE 0)
    BY <1>1, <1>9, <2>1, CreditedHeldExactly
  <2>3. QED BY <1>4, <2>2
<1>12. /\ Refunds(inflight, o) \in Int /\ Withdrawals(inflight, o) \in Int
       /\ Refunds(inflight', o) = Refunds(inflight, o) - RefundOf(m, o)
       /\ Withdrawals(inflight', o) = Withdrawals(inflight, o) - 0
  <2>1. NoMessage \in Message /\ \A q \in Slots :
          inflight'[q] = IF q = s THEN NoMessage ELSE inflight[q]
    BY <1>1, <1>4 DEF Without, Message
  <2>2. RefundOf(NoMessage, o) = 0 /\ WithdrawalOf(NoMessage, o) = 0
    BY DEF NoMessage, RefundOf, WithdrawalOf
  <2>3. /\ Refunds(inflight, o) \in Int /\ Withdrawals(inflight, o) \in Int
        /\ Refunds(inflight', o)
             = Refunds(inflight, o) - RefundOf(inflight[s], o) + RefundOf(NoMessage, o)
        /\ Withdrawals(inflight', o)
             = Withdrawals(inflight, o) - WithdrawalOf(inflight[s], o)
                 + WithdrawalOf(NoMessage, o)
    BY <1>1, <2>1, ValuesUpdate
  <2> HIDE DEF m
  <2>4. QED BY <1>7, <2>2, <2>3 DEF m
<1>13. /\ HeldIn(accounts, o) \in Nat /\ Allowed(allowances, o) \in Int /\ authorised[o] \in Int
  <2>1. HeldIn(accounts, o) \in Nat
    BY <1>1, HeldBounds
  <2>2. Allowed(allowances, o) \in Int
    BY SpendingTypes, AllowedInt
  <2>3. QED BY <1>1, <2>1, <2>2 DEF TypeOK
<1> HIDE DEF h
<1>14. /\ HeldIn(accounts', o) >= HeldIn(accounts, o) + h
       /\ Refunds(inflight', o) >= Refunds(inflight, o) + r
       /\ Allowed(allowances', o) <= Allowed(allowances, o) + 0
       /\ Withdrawals(inflight', o) <= Withdrawals(inflight, o) + 0
       /\ authorised'[o] = authorised[o] + 0
  BY <1>4, <1>7, <1>10, <1>11, <1>12, <1>13
<1> HIDE DEF r, m, n, p
<1>15. QED BY <1>10, <1>14, MarginKept

(* A Withdraw that is executed spends what it was sent for.                 *)
LEMMA ExecuteWithdrawSpending ==
  ASSUME Spending, TypeOK', NEW s \in Slots, ExecuteWithdraw(s), NEW o \in Owners
  PROVE  Margin(accounts', allowances', inflight', authorised', o) >= 0
<1> DEFINE m == inflight[s]
           h == IF o = m.owner THEN -m.amount ELSE 0
<1>1. TypeOK /\ inflight \in [Slots -> Message] /\ NoMessage \in Message
  BY SpendingTypes DEF Message
<1>2. m \in WithdrawMessage
  BY <1>1 DEF ExecuteWithdraw, Message, CreditMessage, WithdrawMessage, NoMessage
<1>3. /\ m.to \in Chains /\ m.amount \in Amount /\ m.owner \in Owners
      /\ m.target_account \in Account /\ m.type = "Withdraw"
  BY <1>2 DEF WithdrawMessage
<1>4. m.amount \in Nat
  BY <1>3 DEF Amount
<1>5. CanDebit(m.to, m.owner, m.amount)
      /\ FinishTransfer(m.to, Debited(m.to, m.owner, m.amount), Without(s),
                        m.amount, m.target_account, m.owner)
      /\ UNCHANGED <<allowances, authorised>>
  BY DEF ExecuteWithdraw
<1>6. RefundOf(m, o) = 0 /\ WithdrawalOf(m, o) = -h
  <2>1. m.type # "Credit"
    BY <1>3
  <2>2. QED BY <2>1, <1>3, <1>4 DEF RefundOf, WithdrawalOf
<1>7. RefundOf(NoMessage, o) = 0 /\ WithdrawalOf(NoMessage, o) = 0
  BY DEF NoMessage, RefundOf, WithdrawalOf
<1>8. h \in Int
  BY <1>4
<1>9. Without(s) \in [Slots -> Message]
  BY <1>1 DEF Without
<1>10. /\ HeldIn(accounts', o) >= HeldIn(accounts, o) + h
       /\ Refunds(inflight', o) = Refunds(Without(s), o)
       /\ Withdrawals(inflight', o) = Withdrawals(Without(s), o)
  <2> DEFINE c == m.to
             p == m.owner
             n == m.amount
             t == m.target_account
  <2>1. /\ CanDebit(c, p, n)
        /\ FinishTransfer(c, Debited(c, p, n), Without(s), n, t, p)
        /\ c \in Chains /\ p \in Owners /\ n \in Amount /\ t \in Account
    BY <1>3, <1>5
  <2> HIDE DEF c, p, n, t
  <2>2. /\ HeldIn(accounts', o) >= HeldIn(accounts, o) + (IF o = p THEN -n ELSE 0)
        /\ Refunds(inflight', o) = Refunds(Without(s), o)
        /\ Withdrawals(inflight', o) = Withdrawals(Without(s), o)
    BY <1>9, <2>1, DebitValues
  <2>3. QED BY <2>2 DEF p, n
<1>11. /\ Refunds(inflight, o) \in Int /\ Withdrawals(inflight, o) \in Int
       /\ Refunds(Without(s), o) = Refunds(inflight, o) - RefundOf(m, o) + RefundOf(NoMessage, o)
       /\ Withdrawals(Without(s), o)
            = Withdrawals(inflight, o) - WithdrawalOf(m, o) + WithdrawalOf(NoMessage, o)
  <2>1. \A r \in Slots : Without(s)[r] = IF r = s THEN NoMessage ELSE inflight[r]
    BY <1>1 DEF Without
  <2>2. QED BY <1>1, <2>1, ValuesUpdate
<1>12. Allowed(allowances, o) \in Int /\ authorised[o] \in Int
  <2>1. Allowed(allowances, o) \in Int
    BY SpendingTypes, AllowedInt
  <2>2. QED BY <1>1, <2>1 DEF TypeOK
<1> HIDE DEF h, m
<1>13. /\ Refunds(inflight', o) >= Refunds(inflight, o) + 0
       /\ Withdrawals(inflight', o) <= Withdrawals(inflight, o) + h
       /\ Allowed(allowances', o) <= Allowed(allowances, o) + 0
       /\ authorised'[o] = authorised[o] + 0
       /\ h + 0 + 0 >= 0 + h
  BY <1>5, <1>6, <1>7, <1>8, <1>10, <1>11, <1>12
<1>14. QED BY <1>8, <1>10, <1>13, MarginKept

(* A rejection refunds a Credit and drops a Withdraw.                       *)
LEMMA RejectSpending ==
  ASSUME Spending, TypeOK', NEW s \in Slots, RejectMessage(s), NEW o \in Owners
  PROVE  Margin(accounts', allowances', inflight', authorised', o) >= 0
<1> DEFINE m == inflight[s]
<1>1. TypeOK /\ inflight \in [Slots -> Message] /\ m \in Message
  BY SpendingTypes
<1>2. PICK after \in Message :
        /\ inflight' = [inflight EXCEPT ![s] = after]
        /\ RefundOf(after, o) >= RefundOf(m, o)
        /\ WithdrawalOf(after, o) = 0
  <2>1. CASE m.type = "Credit"
    <3> DEFINE bounce == [m EXCEPT !.from = m.to, !.to = m.from, !.bouncing = TRUE]
    <3>1. m \in CreditMessage
      BY <1>1, <2>1 DEF Message, CreditMessage, WithdrawMessage, NoMessage
    <3>2. /\ bounce \in CreditMessage /\ bounce.type = "Credit" /\ bounce.source = m.source
          /\ bounce.amount = m.amount /\ bounce.bouncing = TRUE
      BY <3>1 DEF CreditMessage
    <3>3. bounce \in Message /\ m.amount \in Nat
      BY <3>1, <3>2, SpendingTypes DEF Message, CreditMessage
    <3>4. inflight' = [inflight EXCEPT ![s] = bounce]
      BY <2>1 DEF RejectMessage
    <3> HIDE DEF bounce
    <3>5. RefundOf(bounce, o) = IF m.source = o THEN m.amount ELSE 0
      BY <3>2 DEF RefundOf
    <3>6. RefundOf(m, o) = 0 \/ (RefundOf(m, o) = m.amount /\ m.source = o)
      BY Zenon DEF RefundOf
    <3>7. RefundOf(bounce, o) >= RefundOf(m, o)
      BY <3>3, <3>5, <3>6
    <3>8. WithdrawalOf(bounce, o) = 0
      BY <3>2 DEF WithdrawalOf
    <3>9. QED BY <3>3, <3>4, <3>7, <3>8
  <2>2. CASE m.type = "Withdraw"
    <3>1. inflight' = [inflight EXCEPT ![s] = NoMessage]
      BY <2>2 DEF RejectMessage, Without
    <3>2. RefundOf(m, o) = 0
      BY <2>2 DEF RefundOf
    <3>3. RefundOf(NoMessage, o) = 0 /\ WithdrawalOf(NoMessage, o) = 0 /\ NoMessage \in Message
      BY DEF NoMessage, RefundOf, WithdrawalOf, Message
    <3>4. RefundOf(NoMessage, o) >= RefundOf(m, o)
      BY <3>2, <3>3
    <3>5. QED BY <3>1, <3>3, <3>4
  <2>3. QED BY <2>1, <2>2 DEF RejectMessage
<1>3. /\ Refunds(inflight, o) \in Int /\ Withdrawals(inflight, o) \in Int
      /\ Refunds(inflight', o) = Refunds(inflight, o) - RefundOf(m, o) + RefundOf(after, o)
      /\ Withdrawals(inflight', o)
           = Withdrawals(inflight, o) - WithdrawalOf(m, o) + WithdrawalOf(after, o)
  <2>1. \A r \in Slots : inflight'[r] = IF r = s THEN after ELSE inflight[r]
    BY <1>1, <1>2
  <2>2. QED BY <1>1, <2>1, ValuesUpdate
<1>4. /\ RefundOf(m, o) \in Nat /\ WithdrawalOf(m, o) \in Nat
      /\ RefundOf(after, o) \in Nat
  BY <1>1, ValueTypes
<1>5. UNCHANGED <<accounts, allowances, authorised>>
  BY DEF RejectMessage
<1>6. HeldIn(accounts, o) \in Nat /\ Allowed(allowances, o) \in Int /\ authorised[o] \in Int
  <2>1. HeldIn(accounts, o) \in Nat
    BY SpendingTypes, HeldBounds
  <2>2. Allowed(allowances, o) \in Int
    BY SpendingTypes, AllowedInt
  <2>3. QED BY <1>1, <2>1, <2>2 DEF TypeOK
<1> HIDE DEF m
<1>7. /\ HeldIn(accounts', o) >= HeldIn(accounts, o) + 0
      /\ Refunds(inflight', o) >= Refunds(inflight, o) + 0
      /\ Allowed(allowances', o) <= Allowed(allowances, o) + 0
      /\ Withdrawals(inflight', o) <= Withdrawals(inflight, o) + 0
      /\ authorised'[o] = authorised[o] + 0
      /\ 0 + 0 + 0 >= 0 + 0
  BY <1>2, <1>3, <1>4, <1>5, <1>6
<1>8. QED BY <1>7, MarginKept

(* Every operation and message handler keeps every owner's margin.          *)
LEMMA SpendingStep == Spending /\ [Next]_vars => Spending'
<1> SUFFICES ASSUME Spending, [Next]_vars PROVE Spending'
  OBVIOUS
<1>1. Accounting' /\ TypeOK'
  BY AccountingStep DEF Spending, Accounting
<1>2. OperationAmounts \subseteq Amount
  BY FungibleAssumption
<1>3. ASSUME NEW o \in Owners
      PROVE  Margin(accounts', allowances', inflight', authorised', o) >= 0
  <2>1. ASSUME NEW c \in Chains, NEW signer \in Owners, NEW p \in Owners,
               NEW q \in Owners, NEW n \in OperationAmounts, Approve(c, signer, p, q, n)
        PROVE  Margin(accounts', allowances', inflight', authorised', o) >= 0
    BY <1>1, <1>2, <2>1, ApproveSpending
  <2>2. ASSUME NEW c \in Chains, NEW signer \in Owners, NEW p \in Owners,
               NEW n \in OperationAmounts, NEW t \in Account, Transfer(c, signer, p, n, t)
        PROVE  Margin(accounts', allowances', inflight', authorised', o) >= 0
    BY <1>1, <1>2, <2>2, SignedSpending DEF Transfer, CheckAccountPermission
  <2>3. ASSUME NEW c \in Chains, NEW signer \in Owners, NEW p \in Owners,
               NEW q \in Owners, NEW n \in OperationAmounts, NEW t \in Account,
               TransferFrom(c, signer, p, q, n, t)
        PROVE  Margin(accounts', allowances', inflight', authorised', o) >= 0
    BY <1>1, <1>2, <2>3, TransferFromSpending
  <2>4. ASSUME NEW c \in Chains, NEW signer \in Owners, NEW account \in Account,
               NEW n \in OperationAmounts, NEW t \in Account,
               Claim(c, signer, account, n, t)
        PROVE  Margin(accounts', allowances', inflight', authorised', o) >= 0
    BY <1>1, <1>2, <2>4, ClaimSpending
  <2>5. ASSUME NEW c \in Chains, NEW signer \in Owners, ExecuteOperation(c, signer)
        PROVE  Margin(accounts', allowances', inflight', authorised', o) >= 0
    <3>1. \A chain \in Chains, owner \in Owners :
            [chain_id |-> chain, owner |-> owner] \in Account
      BY DEF Account
    <3>2. QED BY <2>1, <2>2, <2>3, <2>4, <2>5, <3>1 DEF ExecuteOperation
  <2>6. ASSUME NEW s \in Slots, HandleMessage(s)
        PROVE  Margin(accounts', allowances', inflight', authorised', o) >= 0
    BY <1>1, <2>6, ExecuteCreditSpending, ExecuteWithdrawSpending, RejectSpending
       DEF HandleMessage
  <2>7. CASE UNCHANGED vars
    BY <2>7 DEF vars, Spending
  <2>8. QED BY <2>5, <2>6, <2>7 DEF Next
<1>4. QED BY <1>1, <1>3 DEF Spending

(* The property is the margin, written with the operators of the model.     *)
LEMMA SpendingImplies == Spending => SpendingAuthorised
<1> SUFFICES ASSUME Spending, NEW o \in Owners
             PROVE  OnAllChains(o) + InCredits(o, {TRUE}) + authorised[o]
                      >= InitialAccounts[o] + OutstandingAllowances(o) + PendingWithdrawals(o)
  BY DEF SpendingAuthorised
<1>1. /\ OnAllChains(o) = HeldIn(accounts, o)
      /\ InCredits(o, {TRUE}) = Refunds(inflight, o)
      /\ OutstandingAllowances(o) = Allowed(allowances, o)
      /\ PendingWithdrawals(o) = Withdrawals(inflight, o)
  BY DEF OnAllChains, HeldIn, InCredits, Refunds, RefundOf, OutstandingAllowances, Allowed,
         PendingWithdrawals, Withdrawals, WithdrawalOf
<1>2. HeldIn(accounts, o) \in Nat
  BY SpendingTypes, HeldBounds
<1>3. Refunds(inflight, o) \in Nat /\ Withdrawals(inflight, o) \in Nat
  BY SpendingTypes, ValuesNat
<1>4. Allowed(allowances, o) \in Int
  BY SpendingTypes, AllowedInt
<1>5. authorised[o] \in Int /\ InitialAccounts[o] \in Int
  BY FungibleAssumption, SpendingTypes DEF TypeOK, Amount
<1>6. Margin(accounts, allowances, inflight, authorised, o) >= 0
  BY DEF Spending
<1>7. QED BY <1>1, <1>2, <1>3, <1>4, <1>5, <1>6 DEF Margin

(* No sequence of approvals, transfers, claims, rejections and bounces      *)
(* spends more of an owner's tokens than the owner signed for, on however   *)
(* many chains and with however many messages in flight.                    *)
THEOREM SpendingIsAuthorised == Spec => []SpendingAuthorised
<1>1. QED BY SpendingInit, SpendingStep, SpendingImplies, PTL DEF Spec

-----------------------------------------------------------------------------
(* The refinement of the ledger.  These are the values of its variables.    *)

Available == [o \in Owners |-> OnAllChains(o) + InCredits(o, {TRUE})]

PendingOf(m) ==
  IF m.type = "Credit" /\ ~m.bouncing
  THEN [source |-> m.source, target |-> m.target, amount |-> m.amount]
  ELSE [source |-> "none"]

Pending ==
  [s \in Slots |->
    IF inflight[s].type = "Credit" /\ ~inflight[s].bouncing
    THEN [source |-> inflight[s].source, target |-> inflight[s].target,
          amount |-> inflight[s].amount]
    ELSE [source |-> "none"]]

(* The steps of the ledger in the terms of those values: a payment on one   *)
(* chain,                                                                   *)
LEMMA LedgerPay ==
  ASSUME NEW from \in Owners, NEW to \in Owners, NEW n \in 0..Available[from],
         Available' = [[Available EXCEPT ![from] = @ - n] EXCEPT ![to] = @ + n],
         Pending' = Pending
  PROVE  Ledger!Next
<1>1. n <= Available[from]
  OBVIOUS
<1>2. Ledger!Pay(from, to, n)
  BY <1>1, Zenon DEF Ledger!Pay, Ledger!Moved, Available, Pending
<1>3. QED BY <1>2, Zenon DEF Ledger!Next, Available

(* a transfer that leaves its chain,                                        *)
LEMMA LedgerBegin ==
  ASSUME NEW from \in Owners, NEW to \in Owners, NEW n \in 0..Available[from],
         NEW s \in Slots, Pending[s] = Ledger!NoTransfer,
         Available' = [Available EXCEPT ![from] = @ - n],
         Pending' = [Pending EXCEPT ![s] = [source |-> from, target |-> to, amount |-> n]]
  PROVE  Ledger!Next
<1>1. n <= Available[from]
  OBVIOUS
<1>2. Ledger!Begin(s, from, to, n)
  BY <1>1, Zenon DEF Ledger!Begin, Ledger!NoTransfer, Available, Pending
<1>3. QED BY <1>2, Zenon DEF Ledger!Next, Available

(* one that arrives,                                                        *)
LEMMA LedgerComplete ==
  ASSUME NEW s \in Slots, Pending[s] # Ledger!NoTransfer,
         Available' = [Available EXCEPT ![Pending[s].target] = @ + Pending[s].amount],
         Pending' = [Pending EXCEPT ![s] = Ledger!NoTransfer]
  PROVE  Ledger!Next
<1>1. Ledger!Complete(s)
  BY Zenon DEF Ledger!Complete, Ledger!NoTransfer, Available, Pending
<1>2. QED BY <1>1, Zenon DEF Ledger!Next

(* and one that is rejected.                                                *)
LEMMA LedgerRefund ==
  ASSUME NEW s \in Slots, Pending[s] # Ledger!NoTransfer,
         Available' = [Available EXCEPT ![Pending[s].source] = @ + Pending[s].amount],
         Pending' = [Pending EXCEPT ![s] = Ledger!NoTransfer]
  PROVE  Ledger!Next
<1>1. Ledger!Refund(s)
  BY Zenon DEF Ledger!Refund, Ledger!NoTransfer, Available, Pending
<1>2. QED BY <1>1, Zenon DEF Ledger!Next

(* What the ledger has for an owner and for a slot.                         *)
LEMMA LedgerTerms ==
  /\ \A o \in Owners : Available[o] = HeldIn(accounts, o) + Refunds(inflight, o)
  /\ \A o \in Owners : Available'[o] = HeldIn(accounts', o) + Refunds(inflight', o)
  /\ \A s \in Slots : Pending[s] = PendingOf(inflight[s])
  /\ \A s \in Slots : Pending'[s] = PendingOf(inflight'[s])
BY DEF Available, Pending, PendingOf, OnAllChains, HeldIn, InCredits, Refunds, RefundOf

(* Functions of the ledger are equal when they are so at every argument.    *)
LEMMA LedgerFunctions ==
  /\ Available = [o \in Owners |-> Available[o]]
  /\ Available' = [o \in Owners |-> Available'[o]]
  /\ Pending = [s \in Slots |-> Pending[s]]
  /\ Pending' = [s \in Slots |-> Pending'[s]]
BY DEF Available, Pending

(* What is available is a natural number and covers each balance.           *)
LEMMA AvailableBounds ==
  ASSUME TypeOK
  PROVE  \A o \in Owners : /\ Available[o] \in Nat
                           /\ HeldIn(accounts, o) \in Nat /\ Refunds(inflight, o) \in Nat
                           /\ \A c \in Chains : accounts[c][o] <= Available[o]
<1>1. ASSUME NEW o \in Owners
      PROVE  /\ Available[o] \in Nat
             /\ HeldIn(accounts, o) \in Nat /\ Refunds(inflight, o) \in Nat
             /\ \A c \in Chains : accounts[c][o] <= Available[o]
  <2>1. HeldIn(accounts, o) \in Nat /\ \A c \in Chains : accounts[c][o] <= HeldIn(accounts, o)
    BY HeldBounds DEF TypeOK
  <2>2. Refunds(inflight, o) \in Nat
    BY ValuesNat DEF TypeOK, Message
  <2>3. Available[o] = HeldIn(accounts, o) + Refunds(inflight, o)
    BY LedgerTerms
  <2>4. \A c \in Chains : accounts[c][o] \in Nat
    BY FungibleAssumption DEF TypeOK, Amount
  <2>5. QED BY <2>1, <2>2, <2>3, <2>4
<1>2. QED BY <1>1

(* Replacing a message by one that refunds as much and is pending as much   *)
(* changes nothing in the ledger.                                           *)
LEMMA MailStutter ==
  ASSUME TypeOK, NEW s \in Slots, NEW m \in Message, accounts' = accounts,
         \A r \in Slots : inflight'[r] = IF r = s THEN m ELSE inflight[r],
         \A o \in Owners : RefundOf(m, o) = RefundOf(inflight[s], o),
         PendingOf(m) = PendingOf(inflight[s])
  PROVE  UNCHANGED Ledger!vars
<1>1. inflight \in [Slots -> Message] /\ inflight[s] \in Message
  BY DEF TypeOK, Message
<1>2. ASSUME NEW o \in Owners PROVE Available'[o] = Available[o]
  <2>1. Refunds(inflight', o) = Refunds(inflight, o) - RefundOf(inflight[s], o) + RefundOf(m, o)
    BY <1>1, ValuesUpdate
  <2>2. Refunds(inflight, o) \in Nat /\ RefundOf(m, o) \in Nat
    BY AvailableBounds, ValueTypes
  <2>3. Refunds(inflight', o) = Refunds(inflight, o)
    BY <2>1, <2>2
  <2>4. QED BY <2>3, LedgerTerms
<1>3. \A r \in Slots : Pending'[r] = Pending[r]
  BY LedgerTerms
<1>4. Available' = Available /\ Pending' = Pending
  BY <1>2, <1>3, LedgerFunctions
<1>5. QED BY <1>4 DEF Ledger!vars, Available, Pending

(* A debit and what finish_transfer_to_account makes of it are a payment or *)
(* the beginning of a transfer, whatever message they came from.            *)
LEMMA TransferRefines ==
  ASSUME Accounting, NEW c \in Chains, NEW p \in Owners, NEW n \in Amount, NEW t \in Account,
         CanDebit(c, p, n), NEW mail \in [Slots -> Message],
         \A o \in Owners : /\ CreditsIn(mail, o) = CreditsIn(inflight, o)
                           /\ Refunds(mail, o) = Refunds(inflight, o),
         \A s \in Slots : PendingOf(mail[s]) = PendingOf(inflight[s]),
         FinishTransfer(c, Debited(c, p, n), mail, n, t, p)
  PROVE  Ledger!Next
<1> DEFINE after == Debited(c, p, n)
           q == t.owner
<1>1. /\ TypeOK /\ Settled /\ settled \in [Owners -> Int]
      /\ after \in [Chains -> [Owners -> Amount]]
      /\ q \in Owners /\ t.chain_id \in Chains /\ n \in Nat
  <2>1. TypeOK /\ Settled /\ settled \in [Owners -> Int]
    BY DEF Accounting, TypeOK
  <2>2. q \in Owners /\ t.chain_id \in Chains /\ n \in Nat
    BY FungibleAssumption DEF Account, Amount
  <2>3. after \in [Chains -> [Owners -> Amount]]
    BY <2>1, DebitedType
  <2>4. QED BY <2>1, <2>2, <2>3
<1>2. n \in 0..Available[p]
  <2>1. accounts[c][p] <= Available[p] /\ Available[p] \in Nat
    BY <1>1, AvailableBounds
  <2>2. accounts[c][p] \in Nat
    BY <1>1, FungibleAssumption DEF TypeOK, Amount
  <2>3. QED BY <1>1, <2>1, <2>2 DEF CanDebit
<1>3. \A o \in Owners : HeldIn(after, o) = HeldIn(accounts, o) - (IF o = p THEN n ELSE 0)
  BY <1>1, DebitedHeld
<1>4. \A o \in Owners : Refunds(inflight', o) = Refunds(inflight, o)
  <2> HIDE DEF after
  <2>1. FinishTransfer(c, after, mail, n, t, p)
    BY DEF after
  <2>2. \A o \in Owners : Refunds(inflight', o) = Refunds(mail, o)
    BY <1>1, <2>1, FinishTransferValues
  <2>3. QED BY <2>2
<1>5. Owing(after, mail, p, n)
  BY DebitOwes
<1> HIDE DEF after, q
<1>6. CASE accounts' = Credited(after, c, q, n) /\ inflight' = mail
  <2>1. SaturatingAdd(after[c][q], n) = after[c][q] + n
    BY <1>1, <1>5, NoSaturation
  <2>2. \A o \in Owners : HeldIn(accounts', o) = HeldIn(after, o) + (IF o = q THEN n ELSE 0)
    BY <1>1, <1>6, <2>1, CreditedHeldExactly
  <2> DEFINE moved == [[Available EXCEPT ![p] = @ - n] EXCEPT ![q] = @ + n]
  <2>3. ASSUME NEW o \in Owners PROVE Available'[o] = moved[o]
    <3>1. Available'[o] = HeldIn(accounts', o) + Refunds(inflight', o)
      BY LedgerTerms
    <3>2. Available[o] = HeldIn(accounts, o) + Refunds(inflight, o)
      BY LedgerTerms
    <3>3. HeldIn(accounts, o) \in Nat /\ Refunds(inflight, o) \in Nat
      BY <1>1, AvailableBounds
    <3>4. HeldIn(accounts', o) = (HeldIn(accounts, o) - (IF o = p THEN n ELSE 0))
                                   + (IF o = q THEN n ELSE 0)
      BY <1>3, <2>2
    <3>5. Refunds(inflight', o) = Refunds(inflight, o)
      BY <1>4
    <3>6. moved[o] = (Available[o] - (IF o = p THEN n ELSE 0)) + (IF o = q THEN n ELSE 0)
      <4>1. Available[o] \in Nat /\ Available = [x \in Owners |-> Available[x]]
        BY <1>1, AvailableBounds, LedgerFunctions
      <4>2. QED BY <1>1, <4>1
    <3> HIDE DEF moved
    <3>7. QED BY <1>1, <3>1, <3>2, <3>3, <3>4, <3>5, <3>6
  <2>4. moved = [o \in Owners |-> moved[o]]
    BY LedgerFunctions
  <2> HIDE DEF moved
  <2>5. Available' = moved
    BY <2>3, <2>4, LedgerFunctions
  <2>6. Pending' = Pending
    <3>1. \A s \in Slots : Pending'[s] = Pending[s]
      BY <1>6, LedgerTerms
    <3>2. QED BY <3>1, LedgerFunctions
  <2>7. QED BY <1>1, <1>2, <2>5, <2>6, LedgerPay DEF moved
<1>7. CASE /\ accounts' = after
           /\ \E s \in FreeSlots(mail) :
                inflight' = [mail EXCEPT ![s] =
                  [type |-> "Credit", from |-> c, to |-> t.chain_id,
                   target |-> q, source |-> p,
                   amount |-> n, bouncing |-> FALSE]]
  <2> DEFINE m == [type |-> "Credit", from |-> c, to |-> t.chain_id,
                   target |-> q, source |-> p, amount |-> n, bouncing |-> FALSE]
             transfer == [source |-> p, target |-> q, amount |-> n]
  <2>1. PICK s \in FreeSlots(mail) : inflight' = [mail EXCEPT ![s] = m]
    BY <1>7
  <2>2. s \in Slots /\ mail[s] = NoMessage
    BY DEF FreeSlots
  <2>3. PendingOf(m) = transfer /\ PendingOf(NoMessage) = Ledger!NoTransfer
    BY DEF PendingOf, NoMessage, Ledger!NoTransfer
  <2> HIDE DEF m, transfer
  <2>4. \A r \in Slots : inflight'[r] = IF r = s THEN m ELSE mail[r]
    BY <2>1, <2>2
  <2>5. Pending[s] = Ledger!NoTransfer
    BY <2>2, <2>3, LedgerTerms
  <2>6. \A r \in Slots : Pending'[r] = [Pending EXCEPT ![s] = transfer][r]
    <3>1. \A r \in Slots : Pending'[r] = IF r = s THEN transfer ELSE Pending[r]
      BY <2>3, <2>4, LedgerTerms
    <3>2. QED BY <2>2, <3>1, LedgerFunctions
  <2>7. Pending' = [Pending EXCEPT ![s] = transfer]
    <3>1. [Pending EXCEPT ![s] = transfer] = [r \in Slots |-> [Pending EXCEPT ![s] = transfer][r]]
      BY LedgerFunctions
    <3>2. QED BY <2>6, <3>1, LedgerFunctions
  <2> DEFINE debited == [Available EXCEPT ![p] = @ - n]
  <2>8. ASSUME NEW o \in Owners PROVE Available'[o] = debited[o]
    <3>1. /\ Available'[o] = HeldIn(accounts', o) + Refunds(inflight', o)
          /\ Available[o] = HeldIn(accounts, o) + Refunds(inflight, o)
      BY LedgerTerms
    <3>2. HeldIn(accounts, o) \in Nat /\ Refunds(inflight, o) \in Nat
      BY <1>1, AvailableBounds
    <3>3. /\ HeldIn(accounts', o) = HeldIn(accounts, o) - (IF o = p THEN n ELSE 0)
          /\ Refunds(inflight', o) = Refunds(inflight, o)
      BY <1>3, <1>4, <1>7
    <3>4. debited[o] = Available[o] - (IF o = p THEN n ELSE 0)
      <4>1. Available[o] \in Nat /\ Available = [x \in Owners |-> Available[x]]
        BY <1>1, AvailableBounds, LedgerFunctions
      <4>2. QED BY <1>1, <4>1
    <3> HIDE DEF debited
    <3>5. QED BY <1>1, <3>1, <3>2, <3>3, <3>4
  <2>9. debited = [o \in Owners |-> debited[o]]
    BY LedgerFunctions
  <2> HIDE DEF debited
  <2>10. Available' = debited
    BY <2>8, <2>9, LedgerFunctions
  <2>11. QED BY <1>1, <1>2, <2>2, <2>5, <2>7, <2>10, LedgerBegin DEF debited, transfer
<1>8. QED BY <1>6, <1>7 DEF FinishTransfer, after, q

(* A Withdraw that is executed is a transfer of the chain it was sent to.   *)
LEMMA ExecuteWithdrawRefines ==
  ASSUME Accounting, NEW s \in Slots, ExecuteWithdraw(s)
  PROVE  Ledger!Next
<1> DEFINE m == inflight[s]
<1>1. TypeOK /\ inflight \in [Slots -> Message] /\ NoMessage \in Message
  BY DEF Accounting, TypeOK, Message
<1>2. m \in WithdrawMessage
  BY <1>1 DEF ExecuteWithdraw, Message, CreditMessage, WithdrawMessage, NoMessage
<1>3. /\ m.to \in Chains /\ m.amount \in Amount /\ m.owner \in Owners
      /\ m.target_account \in Account /\ m.type = "Withdraw" /\ m \in Message
  BY <1>2 DEF WithdrawMessage, Message
<1>4. Without(s) \in [Slots -> Message]
  BY <1>1 DEF Without
<1>5. \A r \in Slots : Without(s)[r] = IF r = s THEN NoMessage ELSE inflight[r]
  BY <1>1 DEF Without
<1>6. PendingOf(m) = PendingOf(NoMessage)
  BY <1>3 DEF PendingOf, NoMessage
<1>7. \A r \in Slots : PendingOf(Without(s)[r]) = PendingOf(inflight[r])
  BY <1>5, <1>6
<1>8. ASSUME NEW o \in Owners
      PROVE  /\ CreditsIn(Without(s), o) = CreditsIn(inflight, o)
             /\ Refunds(Without(s), o) = Refunds(inflight, o)
  <2>1. CreditOf(m, o) = 0 /\ RefundOf(m, o) = 0 /\ RefundOf(NoMessage, o) = 0
    BY <1>3 DEF CreditOf, RefundOf, NoMessage
  <2>2. CreditsIn(Without(s), o) = CreditsIn(inflight, o) - CreditOf(m, o)
    BY <1>1, WithoutCredits
  <2>3. Refunds(Without(s), o) = Refunds(inflight, o) - RefundOf(m, o) + RefundOf(NoMessage, o)
    BY <1>1, <1>5, ValuesUpdate
  <2>4. CreditsIn(inflight, o) \in Nat /\ Refunds(inflight, o) \in Nat
    BY <1>1, CreditsInNat, ValuesNat
  <2>5. QED BY <2>1, <2>2, <2>3, <2>4
<1> DEFINE c == m.to
           p == m.owner
           n == m.amount
           t == m.target_account
<1>9. /\ c \in Chains /\ p \in Owners /\ n \in Amount /\ t \in Account
      /\ CanDebit(c, p, n) /\ FinishTransfer(c, Debited(c, p, n), Without(s), n, t, p)
  BY <1>3 DEF ExecuteWithdraw
<1> HIDE DEF m, c, p, n, t
<1>10. QED BY <1>4, <1>7, <1>8, <1>9, TransferRefines

(* A Credit that is executed completes a transfer, or it bounced and its    *)
(* tokens were available since then.                                        *)
LEMMA ExecuteCreditRefines ==
  ASSUME Accounting, NEW s \in Slots, ExecuteCredit(s)
  PROVE  [Ledger!Next]_Ledger!vars
<1> DEFINE m == inflight[s]
           p == CreditReceiver(m)
           n == m.amount
<1>1. /\ TypeOK /\ inflight \in [Slots -> Message] /\ NoMessage \in Message
      /\ accounts \in [Chains -> [Owners -> Amount]]
      /\ settled \in [Owners -> Int] /\ Settled
  BY DEF Accounting, TypeOK, Message
<1>2. m \in CreditMessage
  BY <1>1 DEF ExecuteCredit, Message, CreditMessage, WithdrawMessage, NoMessage
<1>3. /\ m.to \in Chains /\ n \in Amount /\ m.source \in Owners /\ m.target \in Owners
      /\ p \in Owners /\ m.bouncing \in BOOLEAN /\ m.type = "Credit" /\ m \in Message
  BY <1>2 DEF CreditMessage, CreditReceiver, Message
<1>4. n \in Nat
  BY <1>3, FungibleAssumption DEF Amount
<1>5. /\ accounts' = Credited(accounts, m.to, p, n)
      /\ \A r \in Slots : inflight'[r] = IF r = s THEN NoMessage ELSE inflight[r]
  BY <1>1 DEF ExecuteCredit, Without
<1>6. SaturatingAdd(accounts[m.to][p], n) = accounts[m.to][p] + n
  <2>1. Owing(accounts, Without(s), m.source, n)
    BY <1>2, CreditOwed
  <2>2. Without(s) \in [Slots -> Message]
    BY <1>1 DEF Without
  <2>3. QED BY <1>1, <1>3, <2>1, <2>2, NoSaturation
<1>7. \A o \in Owners : HeldIn(accounts', o) = HeldIn(accounts, o) + (IF o = p THEN n ELSE 0)
  <2> DEFINE c == m.to
  <2>1. c \in Chains /\ SaturatingAdd(accounts[c][p], n) = accounts[c][p] + n
        /\ accounts' = Credited(accounts, c, p, n)
    BY <1>3, <1>5, <1>6
  <2> HIDE DEF c, n, p, m
  <2>2. QED BY <1>1, <1>3, <2>1, CreditedHeldExactly
<1>8. \A o \in Owners : Refunds(inflight', o) = Refunds(inflight, o) - RefundOf(m, o)
  <2>1. ASSUME NEW o \in Owners
        PROVE  Refunds(inflight', o) = Refunds(inflight, o) - RefundOf(m, o)
    <3>1. Refunds(inflight', o) = Refunds(inflight, o) - RefundOf(m, o) + RefundOf(NoMessage, o)
      BY <1>1, <1>5, ValuesUpdate
    <3>2. RefundOf(NoMessage, o) = 0
      BY DEF RefundOf, NoMessage
    <3>3. Refunds(inflight, o) \in Nat /\ RefundOf(m, o) \in Nat
      BY <1>1, <1>3, ValuesNat, ValueTypes
    <3> HIDE DEF m
    <3>4. QED BY <3>1, <3>2, <3>3
  <2>2. QED BY <2>1
<1>9. ASSUME NEW o \in Owners
      PROVE  Available'[o] = (Available[o] + (IF o = p THEN n ELSE 0)) - RefundOf(m, o)
  <2>1. /\ Available'[o] = HeldIn(accounts', o) + Refunds(inflight', o)
        /\ Available[o] = HeldIn(accounts, o) + Refunds(inflight, o)
    BY LedgerTerms
  <2>2. /\ HeldIn(accounts, o) \in Nat /\ Refunds(inflight, o) \in Nat
        /\ RefundOf(m, o) \in Nat
    BY <1>1, <1>3, AvailableBounds, ValueTypes
  <2>3. /\ HeldIn(accounts', o) = HeldIn(accounts, o) + (IF o = p THEN n ELSE 0)
        /\ Refunds(inflight', o) = Refunds(inflight, o) - RefundOf(m, o)
    BY <1>7, <1>8
  <2> DEFINE e == IF o = p THEN n ELSE 0
             f == RefundOf(m, o)
  <2>4. e \in Nat /\ f \in Nat
    BY <1>4, <2>2
  <2> HIDE DEF m, p, n, e, f
  <2>5. QED BY <2>1, <2>2, <2>3, <2>4 DEF e, f
<1>10. CASE m.bouncing = FALSE
  <2> DEFINE transfer == [source |-> m.source, target |-> m.target, amount |-> n]
             credited == [Available EXCEPT ![p] = @ + n]
             removed == [Pending EXCEPT ![s] = Ledger!NoTransfer]
  <2>1. p = m.target /\ PendingOf(m) = transfer /\ PendingOf(NoMessage) = Ledger!NoTransfer
    BY <1>3, <1>10 DEF PendingOf, NoMessage, Ledger!NoTransfer, CreditReceiver
  <2>2. \A o \in Owners : RefundOf(m, o) = 0
    BY <1>10 DEF RefundOf
  <2>3. Pending[s] = transfer
    BY <2>1, LedgerTerms
  <2>4. transfer # Ledger!NoTransfer /\ transfer.target = p /\ transfer.amount = n
    BY <2>1 DEF Ledger!NoTransfer
  <2>5. \A o \in Owners : Available'[o] = credited[o]
    <3>1. ASSUME NEW o \in Owners PROVE Available'[o] = credited[o]
      <4>1. Available'[o] = (Available[o] + (IF o = p THEN n ELSE 0)) - RefundOf(m, o)
        BY <1>9
      <4>2. Available[o] \in Nat /\ Available = [x \in Owners |-> Available[x]]
        BY <1>1, AvailableBounds, LedgerFunctions
      <4>3. RefundOf(m, o) = 0
        BY <2>2
      <4> HIDE DEF m, p, n
      <4>4. QED BY <1>3, <1>4, <4>1, <4>2, <4>3
    <3>2. QED BY <3>1
  <2>6. \A r \in Slots : Pending'[r] = removed[r]
    <3>1. \A r \in Slots : Pending'[r] = IF r = s THEN Ledger!NoTransfer ELSE Pending[r]
      BY <1>5, <2>1, LedgerTerms
    <3>2. QED BY <3>1, LedgerFunctions
  <2>7. /\ credited = [o \in Owners |-> credited[o]]
        /\ removed = [r \in Slots |-> removed[r]]
    BY LedgerFunctions
  <2> HIDE DEF credited, removed
  <2>8. Available' = credited /\ Pending' = removed
    BY <2>5, <2>6, <2>7, LedgerFunctions
  <2> HIDE DEF transfer
  <2>9. Available' = [Available EXCEPT ![Pending[s].target] = @ + Pending[s].amount]
    BY <2>3, <2>4, <2>8 DEF credited
  <2>10. Ledger!Next
    BY <2>3, <2>4, <2>8, <2>9, LedgerComplete DEF removed
  <2>11. QED BY <2>10
<1>11. CASE m.bouncing = TRUE
  <2>1. p = m.source /\ PendingOf(m) = PendingOf(NoMessage)
    BY <1>11 DEF PendingOf, NoMessage, CreditReceiver
  <2>2. \A o \in Owners : Available'[o] = Available[o]
    <3>1. ASSUME NEW o \in Owners PROVE Available'[o] = Available[o]
      <4>1. Available'[o] = (Available[o] + (IF o = p THEN n ELSE 0)) - RefundOf(m, o)
        BY <1>9
      <4>2. Available[o] \in Nat
        BY <1>1, AvailableBounds
      <4>3. RefundOf(m, o) = IF o = p THEN n ELSE 0
        BY <1>3, <1>11, <2>1 DEF RefundOf
      <4> HIDE DEF m, p, n
      <4>4. QED BY <1>4, <4>1, <4>2, <4>3
    <3>2. QED BY <3>1
  <2>3. \A r \in Slots : Pending'[r] = Pending[r]
    BY <1>5, <2>1, LedgerTerms
  <2>4. Available' = Available /\ Pending' = Pending
    BY <2>2, <2>3, LedgerFunctions
  <2>5. QED BY <2>4 DEF Ledger!vars, Available, Pending
<1>12. QED BY <1>3, <1>10, <1>11

(* A Credit that is rejected is refunded at once, before it is back; a      *)
(* Withdraw that is rejected never was a transfer.                          *)
LEMMA RejectRefines ==
  ASSUME Accounting, NEW s \in Slots, RejectMessage(s)
  PROVE  [Ledger!Next]_Ledger!vars
<1> DEFINE m == inflight[s]
<1>1. /\ TypeOK /\ inflight \in [Slots -> Message] /\ m \in Message
      /\ NoMessage \in Message
  BY DEF Accounting, TypeOK, Message
<1>2. CASE m.type = "Withdraw"
  <2>1. /\ \A r \in Slots : inflight'[r] = IF r = s THEN NoMessage ELSE inflight[r]
        /\ accounts' = accounts
    BY <1>1, <1>2 DEF RejectMessage, Without
  <2>2. /\ \A o \in Owners : RefundOf(NoMessage, o) = RefundOf(m, o)
        /\ PendingOf(NoMessage) = PendingOf(m)
    BY <1>2 DEF RefundOf, PendingOf, NoMessage
  <2>3. QED BY <1>1, <2>1, <2>2, MailStutter
<1>3. CASE m.type = "Credit" /\ m.bouncing = FALSE
  <2> DEFINE bounce == [m EXCEPT !.from = m.to, !.to = m.from, !.bouncing = TRUE]
             n == m.amount
             p == m.source
             transfer == [source |-> m.source, target |-> m.target, amount |-> n]
             refunded == [Available EXCEPT ![p] = @ + n]
             removed == [Pending EXCEPT ![s] = Ledger!NoTransfer]
  <2>1. m \in CreditMessage /\ n \in Nat /\ p \in Owners
    <3>1. m \in CreditMessage
      BY <1>1, <1>3 DEF Message, CreditMessage, WithdrawMessage, NoMessage
    <3>2. QED BY <3>1, FungibleAssumption DEF CreditMessage, Amount
  <2>2. /\ bounce \in CreditMessage /\ bounce \in Message
        /\ bounce.type = "Credit" /\ bounce.bouncing = TRUE
        /\ bounce.source = p /\ bounce.amount = n
    BY <2>1 DEF Message, CreditMessage
  <2> HIDE DEF bounce
  <2>3. /\ \A r \in Slots : inflight'[r] = IF r = s THEN bounce ELSE inflight[r]
        /\ accounts' = accounts
    BY <1>1, <1>3 DEF RejectMessage, bounce
  <2>4. \A o \in Owners : RefundOf(bounce, o) = IF o = p THEN n ELSE 0
    BY <2>2 DEF RefundOf
  <2>5. \A o \in Owners : RefundOf(m, o) = 0
    BY <1>3 DEF RefundOf
  <2>6. /\ PendingOf(m) = transfer /\ PendingOf(bounce) = Ledger!NoTransfer
        /\ transfer # Ledger!NoTransfer /\ transfer.source = p /\ transfer.amount = n
    BY <1>3, <2>2 DEF PendingOf, Ledger!NoTransfer
  <2>7. Pending[s] = transfer
    BY <2>6, LedgerTerms
  <2> HIDE DEF m, n, p, transfer
  <2>8. ASSUME NEW o \in Owners PROVE Available'[o] = refunded[o]
    <3>1. Refunds(inflight', o) = Refunds(inflight, o) - RefundOf(m, o) + RefundOf(bounce, o)
      BY <1>1, <2>2, <2>3, ValuesUpdate DEF m
    <3>2. /\ HeldIn(accounts, o) \in Nat /\ Refunds(inflight, o) \in Nat
          /\ Available[o] \in Nat /\ Available = [x \in Owners |-> Available[x]]
      BY <1>1, AvailableBounds, LedgerFunctions
    <3>3. /\ Available'[o] = HeldIn(accounts', o) + Refunds(inflight', o)
          /\ Available[o] = HeldIn(accounts, o) + Refunds(inflight, o)
      BY LedgerTerms
    <3>4. HeldIn(accounts', o) = HeldIn(accounts, o)
      BY <2>3
    <3>5. Available'[o] = Available[o] + (IF o = p THEN n ELSE 0)
      BY <2>1, <2>4, <2>5, <3>1, <3>2, <3>3, <3>4
    <3>6. QED BY <2>1, <3>2, <3>5
  <2>9. \A r \in Slots : Pending'[r] = removed[r]
    <3>1. \A r \in Slots : Pending'[r] = IF r = s THEN Ledger!NoTransfer ELSE Pending[r]
      BY <2>3, <2>6, LedgerTerms
    <3>2. QED BY <3>1, LedgerFunctions
  <2>10. /\ refunded = [o \in Owners |-> refunded[o]]
         /\ removed = [r \in Slots |-> removed[r]]
    BY LedgerFunctions
  <2> HIDE DEF refunded, removed
  <2>11. Available' = refunded /\ Pending' = removed
    BY <2>8, <2>9, <2>10, LedgerFunctions
  <2>12. Available' = [Available EXCEPT ![Pending[s].source] = @ + Pending[s].amount]
    BY <2>6, <2>7, <2>11 DEF refunded
  <2>13. Ledger!Next
    BY <2>6, <2>7, <2>11, <2>12, LedgerRefund DEF removed
  <2>14. QED BY <2>13
<1>4. m.type = "Credit" => m.bouncing \in BOOLEAN
  BY <1>1 DEF Message, CreditMessage, WithdrawMessage, NoMessage
<1>5. QED BY <1>2, <1>3, <1>4 DEF RejectMessage

(* A claim spends here, or asks another chain to, which the ledger does not *)
(* see before it happens.                                                   *)
LEMMA ClaimRefines ==
  ASSUME Accounting, NEW c \in Chains, NEW signer \in Owners, NEW account \in Account,
         NEW n \in Amount, NEW t \in Account, Claim(c, signer, account, n, t)
  PROVE  [Ledger!Next]_Ledger!vars
<1>1. /\ TypeOK /\ inflight \in [Slots -> Message]
      /\ account.owner \in Owners /\ account.chain_id \in Chains
  BY DEF Accounting, TypeOK, Message, Account
<1>2. CASE /\ CanDebit(c, account.owner, n)
           /\ FinishTransfer(c, Debited(c, account.owner, n), inflight, n, t, account.owner)
  BY <1>1, <1>2, TransferRefines
<1>3. CASE /\ \E s \in FreeSlots(inflight) :
                inflight' = [inflight EXCEPT ![s] =
                  [type |-> "Withdraw", to |-> account.chain_id, owner |-> account.owner,
                   signer |-> signer, amount |-> n, target_account |-> t]]
           /\ UNCHANGED <<accounts, settled>>
  <2> DEFINE m == [type |-> "Withdraw", to |-> account.chain_id, owner |-> account.owner,
                   signer |-> signer, amount |-> n, target_account |-> t]
  <2>1. PICK s \in FreeSlots(inflight) : inflight' = [inflight EXCEPT ![s] = m]
    BY <1>3
  <2>2. s \in Slots /\ inflight[s] = NoMessage
    BY DEF FreeSlots
  <2>3. m \in Message
    BY <1>1 DEF Message, WithdrawMessage
  <2>4. /\ \A o \in Owners : RefundOf(m, o) = RefundOf(inflight[s], o)
        /\ PendingOf(m) = PendingOf(inflight[s])
    BY <2>2 DEF RefundOf, PendingOf, NoMessage
  <2> HIDE DEF m
  <2>5. \A r \in Slots : inflight'[r] = IF r = s THEN m ELSE inflight[r]
    BY <1>1, <2>1, <2>2
  <2>6. QED BY <1>1, <1>3, <2>2, <2>3, <2>4, <2>5, MailStutter
<1>4. QED BY <1>2, <1>3 DEF Claim

(* Every step of the application is a step of the ledger or none.           *)
LEMMA StepRefines == Accounting /\ [Next]_vars => [Ledger!Next]_Ledger!vars
<1> SUFFICES ASSUME Accounting, [Next]_vars PROVE [Ledger!Next]_Ledger!vars
  OBVIOUS
<1>1. OperationAmounts \subseteq Amount /\ TypeOK /\ inflight \in [Slots -> Message]
  BY FungibleAssumption DEF Accounting, TypeOK, Message
<1>2. ASSUME UNCHANGED <<accounts, inflight>>
      PROVE  UNCHANGED Ledger!vars
  BY <1>2 DEF Ledger!vars, OnAllChains, InCredits
<1>3. ASSUME NEW c \in Chains, NEW p \in Owners, NEW n \in OperationAmounts, NEW t \in Account,
             CanDebit(c, p, n), FinishTransfer(c, Debited(c, p, n), inflight, n, t, p)
      PROVE  Ledger!Next
  BY <1>1, <1>3, TransferRefines
<1>4. ASSUME NEW c \in Chains, NEW signer \in Owners, NEW owner \in Owners,
             NEW spender \in Owners, NEW n \in OperationAmounts,
             Approve(c, signer, owner, spender, n)
      PROVE  [Ledger!Next]_Ledger!vars
  BY <1>2, <1>4 DEF Approve
<1>5. ASSUME NEW c \in Chains, NEW signer \in Owners, NEW owner \in Owners,
             NEW n \in OperationAmounts, NEW t \in Account, Transfer(c, signer, owner, n, t)
      PROVE  [Ledger!Next]_Ledger!vars
  BY <1>3, <1>5 DEF Transfer
<1>6. ASSUME NEW c \in Chains, NEW signer \in Owners, NEW owner \in Owners,
             NEW spender \in Owners, NEW n \in OperationAmounts, NEW t \in Account,
             TransferFrom(c, signer, owner, spender, n, t)
      PROVE  [Ledger!Next]_Ledger!vars
  <2>1. CanDebit(c, owner, n)
    <3>1. accounts[c][owner] \in Nat
      BY <1>1, FungibleAssumption DEF TypeOK, Amount
    <3>2. QED BY <1>6, <3>1 DEF TransferFrom, CanDebit
  <2>2. QED BY <1>3, <1>6, <2>1 DEF TransferFrom
<1>7. ASSUME NEW c \in Chains, NEW signer \in Owners, NEW a \in Account,
             NEW n \in OperationAmounts, NEW t \in Account, Claim(c, signer, a, n, t)
      PROVE  [Ledger!Next]_Ledger!vars
  BY <1>1, <1>7, ClaimRefines
<1>8. ASSUME NEW c \in Chains, NEW signer \in Owners, ExecuteOperation(c, signer)
      PROVE  [Ledger!Next]_Ledger!vars
  <2>1. \A chain \in Chains, owner \in Owners : [chain_id |-> chain, owner |-> owner] \in Account
    BY DEF Account
  <2>2. QED BY <1>4, <1>5, <1>6, <1>7, <1>8, <2>1 DEF ExecuteOperation
<1>9. ASSUME NEW s \in Slots, HandleMessage(s)
      PROVE  [Ledger!Next]_Ledger!vars
  BY <1>9, ExecuteCreditRefines, ExecuteWithdrawRefines, RejectRefines DEF HandleMessage
<1>10. CASE UNCHANGED vars
  BY <1>2, <1>10 DEF vars
<1>11. QED BY <1>8, <1>9, <1>10 DEF Next

(* The initial accounts are the initial ledger.                             *)
LEMMA InitRefines == Init => Ledger!Init
<1> SUFFICES ASSUME Init PROVE Ledger!Init
  OBVIOUS
<1>1. TypeOK
  BY TypeInit
<1>2. ASSUME NEW o \in Owners PROVE Available[o] = InitialAccounts[o]
  <2>1. HeldIn(accounts, o) + CreditsIn(inflight, o) = settled[o]
    BY AccountingInit DEF Accounting, Balanced
  <2>2. CreditsIn(inflight, o) = 0 /\ Refunds(inflight, o) = 0
    <3> DEFINE f == [s \in Slots |-> CreditOf(inflight[s], o)]
               g == [s \in Slots |-> RefundOf(inflight[s], o)]
    <3>1. \A s \in Slots : f[s] = 0 /\ g[s] = 0
      BY DEF Init, CreditOf, RefundOf, NoMessage
    <3>2. SumFunctionOnSet(f, Slots) = 0 /\ SumFunctionOnSet(g, Slots) = 0
      BY <3>1, SumZero, FungibleAssumption
    <3>3. QED BY <3>2 DEF CreditsIn, Refunds
  <2>3. HeldIn(accounts, o) \in Nat /\ settled[o] = InitialAccounts[o]
    BY <1>1, AvailableBounds DEF Init
  <2>4. QED BY <2>1, <2>2, <2>3, LedgerTerms
<1>3. ASSUME NEW s \in Slots PROVE Pending[s] = Ledger!NoTransfer
  BY DEF Pending, Init, NoMessage, Ledger!NoTransfer
<1>4. InitialAccounts = [o \in Owners |-> InitialAccounts[o]]
  BY FungibleAssumption
<1>5. Available = InitialAccounts /\ Pending = [s \in Slots |-> Ledger!NoTransfer]
  BY <1>2, <1>3, <1>4, LedgerFunctions
<1>6. QED BY <1>5 DEF Ledger!Init, Available, Pending

(* On however many chains, with whatever the receivers reject and in        *)
(* whatever order messages arrive, the application is one ledger: a         *)
(* transfer takes its tokens from the sender at once, and is then completed *)
(* or refunded, once.                                                       *)
THEOREM LedgerIsImplemented == Spec => ImplementsLedger
<1>1. QED BY InitRefines, StepRefines, AlwaysAccounting, PTL DEF Spec, ImplementsLedger, Ledger!Spec

=============================================================================
