------------------------- MODULE MorphoDriverProofs -------------------------
(***************************************************************************)
(* What the assertions of the end-to-end driver may rely on, and what a    *)
(* test that passes has left behind, for every market and every clock.     *)
(*                                                                         *)
(* ChecksSeeLatestBlock: every script is prepared, that is, each step asks *)
(* a client for a call of the right types, and each assertion follows a    *)
(* step that shows the asked service every block.  JoinPrepared carries    *)
(* that from parts to scenarios, DriverInv from scripts to states.         *)
(*                                                                         *)
(* PassedClean: a script that repays exactly takes one loan and pays it    *)
(* back once (Cycles), and ends with an assertion that nothing is owed.    *)
(* Progress follows that loan: until it is taken nobody owes anything,     *)
(* then one debtor owes every share, and after the repayment shares are    *)
(* left only with assets, which the last assertion excludes.  Every other  *)
(* script takes at most one loan, before any liquidation (LendsOnce), and  *)
(* nothing after it raises what is owed: that is OwedInv.  No script but   *)
(* that of choice 8 has the test contract approve anything (Gentle), and   *)
(* what a callback approves is taken at once: that is NothingApproved.     *)
(***************************************************************************)
EXTENDS MorphoDriver, MorphoProofs

-----------------------------------------------------------------------------
(* Scripts.                                                                 *)

MarketFunctions ==
  {"supply", "withdraw", "borrow", "repay", "supplyCollateral", "withdrawCollateral", "liquidate"}

(* The test contract never leaves an approval of loan tokens behind.        *)
CallTyped(sender, call) ==
  /\ sender \in Users
  /\ call.fn = "setBalance" => call.token \in Tokens /\ call.owner \in Users /\ call.amount \in Nat
  /\ call.fn = "approve" =>
       /\ call.token \in Tokens /\ call.amount \in Nat
       /\ sender = TestContract /\ call.token = "loan" => call.amount = 0
  /\ call.fn \in MarketFunctions => call.amount \in Nat
  /\ call.fn = "setPrice" => call.percent = 80

StepTyped(step) ==
  /\ step.client \in Clients
  /\ step.do = "operation" => CallTyped(step.sender, step.call)

(* A sequence of such steps.                                                *)
IsScript(s) == (\E S : s \in Seq(S)) /\ \A i \in 1..Len(s) : StepTyped(s[i])

(* A step after which the service of its client has seen every block.       *)
Refreshing(step) == step.do \in {"inbox", "operation"}

EndsWith(s, c) == Len(s) > 0 /\ s[Len(s)].client = c /\ Refreshing(s[Len(s)])

(* An assertion follows such a step of the same client.                     *)
Prepared(s) ==
  /\ IsScript(s)
  /\ \A i \in 1..Len(s) : s[i].do = "check" =>
       i > 1 /\ s[i - 1].client = s[i].client /\ Refreshing(s[i - 1])

LEMMA JoinParts ==
  ASSUME NEW S, NEW T, NEW s \in Seq(S), NEW t \in Seq(T)
  PROVE /\ s \o t \in Seq(S \cup T) /\ Len(s \o t) = Len(s) + Len(t)
        /\ Len(s) \in Nat /\ Len(t) \in Nat
        /\ \A i \in 1..Len(s) : (s \o t)[i] = s[i]
        /\ \A i \in 1..Len(t) : (s \o t)[Len(s) + i] = t[i]
<1>1. s \in Seq(S \cup T) /\ t \in Seq(S \cup T)
  OBVIOUS
<1> QED
  BY <1>1

LEMMA JoinScripts ==
  ASSUME NEW s, NEW t, IsScript(s), IsScript(t)
  PROVE IsScript(s \o t)
<1>1. PICK S : s \in Seq(S)
  BY DEF IsScript
<1>2. PICK T : t \in Seq(T)
  BY DEF IsScript
<1>3. s \o t \in Seq(S \cup T)
  BY <1>1, <1>2, JoinParts
<1>4. ASSUME NEW i \in 1..Len(s \o t)
      PROVE StepTyped((s \o t)[i])
  <2>1. CASE i \in 1..Len(s)
    BY <2>1, <1>1, <1>2, JoinParts DEF IsScript
  <2>2. CASE i \notin 1..Len(s)
    <3>1. i - Len(s) \in 1..Len(t) /\ i = Len(s) + (i - Len(s))
      BY <2>2, <1>1, <1>2, JoinParts
    <3>2. (s \o t)[i] = t[i - Len(s)]
      BY <3>1, <1>1, <1>2, JoinParts
    <3> QED
      BY <3>1, <3>2 DEF IsScript
  <2> QED
    BY <2>1, <2>2
<1> QED
  BY <1>3, <1>4 DEF IsScript

LEMMA JoinEnds ==
  ASSUME NEW s, NEW t, NEW c, IsScript(s), IsScript(t), EndsWith(t, c)
  PROVE EndsWith(s \o t, c)
<1>1. PICK S : s \in Seq(S)
  BY DEF IsScript
<1>2. PICK T : t \in Seq(T)
  BY DEF IsScript
<1>3. Len(s \o t) = Len(s) + Len(t) /\ Len(s) \in Nat /\ Len(t) \in Nat
  BY <1>1, <1>2, JoinParts
<1>4. Len(t) \in 1..Len(t)
  BY <1>3 DEF EndsWith
<1>5. (s \o t)[Len(s \o t)] = t[Len(t)]
  BY <1>1, <1>2, <1>3, <1>4, JoinParts
<1> QED
  BY <1>3, <1>5 DEF EndsWith

LEMMA JoinPrepared ==
  ASSUME NEW s, NEW t, Prepared(s), Prepared(t)
  PROVE Prepared(s \o t)
<1>1. PICK S : s \in Seq(S)
  BY DEF IsScript, Prepared
<1>2. PICK T : t \in Seq(T)
  BY DEF IsScript, Prepared
<1>3. IsScript(s \o t)
  BY JoinScripts DEF Prepared
<1>4. ASSUME NEW i \in 1..Len(s \o t), (s \o t)[i].do = "check"
      PROVE /\ i > 1 /\ (s \o t)[i - 1].client = (s \o t)[i].client
            /\ Refreshing((s \o t)[i - 1])
  <2>1. CASE i \in 1..Len(s)
    <3>1. (s \o t)[i] = s[i]
      BY <2>1, <1>1, <1>2, JoinParts
    <3>2. i > 1 /\ s[i - 1].client = s[i].client /\ Refreshing(s[i - 1])
      BY <2>1, <3>1, <1>4 DEF Prepared
    <3>3. i - 1 \in 1..Len(s)
      BY <2>1, <3>2, <1>1, <1>2, JoinParts
    <3>4. (s \o t)[i - 1] = s[i - 1]
      BY <3>3, <1>1, <1>2, JoinParts
    <3> QED
      BY <3>1, <3>2, <3>4
  <2>2. CASE i \notin 1..Len(s)
    <3> DEFINE j == i - Len(s)
    <3>1. j \in 1..Len(t) /\ i = Len(s) + j /\ Len(s) \in Nat
      BY <2>2, <1>1, <1>2, JoinParts
    <3>2. (s \o t)[i] = t[j]
      BY <3>1, <1>1, <1>2, JoinParts
    <3>3. j > 1 /\ t[j - 1].client = t[j].client /\ Refreshing(t[j - 1])
      BY <3>1, <3>2, <1>4 DEF Prepared
    <3>4. j - 1 \in 1..Len(t) /\ i - 1 = Len(s) + (j - 1)
      BY <3>1, <3>3
    <3>5. (s \o t)[i - 1] = t[j - 1]
      BY <3>4, <1>1, <1>2, JoinParts
    <3> QED
      BY <3>1, <3>2, <3>3, <3>5
  <2> QED
    BY <2>1, <2>2
<1> QED
  BY <1>3, <1>4 DEF Prepared

LEMMA CheckPrepared ==
  ASSUME NEW s, NEW c \in Clients, NEW q, NEW r, NEW e, Prepared(s), EndsWith(s, c)
  PROVE Prepared(s \o <<Check(c, q, r, e)>>)
<1> DEFINE k == Check(c, q, r, e)
           t == <<k>>
<1>1. PICK S : s \in Seq(S)
  BY DEF IsScript, Prepared
<1>2. t \in Seq({k}) /\ Len(t) = 1 /\ t[1] = k
  OBVIOUS
<1>3. k.client = c /\ StepTyped(k)
  BY DEF Check, StepTyped
<1> HIDE DEF t, k
<1>4. IsScript(t)
  BY <1>2, <1>3 DEF IsScript
<1>5. IsScript(s \o t)
  BY <1>4, JoinScripts DEF Prepared
<1>6. Len(s \o t) = Len(s) + 1 /\ Len(s) \in Nat
  BY <1>1, <1>2, JoinParts
<1>7. ASSUME NEW i \in 1..Len(s \o t), (s \o t)[i].do = "check"
      PROVE /\ i > 1 /\ (s \o t)[i - 1].client = (s \o t)[i].client
            /\ Refreshing((s \o t)[i - 1])
  <2>1. CASE i \in 1..Len(s)
    <3>1. (s \o t)[i] = s[i]
      BY <2>1, <1>1, <1>2, JoinParts
    <3>2. i > 1 /\ s[i - 1].client = s[i].client /\ Refreshing(s[i - 1])
      BY <2>1, <3>1, <1>7 DEF Prepared
    <3>3. i - 1 \in 1..Len(s)
      BY <2>1, <3>2, <1>6
    <3>4. (s \o t)[i - 1] = s[i - 1]
      BY <3>3, <1>1, <1>2, JoinParts
    <3> QED
      BY <3>1, <3>2, <3>4
  <2>2. CASE i \notin 1..Len(s)
    <3>1. i = Len(s) + 1 /\ 1 \in 1..Len(t)
      BY <2>2, <1>2, <1>6
    <3>2. (s \o t)[i] = k
      BY <3>1, <1>1, <1>2, JoinParts
    <3>3. Len(s) \in 1..Len(s) /\ i - 1 = Len(s) /\ i > 1
      BY <3>1, <1>6 DEF EndsWith
    <3>4. (s \o t)[i - 1] = s[Len(s)]
      BY <3>3, <1>1, <1>2, JoinParts
    <3> QED
      BY <3>2, <3>3, <3>4, <1>3 DEF EndsWith
  <2> QED
    BY <2>1, <2>2
<1>8. Prepared(s \o t)
  BY <1>5, <1>7 DEF Prepared
<1> QED
  BY <1>8 DEF t, k

LEMMA FreshPrepared ==
  ASSUME NEW step, StepTyped(step)
  PROVE /\ Prepared(Fresh(step))
        /\ Refreshing(step) => EndsWith(Fresh(step), step.client)
<1> DEFINE f == Fresh(step)
           p == ProcessInbox(step.client)
<1>1. /\ f \in Seq({p, step})
      /\ Len(f) = 2 /\ f[1] = p /\ f[2] = step
  BY DEF Fresh
<1>2. p.do = "inbox" /\ p.client = step.client /\ StepTyped(p)
  BY DEF ProcessInbox, StepTyped
<1> HIDE DEF f, p
<1>3. \A i \in 1..Len(f) : i = 1 \/ i = 2
  BY <1>1
<1>4. IsScript(f)
  BY <1>1, <1>2, <1>3 DEF IsScript
<1>5. Prepared(f)
  BY <1>1, <1>2, <1>3, <1>4 DEF Prepared, Refreshing
<1>6. Refreshing(step) => EndsWith(f, step.client)
  BY <1>1 DEF EndsWith
<1> QED
  BY <1>5, <1>6 DEF f

(* Every call of the scripts has its types.                                 *)
LEMMA ClientsTyped ==
  /\ \A c \in {"regular", "owner", "supplier", "borrower", "liquidator", "supplier2"} :
       c \in Clients
  /\ Clients \subseteq Users /\ TestContract \in Users
  /\ "loan" \in Tokens /\ "collateral" \in Tokens /\ TestContract \notin Clients
BY DriverAssumption DEF Clients, Tokens, TestContract

LEMMA OperationPrepared ==
  ASSUME NEW c \in Clients, NEW call
  PROVE /\ CallTyped(c, call) => /\ Prepared(Fresh(Operation(c, call)))
                                 /\ EndsWith(Fresh(Operation(c, call)), c)
        /\ CallTyped(TestContract, call) => /\ Prepared(Fresh(Through(c, call)))
                                            /\ EndsWith(Fresh(Through(c, call)), c)
<1>1. /\ Operation(c, call).client = c /\ Operation(c, call).do = "operation"
      /\ Operation(c, call).sender = c /\ Operation(c, call).call = call
      /\ Through(c, call).client = c /\ Through(c, call).do = "operation"
      /\ Through(c, call).sender = TestContract /\ Through(c, call).call = call
  BY DEF Operation, Through
<1> QED
  BY <1>1, FreshPrepared DEF StepTyped, Refreshing

(* Steps with a call of one function.                                       *)
OperationReady(c, call) ==
  Prepared(Fresh(Operation(c, call))) /\ EndsWith(Fresh(Operation(c, call)), c)

ThroughReady(c, call) ==
  Prepared(Fresh(Through(c, call))) /\ EndsWith(Fresh(Through(c, call)), c)

LEMMA MarketReady ==
  ASSUME NEW c \in Clients, NEW fn \in MarketFunctions, NEW amount \in Nat
  PROVE /\ OperationReady(c, MarketCall(fn, amount))
        /\ ThroughReady(c, MarketCall(fn, amount))
        /\ ThroughReady(c, WithCallback(fn, amount))
<1>1. \A sender \in Users : /\ CallTyped(sender, MarketCall(fn, amount))
                            /\ CallTyped(sender, WithCallback(fn, amount))
  BY DEF CallTyped, MarketCall, WithCallback, MarketFunctions
<1> QED
  BY <1>1, OperationPrepared, ClientsTyped DEF OperationReady, ThroughReady

LEMMA ApproveReady ==
  ASSUME NEW c \in Clients
  PROVE /\ \A token \in Tokens : OperationReady(c, ApproveCall(token, Unlimited))
        /\ ThroughReady(c, ApproveCall("loan", 0))
        /\ ThroughReady(c, ApproveCall("collateral", Unlimited))
<1>1. \A token \in Tokens : CallTyped(c, ApproveCall(token, Unlimited))
  BY ClientsTyped, DriverAssumption DEF CallTyped, ApproveCall, MarketFunctions
<1>2. /\ CallTyped(TestContract, ApproveCall("loan", 0))
      /\ CallTyped(TestContract, ApproveCall("collateral", Unlimited))
  BY ClientsTyped, DriverAssumption DEF CallTyped, ApproveCall, MarketFunctions
<1> QED
  BY <1>1, <1>2, OperationPrepared DEF OperationReady, ThroughReady

LEMMA BalanceTyped ==
  ASSUME NEW c \in Clients, NEW token \in Tokens, NEW u \in Users, NEW amount \in Nat
  PROVE CallTyped(c, SetBalanceCall(token, u, amount))
BY ClientsTyped DEF CallTyped, SetBalanceCall, MarketFunctions

LEMMA OtherTyped ==
  ASSUME NEW c \in Clients
  PROVE /\ CallTyped(c, [fn |-> "setPrice", percent |-> 80])
        /\ \A fn \in {"set_addresses", "set_up_part_a", "enableIrm", "enableLltv",
                      "set_up_part_c", "resetCallbackFlags", "accrueInterest"} :
             CallTyped(c, [fn |-> fn])
BY ClientsTyped DEF CallTyped, MarketFunctions

LEMMA OtherReady ==
  ASSUME NEW c \in Clients
  PROVE /\ OperationReady(c, [fn |-> "setPrice", percent |-> 80])
        /\ \A fn \in {"set_addresses", "set_up_part_a", "enableIrm", "enableLltv",
                      "set_up_part_c", "resetCallbackFlags", "accrueInterest"} :
             OperationReady(c, [fn |-> fn])
BY OtherTyped, OperationPrepared DEF OperationReady

LEMMA QueryPrepared ==
  ASSUME NEW c \in Clients, NEW q, NEW r, NEW e
  PROVE Prepared(Fresh(Check(c, q, r, e))) /\ Prepared(Fresh(Read(c, q)))
<1>1. /\ Check(c, q, r, e).client = c /\ Check(c, q, r, e).do = "check"
      /\ Read(c, q).client = c /\ Read(c, q).do = "read"
  BY DEF Check, Read
<1> QED
  BY <1>1, FreshPrepared DEF StepTyped

LEMMA SinglePrepared ==
  ASSUME NEW step, StepTyped(step), step.do # "check"
  PROVE Prepared(<<step>>)
<1> DEFINE t == <<step>>
<1>1. t \in Seq({step}) /\ Len(t) = 1 /\ t[1] = step
  OBVIOUS
<1> HIDE DEF t
<1>2. Prepared(t)
  BY <1>1 DEF Prepared, IsScript
<1> QED
  BY <1>2 DEF t

LEMMA PairPrepared ==
  ASSUME NEW a, NEW b, StepTyped(a), a.do # "check", StepTyped(b), b.do # "check"
  PROVE Prepared(<<a, b>>)
<1> DEFINE t == <<a, b>>
<1>1. t \in Seq({a, b}) /\ Len(t) = 2 /\ t[1] = a /\ t[2] = b
  OBVIOUS
<1> HIDE DEF t
<1>2. \A i \in 1..Len(t) : i = 1 \/ i = 2
  BY <1>1
<1>3. Prepared(t)
  BY <1>1, <1>2 DEF Prepared, IsScript
<1> QED
  BY <1>3 DEF t

LEMMA FundPrepared ==
  ASSUME NEW token \in Tokens, NEW u \in Users, NEW amount \in Nat
  PROVE Prepared(Fund(token, u, amount))
BY BalanceTyped, ClientsTyped, OperationPrepared DEF Fund

LEMMA PartsPrepared ==
  ASSUME NEW c \in Clients, NEW amount \in Nat
  PROVE /\ Prepared(SupplyFrom(c, amount)) /\ EndsWith(SupplyFrom(c, amount), c)
        /\ Prepared(CollateralFrom(c, amount)) /\ EndsWith(CollateralFrom(c, amount), c)
        /\ Prepared(Borrowing(c, amount)) /\ EndsWith(Borrowing(c, amount), c)
<1>1. \A token \in Tokens : Prepared(Fund(token, c, amount))
  BY FundPrepared, ClientsTyped
<1>2. \A fn \in {"supply", "supplyCollateral", "borrow"} : OperationReady(c, MarketCall(fn, amount))
  BY MarketReady DEF MarketFunctions
<1>3. Prepared(SupplyFrom(c, amount)) /\ EndsWith(SupplyFrom(c, amount), c)
  BY <1>1, <1>2, ClientsTyped, JoinPrepared, JoinEnds DEF SupplyFrom, Prepared, OperationReady
<1>4. Prepared(CollateralFrom(c, amount)) /\ EndsWith(CollateralFrom(c, amount), c)
  BY <1>1, <1>2, ClientsTyped, JoinPrepared, JoinEnds DEF CollateralFrom, Prepared, OperationReady
<1>5. Prepared(Borrowing(c, amount)) /\ EndsWith(Borrowing(c, amount), c)
  BY <1>2 DEF Borrowing, OperationReady
<1> QED
  BY <1>3, <1>4, <1>5

(* The calls that the scripts make.                                         *)
LEMMA TokenStepsReady ==
  /\ OperationReady("supplier", ApproveCall("loan", Unlimited))
  /\ OperationReady("borrower", ApproveCall("loan", Unlimited))
  /\ OperationReady("liquidator", ApproveCall("loan", Unlimited))
  /\ OperationReady("supplier2", ApproveCall("loan", Unlimited))
  /\ OperationReady("borrower", ApproveCall("collateral", Unlimited))
  /\ ThroughReady("regular", ApproveCall("loan", 0))
  /\ ThroughReady("regular", ApproveCall("collateral", Unlimited))
BY ApproveReady, ClientsTyped

LEMMA PlainStepsReady ==
  /\ OperationReady("owner", [fn |-> "enableIrm"])
  /\ OperationReady("owner", [fn |-> "enableLltv"])
  /\ OperationReady("regular", [fn |-> "set_up_part_c"])
  /\ OperationReady("regular", [fn |-> "resetCallbackFlags"])
  /\ OperationReady("regular", [fn |-> "accrueInterest"])
  /\ OperationReady("regular", [fn |-> "setPrice", percent |-> 80])
BY OtherReady, ClientsTyped

LEMMA MarketStepsReady ==
  /\ OperationReady("supplier", MarketCall("withdraw", 500))
  /\ OperationReady("supplier", MarketCall("withdraw", 1000))
  /\ OperationReady("supplier2", MarketCall("withdraw", 500))
  /\ OperationReady("borrower", MarketCall("repay", 600))
  /\ OperationReady("borrower", MarketCall("withdrawCollateral", 1000))
  /\ OperationReady("borrower", MarketCall("supplyCollateral", 1000))
  /\ OperationReady("liquidator", MarketCall("liquidate", 100))
BY MarketReady, ClientsTyped DEF MarketFunctions

LEMMA WrapperStepsReady ==
  /\ ThroughReady("regular", MarketCall("supplyCollateral", 1000))
  /\ ThroughReady("regular", MarketCall("borrow", 600))
  /\ ThroughReady("regular", WithCallback("supply", 1000))
  /\ ThroughReady("regular", WithCallback("supplyCollateral", 1000))
  /\ ThroughReady("regular", WithCallback("repay", 600))
  /\ ThroughReady("regular", WithCallback("liquidate", 100))
BY MarketReady, ClientsTyped DEF MarketFunctions

(* The parts that several scripts share.                                    *)
LEMMA SharedPartsPrepared ==
  /\ Prepared(SupplyFrom("supplier", 1000)) /\ Prepared(SupplyFrom("supplier", 10000))
  /\ Prepared(SupplyFrom("supplier2", 500))
  /\ Prepared(CollateralFrom("borrower", 1000))
  /\ Prepared(Borrowing("borrower", 600)) /\ EndsWith(Borrowing("borrower", 600), "borrower")
  /\ Prepared(Borrowing("borrower", 700)) /\ Prepared(Borrowing("borrower", 500))
  /\ Prepared(Fund("loan", "liquidator", 1000))
  /\ Prepared(Fund("loan", TestContract, 1000))
  /\ Prepared(Fund("collateral", TestContract, 1000))
<1>1. 500 \in Nat /\ 600 \in Nat /\ 700 \in Nat /\ 1000 \in Nat /\ 10000 \in Nat
  OBVIOUS
<1>2. "liquidator" \in Users
  BY ClientsTyped
<1> QED
  BY <1>1, <1>2, PartsPrepared, FundPrepared, ClientsTyped

LEMMA ChecksReady ==
  \A q, r, e : Prepared(Fresh(Check("regular", q, r, e))) /\ Prepared(Fresh(Read("regular", q)))
               /\ Prepared(Fresh(Check("supplier", q, r, e)))
               /\ Prepared(Fresh(Check("supplier2", q, r, e)))
BY QueryPrepared, ClientsTyped

LEMMA SetUpPrepared == Prepared(SetUp \o Approvals)
<1> DEFINE first == Operation("regular", [fn |-> "set_addresses"])
           second == Operation("regular", [fn |-> "set_up_part_a"])
           t == <<first, second>>
<1>1. /\ StepTyped(first) /\ first.do # "check"
      /\ StepTyped(second) /\ second.do # "check"
  BY OtherTyped, ClientsTyped DEF Operation, StepTyped
<1>2. Prepared(t)
  <2> HIDE DEF first, second
  <2> QED
    BY <1>1, PairPrepared
<1>3. SetUp = t \o Fresh(Operation("owner", [fn |-> "enableIrm"]))
                \o Fresh(Operation("owner", [fn |-> "enableLltv"]))
                \o Fresh(Operation("regular", [fn |-> "set_up_part_c"]))
  BY DEF SetUp
<1> HIDE DEF first, second, t
<1>4. Prepared(SetUp)
  BY <1>2, <1>3, PlainStepsReady, JoinPrepared DEF OperationReady
<1>5. Prepared(Approvals)
  BY TokenStepsReady, JoinPrepared DEF Approvals, OperationReady
<1> QED
  BY <1>4, <1>5, JoinPrepared

(* The scripts of the ten scenarios.                                        *)
LEMMA CheckOnce ==
  ASSUME NEW s, NEW t, NEW c \in Clients, NEW q, NEW r, NEW e,
         Prepared(s), Prepared(t), EndsWith(t, c)
  PROVE Prepared(s \o t \o <<Check(c, q, r, e)>>)
<1>1. Prepared(s \o t) /\ EndsWith(s \o t, c)
  BY JoinPrepared, JoinEnds DEF Prepared
<1> QED
  BY <1>1, CheckPrepared

LEMMA SuppliersPrepared == Prepared(SimpleSupplyWithdraw) /\ Prepared(MultipleSuppliers)
<1>1. Prepared(SupplyFrom("supplier", 1000) \o Fresh(Check("regular", Market(0), "=", 1000)))
  BY SharedPartsPrepared, ChecksReady, JoinPrepared, ClientsTyped
<1>2. Prepared(SimpleSupplyWithdraw)
  BY <1>1, CheckOnce, MarketStepsReady, ClientsTyped DEF SimpleSupplyWithdraw, OperationReady, ThroughReady
<1>3. Prepared(SupplyFrom("supplier", 1000) \o SupplyFrom("supplier2", 500))
  BY SharedPartsPrepared, JoinPrepared, ClientsTyped
<1>4. Prepared(MultipleSuppliers)
  BY <1>3, ChecksReady, MarketStepsReady, JoinPrepared, ClientsTyped DEF MultipleSuppliers, OperationReady, ThroughReady
<1> QED
  BY <1>2, <1>4

LEMMA CyclePrepared == Prepared(CompleteBorrowRepayCycle)
<1>1. Prepared(SupplyFrom("supplier", 10000) \o CollateralFrom("borrower", 1000))
  BY SharedPartsPrepared, JoinPrepared, ClientsTyped
<1> DEFINE begun == SupplyFrom("supplier", 10000) \o CollateralFrom("borrower", 1000)
                      \o Borrowing("borrower", 600)
                      \o <<Check("borrower", BalanceOf("loan", "borrower"), "=", 600)>>
<1>2. Prepared(begun)
  BY <1>1, CheckOnce, SharedPartsPrepared, ClientsTyped
<1> DEFINE repaid == begun \o Fresh(Operation("borrower", MarketCall("repay", 600)))
<1> HIDE DEF begun
<1>3. Prepared(repaid)
  BY <1>2, MarketStepsReady, JoinPrepared, ClientsTyped
     DEF OperationReady, ThroughReady
<1> DEFINE ended == repaid
                      \o Fresh(Operation("borrower", MarketCall("withdrawCollateral", 1000)))
                      \o <<Check("borrower", BalanceOf("collateral", "borrower"), "=", 1000)>>
<1> HIDE DEF repaid
<1>4. Prepared(ended)
  BY <1>3, CheckOnce, MarketStepsReady, ClientsTyped
     DEF OperationReady, ThroughReady
<1>5. CompleteBorrowRepayCycle = ended \o Fresh(Check("regular", Market(64), "=", 0))
  BY DEF CompleteBorrowRepayCycle, ended, repaid, begun
<1> HIDE DEF ended
<1> QED
  BY <1>4, <1>5, ChecksReady, JoinPrepared, ClientsTyped

LEMMA LiquidationPrepared == Prepared(Liquidation)
<1> DEFINE lent == SupplyFrom("supplier", 10000) \o CollateralFrom("borrower", 1000)
                     \o Borrowing("borrower", 700)
                     \o Fresh(Operation("regular", [fn |-> "setPrice", percent |-> 80]))
                     \o Fund("loan", "liquidator", 1000)
                     \o <<Read("liquidator", BalanceOf("collateral", "liquidator"))>>
<1>1. Prepared(<<Read("liquidator", BalanceOf("collateral", "liquidator"))>>)
  BY SinglePrepared, ClientsTyped DEF Read, StepTyped
<1>2. Prepared(lent)
  BY <1>1, SharedPartsPrepared, MarketStepsReady, PlainStepsReady, JoinPrepared, ClientsTyped
     DEF OperationReady, ThroughReady
<1>3. Liquidation = lent \o Fresh(Operation("liquidator", MarketCall("liquidate", 100)))
        \o <<Check("liquidator", BalanceOf("collateral", "liquidator"), ">", "remembered")>>
  BY DEF Liquidation
<1> HIDE DEF lent
<1> QED
  BY <1>2, <1>3, CheckOnce, MarketStepsReady, PlainStepsReady, ClientsTyped
     DEF OperationReady, ThroughReady

LEMMA AccrualPrepared == Prepared(InterestAccrual)
<1>1. Prepared(SupplyFrom("supplier", 10000) \o CollateralFrom("borrower", 1000))
  BY SharedPartsPrepared, JoinPrepared, ClientsTyped
<1> QED
  BY <1>1, SharedPartsPrepared, PlainStepsReady, ChecksReady, JoinPrepared, ClientsTyped
     DEF InterestAccrual, OperationReady, ThroughReady

(* The loan of choice 5.                                                    *)
LargestLoan == (1000 * LLTV) \div WAD - 1

LEMMA LargestLoanNat == LargestLoan \in Nat
<1>1. LLTV \in Nat /\ WAD \in Nat \ {0} /\ 1000 * LLTV >= WAD
  BY MorphoAssumption, DriverAssumption
<1>2. \A x \in Nat, d \in Nat \ {0} : x >= d => x \div d - 1 \in Nat
  OBVIOUS
<1> QED
  BY <1>1, <1>2 DEF LargestLoan

LEMMA CapacityPrepared == Prepared(MaxBorrowCapacity)
<1> DEFINE inbox == ProcessInbox("regular")
           funded == Operation("borrower", SetBalanceCall("collateral", "borrower", 1000))
           last == ProcessInbox("borrower")
           refused == [Operation("borrower", MarketCall("borrow", 2))
                         EXCEPT !.do = "has to fail"]
<1>1. /\ StepTyped(inbox) /\ inbox.do # "check" /\ StepTyped(last) /\ last.do # "check"
      /\ StepTyped(funded) /\ funded.do # "check" /\ StepTyped(refused) /\ refused.do # "check"
  BY BalanceTyped, ClientsTyped DEF ProcessInbox, Operation, StepTyped
<1> HIDE DEF inbox, funded, last, refused
<1>2. Prepared(<<inbox, funded>>) /\ Prepared(<<last, refused>>)
  BY <1>1, PairPrepared
<1> DEFINE lent == SupplyFrom("supplier", 10000) \o <<inbox, funded>>
                     \o Fresh(Operation("borrower", MarketCall("supplyCollateral", 1000)))
                     \o Borrowing("borrower", (1000 * LLTV) \div WAD - 1)
<1>3. Prepared(lent)
  <2>1. Prepared(Borrowing("borrower", (1000 * LLTV) \div WAD - 1))
    <3>1. (1000 * LLTV) \div WAD - 1 \in Nat
      BY LargestLoanNat DEF LargestLoan
    <3> QED
      BY <3>1, PartsPrepared, ClientsTyped
  <2>2. Prepared(SupplyFrom("supplier", 10000) \o <<inbox, funded>>)
    BY <1>2, SharedPartsPrepared, JoinPrepared, ClientsTyped
  <2> QED
    BY <2>1, <2>2, MarketStepsReady, JoinPrepared, ClientsTyped
     DEF OperationReady, ThroughReady
<1>4. MaxBorrowCapacity = lent \o <<last, refused>>
  BY DEF MaxBorrowCapacity, lent, inbox, funded, last, refused
<1> HIDE DEF lent
<1> QED
  BY <1>2, <1>3, <1>4, JoinPrepared

LEMMA SupplyCallbackPrepared == Prepared(SupplyWithCallback)
<1> DEFINE armed == Fund("loan", TestContract, 1000)
                      \o Fresh(Through("regular", ApproveCall("loan", 0)))
                      \o Fresh(Operation("regular", [fn |-> "resetCallbackFlags"]))
<1>1. Prepared(armed)
  BY SharedPartsPrepared, TokenStepsReady, PlainStepsReady, WrapperStepsReady, JoinPrepared, ClientsTyped
     DEF OperationReady, ThroughReady
<1> DEFINE asked == armed \o Fresh(Through("regular", WithCallback("supply", 1000)))
                      \o <<Check("regular", Triggered("supply"), "=", 1)>>
<1> HIDE DEF armed
<1>2. Prepared(asked)
  BY <1>1, CheckOnce, TokenStepsReady, PlainStepsReady, WrapperStepsReady, ClientsTyped
     DEF OperationReady, ThroughReady
<1>3. SupplyWithCallback = asked \o Fresh(Check("regular", Market(0), "=", 1000))
  BY DEF SupplyWithCallback, asked, armed
<1> HIDE DEF asked
<1> QED
  BY <1>2, <1>3, ChecksReady, JoinPrepared, ClientsTyped

LEMMA CollateralCallbackPrepared == Prepared(SupplyCollateralWithCallback)
<1>1. Prepared(Fund("collateral", TestContract, 1000)
                 \o Fresh(Operation("regular", [fn |-> "resetCallbackFlags"])))
  BY SharedPartsPrepared, PlainStepsReady, WrapperStepsReady, JoinPrepared, ClientsTyped
     DEF OperationReady, ThroughReady
<1> QED
  BY <1>1, CheckOnce, PlainStepsReady, WrapperStepsReady, ClientsTyped DEF SupplyCollateralWithCallback, OperationReady, ThroughReady

LEMMA RepayCallbackPrepared == Prepared(RepayWithCallback)
<1> DEFINE funded == SupplyFrom("supplier", 10000)
                       \o Fund("collateral", TestContract, 1000)
                       \o Fresh(Through("regular", ApproveCall("collateral", Unlimited)))
<1>1. Prepared(funded)
  BY SharedPartsPrepared, TokenStepsReady, PlainStepsReady, WrapperStepsReady, JoinPrepared, ClientsTyped
     DEF OperationReady, ThroughReady
<1> DEFINE lent == funded \o Fresh(Through("regular", MarketCall("supplyCollateral", 1000)))
                     \o Fresh(Through("regular", MarketCall("borrow", 600)))
                     \o Fresh(Through("regular", ApproveCall("loan", 0)))
                     \o Fresh(Operation("regular", [fn |-> "resetCallbackFlags"]))
<1> HIDE DEF funded
<1>2. Prepared(lent)
  BY <1>1, TokenStepsReady, PlainStepsReady, WrapperStepsReady, JoinPrepared, ClientsTyped
     DEF OperationReady, ThroughReady
<1> DEFINE asked == lent \o Fresh(Through("regular", WithCallback("repay", 600)))
                      \o <<Check("regular", Triggered("repay"), "=", 1)>>
<1> HIDE DEF lent
<1>3. Prepared(asked)
  BY <1>2, CheckOnce, TokenStepsReady, PlainStepsReady, WrapperStepsReady, ClientsTyped
     DEF OperationReady, ThroughReady
<1>4. RepayWithCallback = asked \o Fresh(Check("regular", Market(64), "=", 0))
  BY DEF RepayWithCallback, asked, lent, funded
<1> HIDE DEF asked
<1> QED
  BY <1>3, <1>4, ChecksReady, JoinPrepared, ClientsTyped

LEMMA LiquidateCallbackPrepared == Prepared(LiquidateWithCallback)
<1> DEFINE lent == SupplyFrom("supplier", 10000) \o CollateralFrom("borrower", 1000)
                     \o Borrowing("borrower", 700)
                     \o Fresh(Operation("regular", [fn |-> "setPrice", percent |-> 80]))
           armed == lent \o Fund("loan", TestContract, 1000)
                      \o Fresh(Operation("regular", [fn |-> "resetCallbackFlags"]))
<1>1. Prepared(lent)
  BY SharedPartsPrepared, PlainStepsReady, WrapperStepsReady, JoinPrepared, ClientsTyped
     DEF OperationReady, ThroughReady
<1> HIDE DEF lent
<1>2. Prepared(armed)
  BY <1>1, SharedPartsPrepared, PlainStepsReady, WrapperStepsReady, JoinPrepared, ClientsTyped
     DEF OperationReady, ThroughReady
<1>3. LiquidateWithCallback = armed \o Fresh(Through("regular", WithCallback("liquidate", 100)))
        \o <<Check("regular", Triggered("liquidate"), "=", 1)>>
  BY DEF LiquidateWithCallback, lent
<1> HIDE DEF armed
<1> QED
  BY <1>2, <1>3, CheckOnce, PlainStepsReady, WrapperStepsReady, ClientsTyped
     DEF OperationReady, ThroughReady

LEMMA ScenariosPrepared ==
  Len(Scenarios) = 10 /\ \A i \in 1..10 : Prepared(Scenarios[i])
<1>1. Len(Scenarios) = 10
  BY DEF Scenarios
<1>2. ASSUME NEW i \in 1..10
      PROVE \/ i = 1 /\ Scenarios[i] = SimpleSupplyWithdraw
            \/ i = 2 /\ Scenarios[i] = CompleteBorrowRepayCycle
            \/ i = 3 /\ Scenarios[i] = Liquidation
            \/ i = 4 /\ Scenarios[i] = InterestAccrual
            \/ i = 5 /\ Scenarios[i] = MultipleSuppliers
            \/ i = 6 /\ Scenarios[i] = MaxBorrowCapacity
            \/ i = 7 /\ Scenarios[i] = SupplyWithCallback
            \/ i = 8 /\ Scenarios[i] = SupplyCollateralWithCallback
            \/ i = 9 /\ Scenarios[i] = RepayWithCallback
            \/ i = 10 /\ Scenarios[i] = LiquidateWithCallback
  BY DEF Scenarios
<1> QED
  BY <1>1, <1>2, SuppliersPrepared, CyclePrepared, LiquidationPrepared, AccrualPrepared,
     CapacityPrepared, SupplyCallbackPrepared, CollateralCallbackPrepared,
     RepayCallbackPrepared, LiquidateCallbackPrepared

LEMMA ScriptPrepared ==
  ASSUME choice \in TestChoices
  PROVE Prepared(Script)
<1>1. choice + 1 \in 1..10 /\ choice # NoChoice
  BY ScenariosPrepared DEF TestChoices, NoChoice
<1> QED
  BY <1>1, ScenariosPrepared, SetUpPrepared, JoinPrepared DEF Script

-----------------------------------------------------------------------------
(* The service that a step was asked of has seen every block.               *)
LastAsked == outcome = "running" /\ pc > 1 /\ Refreshing(Script[pc - 1])
               => UpToDate(Script[pc - 1].client)

(* At most one callback is open: a driver's call does not nest.             *)
Opened(cs) == cs = <<>> \/ \E call : cs = <<call>>

DriverInv ==
  /\ choice \in TestChoices \cup {NoChoice}
  /\ choice = NoChoice => pc = 0
  /\ pc \in Nat
  /\ view = [c \in Clients |-> view[c]]
  /\ calls # <<>> => pc \in DOMAIN Script /\ Step.do = "operation"
  /\ Opened(calls)
  /\ LastAsked

LEMMA CommitSees ==
  ASSUME NEW c \in Clients, view = [d \in Clients |-> view[d]], Commit(c)
  PROVE view'[c].height = height' /\ view' = [d \in Clients |-> view'[d]]
BY DEF Commit, Latest

LEMMA NoScript == choice = NoChoice => DOMAIN Script = {}
<1> SUFFICES ASSUME choice = NoChoice PROVE DOMAIN Script = {}
  OBVIOUS
<1>1. Script = <<>>
  BY DEF Script
<1> QED
  BY <1>1

LEMMA ExecuteOpens ==
  ASSUME NEW sender, NEW call, calls = <<>>, Execute(sender, call)
  PROVE Opened(calls')
<1>1. CASE SetUpCall(sender, call)
  BY <1>1 DEF SetUpCall, Opened
<1>2. CASE TokenCall(sender, call)
  BY <1>2 DEF TokenCall, Opened
<1>3. CASE OtherCall(call)
  BY <1>3 DEF OtherCall, SetPrice, Opened, vars
<1>4. CASE CallMorpho(sender, call)
  <2>1. ASSUME NEW bs, NEW token, NEW amount, NEW data, Collect(bs, token, sender, amount, data)
        PROVE Opened(calls')
    BY <2>1 DEF Collect, Opened
  <2>2. CASE Supply(sender, call.amount, 0, sender, call.data)
    BY <2>1, <2>2 DEF Supply
  <2>3. CASE Withdraw(sender, call.amount, 0, sender, sender)
    BY <2>3 DEF Withdraw, Opened
  <2>4. CASE Borrow(sender, call.amount, 0, sender, sender)
    BY <2>4 DEF Borrow, Opened
  <2>5. CASE Repay(sender, call.amount, 0, sender, call.data)
    BY <2>1, <2>5 DEF Repay
  <2>6. CASE SupplyCollateral(sender, call.amount, sender, call.data)
    BY <2>1, <2>6 DEF SupplyCollateral
  <2>7. CASE WithdrawCollateral(sender, call.amount, sender, sender)
    BY <2>7 DEF WithdrawCollateral, Opened
  <2>8. CASE Liquidate(sender, "borrower", call.amount, 0, call.data)
    BY <2>1, <2>8 DEF Liquidate
  <2>9. CASE AccrueInterest
    BY <2>9 DEF AccrueInterest, Opened
  <2> QED
    BY <1>4, <2>2, <2>3, <2>4, <2>5, <2>6, <2>7, <2>8, <2>9 DEF CallMorpho
<1> QED
  BY <1>1, <1>2, <1>3, <1>4 DEF Execute

LEMMA CallbackCloses ==
  ASSUME Opened(calls), EndCallback
  PROVE calls' = <<>>
BY DEF Opened, EndCallback, Front

LEMMA StepOfClient ==
  ASSUME choice \in TestChoices, pc \in DOMAIN Script
  PROVE Step.client \in Clients /\ pc > 0
BY ScriptPrepared DEF Prepared, IsScript, StepTyped, Step

LEMMA InitDriver == DriverInit => DriverInv
<1> SUFFICES ASSUME DriverInit PROVE DriverInv
  OBVIOUS
<1> QED
  BY DEF DriverInit, DriverInv, LastAsked, Opened, Init

(* The step of the script is done, or the script stays where it is.         *)
LEMMA StepDone ==
  ASSUME DriverInv, choice' = choice, pc \in DOMAIN Script, pc' = pc + 1, calls' = <<>>,
         view' = [c \in Clients |-> view'[c]],
         Refreshing(Step) => view'[Step.client].height = height'
  PROVE DriverInv'
<1>1. choice # NoChoice /\ Script' = Script
  BY NoScript DEF Script
<1>2. pc \in Nat /\ choice \in TestChoices
  BY <1>1 DEF DriverInv
<1>3. Script'[pc' - 1] = Step
  BY <1>1, <1>2 DEF Step
<1>4. LastAsked'
  BY <1>3 DEF LastAsked, UpToDate
<1> QED
  BY <1>1, <1>2, <1>4 DEF DriverInv, Opened

LEMMA StepWaits ==
  ASSUME DriverInv, choice' = choice, pc' = pc, view' = view,
         calls' # <<>> => calls # <<>> \/ (pc \in DOMAIN Script /\ Step.do = "operation"),
         Opened(calls'),
         outcome' # "running" \/ (outcome' = outcome /\ height' = height)
  PROVE DriverInv'
<1>1. Script' = Script
  BY DEF Script
<1>2. LastAsked'
  BY <1>1 DEF LastAsked, UpToDate, DriverInv
<1> QED
  BY <1>1, <1>2 DEF DriverInv, Step

LEMMA DriverStep == DriverInv /\ [DriverNext]_driverVars => DriverInv'
<1> SUFFICES ASSUME DriverInv, [DriverNext]_driverVars PROVE DriverInv'
  OBVIOUS
<1>0. /\ choice \in TestChoices \cup {NoChoice}
      /\ choice = NoChoice => pc = 0
      /\ pc \in Nat
      /\ view = [c \in Clients |-> view[c]]
      /\ calls # <<>> => pc \in DOMAIN Script /\ Step.do = "operation"
      /\ Opened(calls)
      /\ LastAsked
  BY DEF DriverInv
<1>a. pc \in DOMAIN Script => Step.client \in Clients
  <2>1. pc \in DOMAIN Script => choice # NoChoice
    BY NoScript
  <2> QED
    BY <1>0, <2>1, StepOfClient
<1>1. CASE Main
  <2>1. calls = <<>> /\ pc = 0
    BY <1>0, <1>1 DEF Main, Script
  <2> QED
    BY <1>0, <1>1, <2>1 DEF Main, DriverInv, LastAsked, Opened, vars
<1>2. CASE ReadAndPublishContract
  <2>1. /\ choice \in TestChoices /\ choice # NoChoice
        /\ pc' \in {0, 1} /\ choice' = choice /\ calls' = calls
    BY <1>0, <1>2 DEF ReadAndPublishContract, Continue, Fail, vars
  <2>2. calls = <<>>
    <3>1. 0 \notin DOMAIN Script
      BY <2>1, ScriptPrepared DEF Prepared, IsScript
    <3> QED
      BY <1>0, <1>2, <3>1 DEF ReadAndPublishContract
  <2>3. view' = [c \in Clients |-> view'[c]]
    BY <1>0, <1>2, CommitSees, ClientsTyped DEF ReadAndPublishContract
  <2> QED
    BY <2>1, <2>2, <2>3 DEF DriverInv, LastAsked, Opened
<1>3. CASE ProcessInboxStep
  BY <1>0, <1>3, <1>a, StepDone
     DEF ProcessInboxStep, Running, Continue, vars, Latest
<1>4. CASE RunOperation
  <2>1. CASE calls' = <<>>
    BY <1>0, <1>4, <1>a, <2>1, StepDone, CommitSees DEF RunOperation, Running, Continue
  <2>2. CASE calls' # <<>>
    BY <1>4, <2>2, StepWaits, ExecuteOpens DEF RunOperation, Running
  <2> QED
    BY <2>1, <2>2
<1>5. CASE CallbackAndCollect
  <2>1. pc \in DOMAIN Script
    BY <1>0, <1>5 DEF CallbackAndCollect
  <2> QED
    BY <1>0, <1>5, <1>a, <2>1, StepDone, CommitSees, CallbackCloses DEF CallbackAndCollect, Continue
<1>6. CASE Revert
  BY <1>0, <1>6, StepWaits DEF Revert, Fail, vars
<1>7. CASE RefuseProposal
  BY <1>0, <1>7, StepWaits DEF RefuseProposal, Fail, vars
<1>8. CASE RunRefusedOperation
  BY <1>0, <1>8, StepWaits, StepDone DEF RunRefusedOperation, Running, Refreshing, Fail, Continue, vars
<1>9. CASE ReadStep
  BY <1>0, <1>9, StepDone DEF ReadStep, Running, Refreshing, Continue, vars
<1>10. CASE CheckStep
  BY <1>0, <1>10, StepWaits, StepDone DEF CheckStep, Running, Refreshing, Fail, Continue, vars
<1>11. CASE Terminate
  BY <1>0, <1>11, StepWaits DEF Terminate, vars
<1>12. CASE ClockAdvances
  BY <1>0, <1>12, StepWaits DEF ClockAdvances, TimePasses
<1>13. CASE PreparationFails
  BY <1>0, <1>13, StepWaits DEF PreparationFails, Fail, vars
<1>14. CASE UNCHANGED driverVars
  BY <1>0, <1>14, StepWaits DEF driverVars, vars, scriptVars, testVars
<1> QED
  BY <1>1, <1>2, <1>3, <1>4, <1>5, <1>6, <1>7, <1>8, <1>9, <1>10, <1>11, <1>12, <1>13, <1>14
     DEF DriverNext

LEMMA ChecksPrepared == DriverInv => ChecksSeeLatestBlock
<1> SUFFICES ASSUME DriverInv, outcome = "running", pc \in DOMAIN Script, Step.do = "check"
             PROVE UpToDate(Step.client)
  BY DEF ChecksSeeLatestBlock
<1>1. choice \in TestChoices
  BY NoScript DEF DriverInv
<1>2. /\ pc > 1 /\ Script[pc - 1].client = Step.client /\ Refreshing(Script[pc - 1])
  BY <1>1, ScriptPrepared DEF Prepared, IsScript, Step
<1> QED
  BY <1>2 DEF DriverInv, LastAsked

(* No assertion of a test fails or passes by an old answer.                 *)
THEOREM ChecksFresh == DriverSpec => []ChecksSeeLatestBlock
BY InitDriver, DriverStep, ChecksPrepared, PTL DEF DriverSpec

-----------------------------------------------------------------------------
(* The types of the market hold along a test too, and no approval of loan   *)
(* tokens by the test contract survives a step.                             *)
Allowances == [Tokens -> [Users -> Nat]]

DriverTypes == MorphoInv /\ allowance \in Allowances /\ allowance["loan"][TestContract] = 0

LEMMA TokensOfMorpho == Tokens = {"loan", "collateral"} /\ Users \subseteq Holders
BY DEF Tokens, Holders

LEMMA ChargeTypes ==
  ASSUME NEW sender \in Users, balance \in Balances, balance' \in Balances,
         allowance \in Allowances, Charge(sender)
  PROVE /\ allowance' \in Allowances
        /\ \A token \in Tokens : allowance[token][TestContract] = 0 =>
             allowance'[token][TestContract] = 0
<1> DEFINE paid == [token \in Tokens |->
                      ZeroFloorSub(balance[token][sender], balance'[token][sender])]
<1>1. \A token \in Tokens : paid[token] \in Nat
  <2>1. \A token \in Tokens : balance[token][sender] \in Nat /\ balance'[token][sender] \in Nat
    BY TokensOfMorpho DEF Balances
  <2> QED
    BY <2>1 DEF ZeroFloorSub
<1>2. /\ \A token \in Tokens : paid[token] <= allowance[token][sender]
      /\ allowance' = [token \in Tokens |->
                         [allowance[token] EXCEPT ![sender] = allowance[token][sender] - paid[token]]]
  BY DEF Charge
<1> HIDE DEF paid
<1>3. ASSUME NEW token \in Tokens
      PROVE allowance'[token] \in [Users -> Nat]
  <2>1. allowance[token] \in [Users -> Nat] /\ allowance[token][sender] - paid[token] \in Nat
    BY <1>1, <1>2 DEF Allowances
  <2> QED
    BY <1>2, <2>1
<1>4. ASSUME NEW token \in Tokens, allowance[token][TestContract] = 0
      PROVE allowance'[token][TestContract] = 0
  <2>1. TestContract \in Users /\ allowance[token] \in [Users -> Nat]
    BY ClientsTyped DEF Allowances
  <2>2. allowance'[token] =
          [allowance[token] EXCEPT ![sender] = allowance[token][sender] - paid[token]]
    BY <1>2
  <2>3. CASE sender = TestContract
    <3>1. paid[token] = 0
      BY <1>1, <1>2, <1>4, <2>3
    <3> QED
      BY <1>4, <2>1, <2>2, <2>3, <3>1
  <2>4. CASE sender # TestContract
    BY <1>4, <2>1, <2>2, <2>4
  <2> QED
    BY <2>3, <2>4
<1>5. allowance' = [token \in Tokens |-> allowance'[token]]
  BY <1>2
<1> QED
  BY <1>3, <1>4, <1>5 DEF Allowances

LEMMA CallMorphoTypes ==
  ASSUME DriverTypes, NEW sender, NEW call, CallTyped(sender, call), CallMorpho(sender, call)
  PROVE MorphoInv'
<1>1. /\ sender \in Users /\ sender \in Holders /\ 0 \in Nat
      /\ call.fn \in MarketFunctions => call.amount \in Nat
  BY DEF CallTyped, Holders
<1>2. "borrower" \in Users /\ MorphoInv
  BY ClientsTyped DEF DriverTypes
<1>3. CASE call.fn = "supply" /\ Supply(sender, call.amount, 0, sender, call.data)
  BY <1>1, <1>2, <1>3, SupplyKeeps DEF MarketFunctions
<1>4. CASE call.fn = "withdraw" /\ Withdraw(sender, call.amount, 0, sender, sender)
  BY <1>1, <1>2, <1>4, WithdrawKeeps DEF MarketFunctions
<1>5. CASE call.fn = "borrow" /\ Borrow(sender, call.amount, 0, sender, sender)
  BY <1>1, <1>2, <1>5, BorrowKeeps DEF MarketFunctions
<1>6. CASE call.fn = "repay" /\ Repay(sender, call.amount, 0, sender, call.data)
  BY <1>1, <1>2, <1>6, RepayKeeps DEF MarketFunctions
<1>7. CASE call.fn = "supplyCollateral" /\ SupplyCollateral(sender, call.amount, sender, call.data)
  BY <1>1, <1>2, <1>7, SupplyCollateralKeeps DEF MarketFunctions
<1>8. CASE call.fn = "withdrawCollateral" /\ WithdrawCollateral(sender, call.amount, sender, sender)
  BY <1>1, <1>2, <1>8, WithdrawCollateralKeeps DEF MarketFunctions
<1>9. CASE call.fn = "liquidate" /\ Liquidate(sender, "borrower", call.amount, 0, call.data)
  BY <1>1, <1>2, <1>9, LiquidateKeeps DEF MarketFunctions
<1>10. CASE call.fn = "accrueInterest" /\ AccrueInterest
  <2>1. fee' \in Fees \cup {0}
    BY <1>2, <1>10 DEF AccrueInterest, MorphoInv, TypeOK
  <2> QED
    BY <1>2, <1>10, <2>1, AccrualKeeps DEF AccrueInterest
<1> QED
  BY <1>3, <1>4, <1>5, <1>6, <1>7, <1>8, <1>9, <1>10 DEF CallMorpho

LEMMA ExecuteTypes ==
  ASSUME DriverTypes, NEW sender, NEW call, CallTyped(sender, call), Execute(sender, call)
  PROVE DriverTypes'
<1>0. MorphoInv /\ allowance \in Allowances /\ allowance["loan"][TestContract] = 0
  BY DEF DriverTypes
<1>1. CASE SetUpCall(sender, call)
  <2>1. price' \in Prices
    BY <1>0, <1>1, DriverAssumption DEF SetUpCall, MorphoInv, TypeOK
  <2>2. MorphoInv'
    BY <1>0, <1>1, <2>1 DEF SetUpCall, MorphoInv, TypeOK, BorrowWithinSupply
  <2> QED
    BY <1>0, <1>1, <2>2 DEF SetUpCall, DriverTypes
<1>2. CASE TokenCall(sender, call) /\ call.fn = "setBalance"
  <2>1. /\ call.token \in Tokens /\ call.owner \in Holders /\ call.amount \in Nat
        /\ balance' = [balance EXCEPT ![call.token][call.owner] = call.amount]
        /\ UNCHANGED <<position, market, fee, feeRecipient, isAuthorized, growth, price, calls,
                       allowance>>
    BY <1>2, TokensOfMorpho DEF CallTyped, TokenCall
  <2>2. balance' \in [{"loan", "collateral"} -> [Holders -> Nat]]
    <3>1. balance \in [{"loan", "collateral"} -> [Holders -> Nat]]
      BY <1>0 DEF MorphoInv, TypeOK
    <3> QED
      BY <2>1, <3>1, TokensOfMorpho
  <2>3. MorphoInv'
    BY <1>0, <2>1, <2>2 DEF MorphoInv, TypeOK, BorrowWithinSupply
  <2> QED
    BY <1>0, <2>1, <2>3 DEF DriverTypes
<1>3. CASE TokenCall(sender, call) /\ call.fn = "approve"
  <2>1. /\ call.token \in Tokens /\ sender \in Users /\ call.amount \in Nat
        /\ sender = TestContract /\ call.token = "loan" => call.amount = 0
        /\ allowance' = [allowance EXCEPT ![call.token][sender] = call.amount]
        /\ UNCHANGED <<position, market, fee, feeRecipient, isAuthorized, growth, price, calls,
                       balance>>
    BY <1>3 DEF CallTyped, TokenCall
  <2>2. allowance' \in Allowances /\ allowance'["loan"][TestContract] = 0
    BY <1>0, <2>1, ClientsTyped DEF Allowances
  <2>3. MorphoInv'
    BY <1>0, <2>1 DEF MorphoInv, TypeOK, BorrowWithinSupply
  <2> QED
    BY <2>2, <2>3 DEF DriverTypes
<1>4. CASE CallMorpho(sender, call)
  <2>1. MorphoInv'
    BY <1>4, CallMorphoTypes
  <2>2. balance \in Balances /\ balance' \in Balances
    BY <1>0, <2>1 DEF MorphoInv, TypeOK, Balances
  <2>3. sender \in Users /\ Charge(sender)
    BY <1>4 DEF CallTyped, CallMorpho
  <2> QED
    BY <1>0, <2>1, <2>2, <2>3, ChargeTypes, ClientsTyped DEF DriverTypes
<1>5. CASE OtherCall(call)
  <2>1. UNCHANGED <<position, market, fee, feeRecipient, isAuthorized, growth, balance, calls,
                    allowance>>
    BY <1>5 DEF OtherCall, SetPrice, testVars, vars
  <2>2. price' \in Prices
    BY <1>0, <1>5, DriverAssumption DEF OtherCall, SetPrice, vars, CallTyped, MorphoInv, TypeOK
  <2>3. MorphoInv'
    BY <1>0, <2>1, <2>2 DEF MorphoInv, TypeOK, BorrowWithinSupply
  <2> QED
    BY <1>0, <2>1, <2>3 DEF DriverTypes
<1> QED
  BY <1>1, <1>2, <1>3, <1>4, <1>5 DEF Execute, TokenCall

LEMMA CallbackUses ==
  ASSUME DriverTypes, CallbackAndCollect
  PROVE \E token \in Tokens, u \in Users : allowance' = [allowance EXCEPT ![token][u] = 0]
<1>0. MorphoInv /\ allowance \in Allowances
  BY DEF DriverTypes
<1> DEFINE call == Last(calls)
<1>2. call.token \in Tokens /\ call.sender \in Users /\ call.amount \in Nat
  <2>1. calls \in Seq(Calls) /\ calls # <<>>
    BY <1>0 DEF MorphoInv, TypeOK, CallbackAndCollect
  <2>2. calls[Len(calls)] \in Calls
    BY <2>1
  <2> QED
    BY <2>2, TokensOfMorpho DEF Last, Calls
<1>3. allowance' = [OnMorpho(call) EXCEPT ![call.token][call.sender] =
                      OnMorpho(call)[call.token][call.sender] - call.amount]
  BY DEF CallbackAndCollect
<1>4. OnMorpho(call) = [allowance EXCEPT ![call.token][call.sender] = call.amount]
  BY DEF OnMorpho
<1> HIDE DEF call
<1>5. OnMorpho(call) \in Allowances /\ OnMorpho(call)[call.token][call.sender] = call.amount
  BY <1>0, <1>2, <1>4 DEF Allowances
<1>6. allowance' = [OnMorpho(call) EXCEPT ![call.token][call.sender] = 0]
  <2>1. OnMorpho(call)[call.token][call.sender] - call.amount = 0
    BY <1>2, <1>5
  <2> QED
    BY <1>3, <2>1, Zenon
<1>7. allowance' = [allowance EXCEPT ![call.token][call.sender] = 0]
  BY <1>0, <1>2, <1>4, <1>6 DEF Allowances
<1> QED
  BY <1>2, <1>7

LEMMA CallbackTypes ==
  ASSUME DriverTypes, CallbackAndCollect
  PROVE DriverTypes'
<1>0. MorphoInv /\ allowance \in Allowances /\ allowance["loan"][TestContract] = 0
  BY DEF DriverTypes
<1>1. MorphoInv'
  BY <1>0, EndCallbackKeeps DEF CallbackAndCollect
<1>2. allowance' \in Allowances /\ allowance'["loan"][TestContract] = 0
  BY <1>0, CallbackUses, ClientsTyped DEF Allowances
<1> QED
  BY <1>1, <1>2 DEF DriverTypes

LEMMA OperationTyped ==
  ASSUME DriverInv, pc \in DOMAIN Script, Step.do = "operation"
  PROVE CallTyped(Step.sender, Step.call)
<1>1. choice \in TestChoices
  BY NoScript DEF DriverInv
<1> QED
  BY <1>1, ScriptPrepared DEF Prepared, IsScript, StepTyped, Step

LEMMA InitDriverTypes == DriverInit => DriverTypes
BY InitMorphoInv, ClientsTyped DEF DriverInit, DriverTypes, Allowances

LEMMA TypesStay ==
  ASSUME DriverTypes, UNCHANGED <<position, market, fee, feeRecipient, isAuthorized, price,
                                  balance, calls, allowance>>,
         growth' \in Growths \cup {0}
  PROVE DriverTypes'
BY DEF DriverTypes, MorphoInv, TypeOK, BorrowWithinSupply

LEMMA DriverTypesStep == DriverInv /\ DriverTypes /\ [DriverNext]_driverVars => DriverTypes'
<1> SUFFICES ASSUME DriverInv, DriverTypes, [DriverNext]_driverVars PROVE DriverTypes'
  OBVIOUS
<1>0. growth \in Growths \cup {0}
  BY DEF DriverTypes, MorphoInv, TypeOK
<1>1. CASE RunOperation
  <2>1. CallTyped(Step.sender, Step.call)
    BY <1>1, OperationTyped DEF RunOperation, Running
  <2>2. Execute(Step.sender, Step.call)
    BY <1>1 DEF RunOperation
  <2> QED
    BY <2>1, <2>2, ExecuteTypes
<1>2. CASE CallbackAndCollect
  BY <1>2, CallbackTypes
<1>3. CASE ClockAdvances
  BY <1>3, TypesStay DEF ClockAdvances, TimePasses, testVars
<1>4. CASE UNCHANGED <<vars, testVars>>
  BY <1>0, <1>4, TypesStay DEF vars, testVars
<1>5. \/ Main \/ PreparationFails \/ ReadAndPublishContract \/ ProcessInboxStep \/ Revert
      \/ RefuseProposal \/ RunRefusedOperation \/ ReadStep \/ CheckStep \/ Terminate \/ UNCHANGED driverVars
      => UNCHANGED <<vars, testVars>>
  BY DEF Main, PreparationFails, ReadAndPublishContract, ProcessInboxStep, Revert, RefuseProposal,
         RunRefusedOperation, ReadStep, CheckStep, Terminate, driverVars, scriptVars
<1> QED
  BY <1>1, <1>2, <1>3, <1>4, <1>5 DEF DriverNext

-----------------------------------------------------------------------------
(* What the services have seen.                                             *)

ViewsTrue ==
  /\ height \in Nat
  /\ \A c \in Clients : view[c].height \in Nat /\ view[c].height <= height
  /\ calls = <<>> => \A c \in Clients : UpToDate(c) => view[c].market = market

LEMMA CommitTrue ==
  ASSUME ViewsTrue, NEW c \in Clients, view = [d \in Clients |-> view[d]], Commit(c)
  PROVE ViewsTrue'
<1>1. /\ height' = height + 1 /\ height \in Nat
      /\ \A d \in Clients : view[d].height \in Nat /\ view[d].height <= height
  BY DEF ViewsTrue, Commit
<1>2. /\ view'[c].height = height + 1 /\ view'[c].market = market'
      /\ \A d \in Clients : d # c => view'[d] = view[d]
  BY DEF Commit, Latest
<1> QED
  BY <1>1, <1>2 DEF ViewsTrue, UpToDate

LEMMA ViewsStay ==
  ASSUME ViewsTrue, UNCHANGED <<height, view>>, calls' = <<>> => calls = <<>> /\ market' = market
  PROVE ViewsTrue'
BY DEF ViewsTrue, UpToDate

LEMMA InitViewsTrue == DriverInit => ViewsTrue
BY DEF DriverInit, ViewsTrue, UpToDate

LEMMA ViewsStep == DriverInv /\ ViewsTrue /\ [DriverNext]_driverVars => ViewsTrue'
<1> SUFFICES ASSUME DriverInv, ViewsTrue, [DriverNext]_driverVars PROVE ViewsTrue'
  OBVIOUS
<1>0. view = [c \in Clients |-> view[c]]
  BY DEF DriverInv
<1>a. pc \in DOMAIN Script => Step.client \in Clients
  <2>1. pc \in DOMAIN Script => choice \in TestChoices
    BY NoScript DEF DriverInv
  <2> QED
    BY <2>1, StepOfClient
<1>1. CASE RunOperation
  <2>1. CASE calls' = <<>>
    BY <1>0, <1>1, <1>a, <2>1, CommitTrue DEF RunOperation, Running
  <2>2. CASE calls' # <<>>
    BY <1>1, <2>2, ViewsStay DEF RunOperation
  <2> QED
    BY <2>1, <2>2
<1>2. CASE CallbackAndCollect
  <2>1. pc \in DOMAIN Script
    BY <1>2 DEF DriverInv, CallbackAndCollect
  <2> QED
    BY <1>0, <1>2, <1>a, <2>1, CommitTrue DEF CallbackAndCollect
<1>3. CASE ProcessInboxStep
  <2>1. Step.client \in Clients
    BY <1>3, <1>a DEF ProcessInboxStep, Running
  <2>2. /\ height' = height /\ market' = market
        /\ view'[Step.client].height = height /\ view'[Step.client].market = market
        /\ \A d \in Clients : d # Step.client => view'[d] = view[d]
    BY <1>0, <1>3, <2>1 DEF ProcessInboxStep, Latest, vars
  <2>3. calls' = calls
    BY <1>3 DEF ProcessInboxStep, vars
  <2> QED
    BY <2>1, <2>2, <2>3 DEF ViewsTrue, UpToDate
<1>4. CASE ReadAndPublishContract
  <2>1. CASE Commit("regular")
    BY <1>0, <2>1, CommitTrue, ClientsTyped
  <2>2. CASE UNCHANGED <<height, view>>
    BY <1>4, <2>2, ViewsStay DEF ReadAndPublishContract, vars
  <2> QED
    BY <1>4, <2>1, <2>2 DEF ReadAndPublishContract
<1>5. CASE ClockAdvances
  BY <1>5, ViewsStay DEF ClockAdvances, TimePasses
<1>6. CASE UNCHANGED <<vars, height, view>>
  BY <1>6, ViewsStay DEF vars
<1>7. \/ Main \/ PreparationFails \/ Revert \/ RefuseProposal
      \/ RunRefusedOperation \/ ReadStep \/ CheckStep \/ Terminate \/ UNCHANGED driverVars
      => UNCHANGED <<vars, height, view>>
  BY DEF Main, PreparationFails, Revert, RefuseProposal,
         RunRefusedOperation, ReadStep, CheckStep, Terminate, driverVars, scriptVars
<1> QED
  BY <1>1, <1>2, <1>3, <1>4, <1>5, <1>6, <1>7 DEF DriverNext

-----------------------------------------------------------------------------
(* The loan of a scenario that repays exactly.                              *)

DebtFunctions == {"borrow", "repay", "liquidate"}

IsDebtStep(step) == step.do = "operation" /\ step.call.fn \in DebtFunctions

DebtCall(step, debtor, fn) ==
  /\ step.do = "operation" /\ step.sender = debtor
  /\ step.call.fn = fn /\ step.call.amount = 600

(* Step b takes the loan, step r pays it back; 0 is for never.              *)
Debts(s, debtor, b, r) ==
  /\ b \in 0..Len(s) /\ r \in 0..Len(s)
  /\ b # 0 => DebtCall(s[b], debtor, "borrow")
  /\ r # 0 => DebtCall(s[r], debtor, "repay")
  /\ \A i \in 1..Len(s) : IsDebtStep(s[i]) => i \in {b, r}

LEMMA JoinDebts ==
  ASSUME NEW s, NEW t, IsScript(s), IsScript(t), NEW d, NEW b, NEW r, NEW e, NEW f,
         Debts(s, d, b, r), Debts(t, d, e, f), b = 0 \/ e = 0, r = 0 \/ f = 0
  PROVE Debts(s \o t, d, IF e = 0 THEN b ELSE Len(s) + e, IF f = 0 THEN r ELSE Len(s) + f)
<1>1. PICK S : s \in Seq(S)
  BY DEF IsScript
<1>2. PICK T : t \in Seq(T)
  BY DEF IsScript
<1>3. /\ Len(s \o t) = Len(s) + Len(t) /\ Len(s) \in Nat /\ Len(t) \in Nat
      /\ \A i \in 1..Len(s) : (s \o t)[i] = s[i]
      /\ \A i \in 1..Len(t) : (s \o t)[Len(s) + i] = t[i]
  BY <1>1, <1>2, JoinParts
<1> DEFINE j == s \o t
           n == Len(s)
           x == IF e = 0 THEN b ELSE n + e
           y == IF f = 0 THEN r ELSE n + f
<1>4. x \in 0..Len(j) /\ y \in 0..Len(j)
  BY <1>3 DEF Debts
<1>5. x # 0 => DebtCall(j[x], d, "borrow")
  <2>1. CASE e = 0
    BY <1>3, <2>1 DEF Debts
  <2>2. CASE e # 0
    <3>1. e \in 1..Len(t) /\ DebtCall(t[e], d, "borrow")
      BY <2>2, <1>3 DEF Debts
    <3> QED
      BY <1>3, <2>2, <3>1
  <2> QED
    BY <2>1, <2>2
<1>6. y # 0 => DebtCall(j[y], d, "repay")
  <2>1. CASE f = 0
    BY <1>3, <2>1 DEF Debts
  <2>2. CASE f # 0
    <3>1. f \in 1..Len(t) /\ DebtCall(t[f], d, "repay")
      BY <2>2, <1>3 DEF Debts
    <3> QED
      BY <1>3, <2>2, <3>1
  <2> QED
    BY <2>1, <2>2
<1>7. ASSUME NEW i \in 1..Len(j), IsDebtStep(j[i])
      PROVE i \in {x, y}
  <2>1. CASE i \in 1..n
    <3>1. IsDebtStep(s[i])
      BY <1>3, <1>7, <2>1
    <3>2. i \in {b, r} /\ i # 0
      BY <2>1, <3>1 DEF Debts
    <3> QED
      BY <3>2
  <2>2. CASE i \notin 1..n
    <3>0. i - n \in 1..Len(t) /\ i = n + (i - n)
      BY <1>3, <2>2
    <3>1. PICK k \in 1..Len(t) : i = n + k
      BY <3>0
    <3>2. IsDebtStep(t[k])
      BY <1>3, <1>7, <3>1
    <3>3. k \in {e, f} /\ k # 0
      BY <3>1, <3>2, <1>3 DEF Debts
    <3> QED
      BY <3>1, <3>3
  <2> QED
    BY <2>1, <2>2
<1> QED
  BY <1>4, <1>5, <1>6, <1>7 DEF Debts

(* Parts of such a script: without the loan, taking it, paying it back,     *)
(* and both.                                                                *)
Debtless(s) == IsScript(s) /\ \A d : Debts(s, d, 0, 0)

Takes(s, d) == IsScript(s) /\ \E b \in Nat \ {0} : Debts(s, d, b, 0)

PaysBack(s, d) == IsScript(s) /\ \E r \in Nat \ {0} : Debts(s, d, 0, r)

Cycles(s, d) == IsScript(s) /\ \E b \in Nat \ {0}, r \in Nat \ {0} : b < r /\ Debts(s, d, b, r)

LEMMA ScriptLength ==
  ASSUME NEW s, IsScript(s)
  PROVE Len(s) \in Nat
BY DEF IsScript

LEMMA JoinDebtless ==
  ASSUME NEW s, NEW t, Debtless(t)
  PROVE /\ Debtless(s) => Debtless(s \o t)
        /\ \A d : Takes(s, d) => Takes(s \o t, d)
        /\ \A d : Cycles(s, d) => Cycles(s \o t, d)
<1>1. ASSUME IsScript(s), NEW d, NEW b, NEW r, Debts(s, d, b, r)
      PROVE Debts(s \o t, d, b, r)
  <2>1. Debts(t, d, 0, 0) /\ IsScript(t)
    BY DEF Debtless
  <2> QED
    BY <1>1, <2>1, JoinDebts
<1>2. IsScript(s) => IsScript(s \o t)
  BY JoinScripts DEF Debtless
<1> QED
  BY <1>1, <1>2 DEF Debtless, Takes, Cycles

LEMMA DebtlessJoin ==
  ASSUME NEW s, NEW t, NEW d, Debtless(s)
  PROVE /\ Takes(t, d) => Takes(s \o t, d)
        /\ PaysBack(t, d) => PaysBack(s \o t, d)
        /\ Cycles(t, d) => Cycles(s \o t, d)
<1>0. IsScript(s) /\ Debts(s, d, 0, 0) /\ Len(s) \in Nat
  BY ScriptLength DEF Debtless
<1>1. ASSUME IsScript(t), NEW b \in Nat, NEW r \in Nat, Debts(t, d, b, r)
      PROVE Debts(s \o t, d, IF b = 0 THEN 0 ELSE Len(s) + b, IF r = 0 THEN 0 ELSE Len(s) + r)
  BY <1>0, <1>1, JoinDebts
<1>2. IsScript(t) => IsScript(s \o t)
  BY <1>0, JoinScripts
<1>3. ASSUME Takes(t, d) PROVE Takes(s \o t, d)
  <2>1. PICK b \in Nat \ {0} : Debts(t, d, b, 0)
    BY <1>3 DEF Takes
  <2>2. Debts(s \o t, d, Len(s) + b, 0) /\ Len(s) + b \in Nat \ {0}
    BY <1>0, <1>1, <1>3, <2>1 DEF Takes
  <2> QED
    BY <1>2, <1>3, <2>2 DEF Takes
<1>4. ASSUME PaysBack(t, d) PROVE PaysBack(s \o t, d)
  <2>1. PICK r \in Nat \ {0} : Debts(t, d, 0, r)
    BY <1>4 DEF PaysBack
  <2>2. Debts(s \o t, d, 0, Len(s) + r) /\ Len(s) + r \in Nat \ {0}
    BY <1>0, <1>1, <1>4, <2>1 DEF PaysBack
  <2> QED
    BY <1>2, <1>4, <2>2 DEF PaysBack
<1>5. ASSUME Cycles(t, d) PROVE Cycles(s \o t, d)
  <2>1. PICK b \in Nat \ {0}, r \in Nat \ {0} : b < r /\ Debts(t, d, b, r)
    BY <1>5 DEF Cycles
  <2>2. /\ Debts(s \o t, d, Len(s) + b, Len(s) + r) /\ Len(s) + b < Len(s) + r
        /\ Len(s) + b \in Nat \ {0} /\ Len(s) + r \in Nat \ {0}
    BY <1>0, <1>1, <1>5, <2>1 DEF Cycles
  <2> QED
    BY <1>2, <1>5, <2>2 DEF Cycles
<1> QED
  BY <1>3, <1>4, <1>5

LEMMA LoanCycles ==
  ASSUME NEW s, NEW t, NEW d, Takes(s, d), PaysBack(t, d)
  PROVE Cycles(s \o t, d)
<1>1. PICK b \in Nat \ {0} : Debts(s, d, b, 0)
  BY DEF Takes
<1>2. PICK r \in Nat \ {0} : Debts(t, d, 0, r)
  BY DEF PaysBack
<1>3. Debts(s \o t, d, b, Len(s) + r)
  BY <1>1, <1>2, JoinDebts DEF Takes, PaysBack
<1>4. Len(s) \in Nat /\ b \in 0..Len(s)
  BY <1>1, ScriptLength DEF Takes, Debts
<1>5. b < Len(s) + r /\ Len(s) + r \in Nat \ {0}
  BY <1>1, <1>2, <1>4
<1> QED
  BY <1>3, <1>5, JoinScripts DEF Cycles, Takes, PaysBack

(* Steps of a script.                                                       *)
LEMMA FreshDebts ==
  ASSUME NEW step, StepTyped(step), IsScript(Fresh(step))
  PROVE /\ ~IsDebtStep(step) => Debtless(Fresh(step))
        /\ \A d : DebtCall(step, d, "borrow") => Takes(Fresh(step), d)
        /\ \A d : DebtCall(step, d, "repay") => PaysBack(Fresh(step), d)
<1> DEFINE f == Fresh(step)
           p == ProcessInbox(step.client)
<1>1. Len(f) = 2 /\ f[1] = p /\ f[2] = step
  BY DEF Fresh
<1>2. p.do = "inbox" /\ IsScript(f)
  BY DEF ProcessInbox
<1> HIDE DEF f, p
<1>3. \A i \in 1..Len(f) : i = 1 \/ i = 2
  BY <1>1
<1>4. ~IsDebtStep(p)
  BY <1>2 DEF IsDebtStep
<1>5. ~IsDebtStep(step) => Debtless(f)
  BY <1>1, <1>2, <1>3, <1>4 DEF Debtless, Debts
<1>6. ASSUME NEW d, DebtCall(step, d, "borrow") PROVE Takes(f, d)
  <2>1. Debts(f, d, 2, 0)
    BY <1>1, <1>3, <1>4, <1>6 DEF Debts
  <2> QED
    BY <1>2, <2>1 DEF Takes
<1>7. ASSUME NEW d, DebtCall(step, d, "repay") PROVE PaysBack(f, d)
  <2>1. Debts(f, d, 0, 2)
    BY <1>1, <1>3, <1>4, <1>7 DEF Debts
  <2> QED
    BY <1>2, <2>1 DEF PaysBack
<1> QED
  BY <1>5, <1>6, <1>7 DEF f

LEMMA SingleDebtless ==
  ASSUME NEW step, StepTyped(step), ~IsDebtStep(step)
  PROVE Debtless(<<step>>)
<1> DEFINE t == <<step>>
<1>1. t \in Seq({step}) /\ Len(t) = 1 /\ t[1] = step
  OBVIOUS
<1> HIDE DEF t
<1>2. Debtless(t)
  BY <1>1 DEF Debtless, Debts, IsScript
<1> QED
  BY <1>2 DEF t

LEMMA OperationDebts ==
  ASSUME NEW c \in Clients, NEW call
  PROVE /\ OperationReady(c, call) /\ CallTyped(c, call) =>
             /\ call.fn \notin DebtFunctions => Debtless(Fresh(Operation(c, call)))
             /\ call.fn = "borrow" /\ call.amount = 600 => Takes(Fresh(Operation(c, call)), c)
             /\ call.fn = "repay" /\ call.amount = 600 => PaysBack(Fresh(Operation(c, call)), c)
        /\ ThroughReady(c, call) /\ CallTyped(TestContract, call) =>
             /\ call.fn \notin DebtFunctions => Debtless(Fresh(Through(c, call)))
             /\ call.fn = "borrow" /\ call.amount = 600 =>
                  Takes(Fresh(Through(c, call)), TestContract)
             /\ call.fn = "repay" /\ call.amount = 600 =>
                  PaysBack(Fresh(Through(c, call)), TestContract)
<1> DEFINE x == Operation(c, call)
           y == Through(c, call)
<1>1. /\ x.client = c /\ x.do = "operation" /\ x.sender = c /\ x.call = call
      /\ y.client = c /\ y.do = "operation" /\ y.sender = TestContract /\ y.call = call
  BY DEF Operation, Through
<1>2. /\ OperationReady(c, call) => IsScript(Fresh(x))
      /\ ThroughReady(c, call) => IsScript(Fresh(y))
  BY DEF OperationReady, ThroughReady, Prepared
<1> HIDE DEF x, y
<1>3. /\ CallTyped(c, call) => StepTyped(x)
      /\ CallTyped(TestContract, call) => StepTyped(y)
  BY <1>1 DEF StepTyped
<1>4. /\ call.fn \notin DebtFunctions => ~IsDebtStep(x) /\ ~IsDebtStep(y)
      /\ call.fn = "borrow" /\ call.amount = 600 =>
           DebtCall(x, c, "borrow") /\ DebtCall(y, TestContract, "borrow")
      /\ call.fn = "repay" /\ call.amount = 600 =>
           DebtCall(x, c, "repay") /\ DebtCall(y, TestContract, "repay")
  BY <1>1 DEF IsDebtStep, DebtCall
<1> QED
  BY <1>2, <1>3, <1>4, FreshDebts DEF x, y

(* A part whose one operation neither borrows nor repays.                   *)
LEMMA MarketDebts ==
  ASSUME NEW c \in Clients, NEW fn \in MarketFunctions, NEW amount \in Nat
  PROVE /\ fn \notin DebtFunctions => /\ Debtless(Fresh(Operation(c, MarketCall(fn, amount))))
                                      /\ Debtless(Fresh(Through(c, MarketCall(fn, amount))))
        /\ fn = "borrow" /\ amount = 600 =>
             /\ Takes(Fresh(Operation(c, MarketCall(fn, amount))), c)
             /\ Takes(Fresh(Through(c, MarketCall(fn, amount))), TestContract)
        /\ fn = "repay" /\ amount = 600 =>
             /\ PaysBack(Fresh(Operation(c, MarketCall(fn, amount))), c)
             /\ PaysBack(Fresh(Through(c, WithCallback(fn, amount))), TestContract)
<1> DEFINE p == MarketCall(fn, amount)
           q == WithCallback(fn, amount)
<1>1. /\ p.fn = fn /\ p.amount = amount /\ q.fn = fn /\ q.amount = amount
      /\ \A sender \in Users : CallTyped(sender, p) /\ CallTyped(sender, q)
  BY DEF CallTyped, MarketCall, WithCallback, MarketFunctions
<1>2. c \in Users /\ TestContract \in Users
  BY ClientsTyped
<1>3. OperationReady(c, p) /\ ThroughReady(c, p) /\ ThroughReady(c, q)
  BY MarketReady
<1> HIDE DEF p, q
<1>4. /\ fn \notin DebtFunctions => Debtless(Fresh(Operation(c, p))) /\ Debtless(Fresh(Through(c, p)))
      /\ fn = "borrow" /\ amount = 600 =>
           Takes(Fresh(Operation(c, p)), c) /\ Takes(Fresh(Through(c, p)), TestContract)
      /\ fn = "repay" /\ amount = 600 =>
           PaysBack(Fresh(Operation(c, p)), c) /\ PaysBack(Fresh(Through(c, q)), TestContract)
  BY <1>1, <1>2, <1>3, OperationDebts
<1> QED
  BY <1>4 DEF p, q

LEMMA ApproveDebtless ==
  ASSUME NEW c \in Clients
  PROVE /\ \A token \in Tokens : Debtless(Fresh(Operation(c, ApproveCall(token, Unlimited))))
        /\ Debtless(Fresh(Through(c, ApproveCall("loan", 0))))
        /\ Debtless(Fresh(Through(c, ApproveCall("collateral", Unlimited))))
<1>1. \A token, amount : ApproveCall(token, amount).fn \notin DebtFunctions
  BY DEF ApproveCall, DebtFunctions
<1>2. \A token \in Tokens : CallTyped(c, ApproveCall(token, Unlimited))
  BY ClientsTyped, DriverAssumption DEF CallTyped, ApproveCall, MarketFunctions
<1>3. /\ CallTyped(TestContract, ApproveCall("loan", 0))
      /\ CallTyped(TestContract, ApproveCall("collateral", Unlimited))
  BY ClientsTyped, DriverAssumption DEF CallTyped, ApproveCall, MarketFunctions
<1> QED
  BY <1>1, <1>2, <1>3, ApproveReady, OperationDebts

LEMMA OtherDebtless ==
  ASSUME NEW c \in Clients
  PROVE \A fn \in {"set_addresses", "set_up_part_a", "enableIrm", "enableLltv",
                   "set_up_part_c", "resetCallbackFlags", "accrueInterest"} :
          Debtless(Fresh(Operation(c, [fn |-> fn])))
<1>1. ASSUME NEW fn \in {"set_addresses", "set_up_part_a", "enableIrm", "enableLltv",
                         "set_up_part_c", "resetCallbackFlags", "accrueInterest"}
      PROVE Debtless(Fresh(Operation(c, [fn |-> fn])))
  <2> DEFINE call == [fn |-> fn]
  <2>1. call.fn \notin DebtFunctions
    BY DEF DebtFunctions
  <2>2. CallTyped(c, call) /\ OperationReady(c, call)
    BY OtherTyped, OtherReady
  <2> HIDE DEF call
  <2>3. Debtless(Fresh(Operation(c, call)))
    BY <2>1, <2>2, OperationDebts
  <2> QED
    BY <2>3 DEF call
<1> QED
  BY <1>1

LEMMA FundDebtless ==
  ASSUME NEW token \in Tokens, NEW u \in Users, NEW amount \in Nat
  PROVE Debtless(Fund(token, u, amount))
<1> DEFINE call == SetBalanceCall(token, u, amount)
<1>1. call.fn \notin DebtFunctions
  BY DEF SetBalanceCall, DebtFunctions
<1>2. "regular" \in Clients /\ CallTyped("regular", call)
  BY BalanceTyped, ClientsTyped
<1> HIDE DEF call
<1>3. OperationReady("regular", call)
  BY <1>2, OperationPrepared DEF OperationReady
<1>4. Debtless(Fresh(Operation("regular", call)))
  BY <1>1, <1>2, <1>3, OperationDebts
<1> QED
  BY <1>4 DEF Fund, call

LEMMA CheckDebtless ==
  ASSUME NEW c \in Clients, NEW q, NEW r, NEW e
  PROVE Debtless(<<Check(c, q, r, e)>>) /\ Debtless(Fresh(Check(c, q, r, e)))
<1> DEFINE k == Check(c, q, r, e)
<1>1. k.client = c /\ k.do = "check"
  BY DEF Check
<1>2. IsScript(Fresh(k))
  BY QueryPrepared DEF Prepared
<1> HIDE DEF k
<1>3. StepTyped(k) /\ ~IsDebtStep(k)
  BY <1>1 DEF StepTyped, IsDebtStep
<1>4. Debtless(<<k>>) /\ Debtless(Fresh(k))
  BY <1>2, <1>3, SingleDebtless, FreshDebts
<1> QED
  BY <1>4 DEF k

LEMMA SetUpDebtless == Debtless(SetUp \o Approvals)
<1> DEFINE first == Operation("regular", [fn |-> "set_addresses"])
           second == Operation("regular", [fn |-> "set_up_part_a"])
           t == <<first, second>>
<1>1. StepTyped(first) /\ StepTyped(second) /\ ~IsDebtStep(first) /\ ~IsDebtStep(second)
  BY OtherTyped, ClientsTyped DEF Operation, StepTyped, IsDebtStep, DebtFunctions
<1>2. Debtless(t)
  <2> HIDE DEF first, second
  <2>1. t \in Seq({first, second}) /\ Len(t) = 2 /\ t[1] = first /\ t[2] = second
    OBVIOUS
  <2> HIDE DEF t
  <2>2. \A i \in 1..Len(t) : i = 1 \/ i = 2
    BY <2>1
  <2> QED
    BY <1>1, <2>1, <2>2 DEF Debtless, Debts, IsScript
<1>3. SetUp = t \o Fresh(Operation("owner", [fn |-> "enableIrm"]))
                \o Fresh(Operation("owner", [fn |-> "enableLltv"]))
                \o Fresh(Operation("regular", [fn |-> "set_up_part_c"]))
  BY DEF SetUp
<1> HIDE DEF first, second, t
<1>4. Debtless(SetUp)
  <2>1. /\ Debtless(Fresh(Operation("owner", [fn |-> "enableIrm"])))
        /\ Debtless(Fresh(Operation("owner", [fn |-> "enableLltv"])))
        /\ Debtless(Fresh(Operation("regular", [fn |-> "set_up_part_c"])))
    BY OtherDebtless, ClientsTyped
  <2> QED
    BY <1>2, <1>3, <2>1, JoinDebtless
<1>5. Debtless(Approvals)
  <2>1. /\ Debtless(Fresh(Operation("supplier", ApproveCall("loan", Unlimited))))
        /\ Debtless(Fresh(Operation("borrower", ApproveCall("loan", Unlimited))))
        /\ Debtless(Fresh(Operation("liquidator", ApproveCall("loan", Unlimited))))
        /\ Debtless(Fresh(Operation("supplier2", ApproveCall("loan", Unlimited))))
        /\ Debtless(Fresh(Operation("borrower", ApproveCall("collateral", Unlimited))))
    BY ApproveDebtless, ClientsTyped
  <2> QED
    BY <2>1, JoinDebtless DEF Approvals
<1> QED
  BY <1>4, <1>5, JoinDebtless

(* The last step of a script that ends with a query.                        *)
LEMMA LastOfJoin ==
  ASSUME NEW s, NEW t, IsScript(s), IsScript(t), Len(t) > 0
  PROVE Len(s \o t) > 0 /\ (s \o t)[Len(s \o t)] = t[Len(t)]
<1>1. PICK S : s \in Seq(S)
  BY DEF IsScript
<1>2. PICK T : t \in Seq(T)
  BY DEF IsScript
<1>3. Len(s \o t) = Len(s) + Len(t) /\ Len(s) \in Nat /\ Len(t) \in Nat
  BY <1>1, <1>2, JoinParts
<1>4. Len(t) \in 1..Len(t)
  BY <1>3
<1>5. (s \o t)[Len(s) + Len(t)] = t[Len(t)]
  BY <1>1, <1>2, <1>4, JoinParts
<1> QED
  BY <1>3, <1>5

LastCheck == Check("regular", Market(64), "=", 0)

EndsChecked(s) == Len(s) > 0 /\ s[Len(s)] = LastCheck

LEMMA FreshChecked == IsScript(Fresh(LastCheck)) /\ EndsChecked(Fresh(LastCheck))
<1> DEFINE t == Fresh(LastCheck)
<1>1. IsScript(t)
  BY QueryPrepared, ClientsTyped DEF Prepared, LastCheck
<1>2. Len(t) = 2 /\ t[2] = LastCheck
  BY DEF Fresh
<1> HIDE DEF t
<1>3. EndsChecked(t)
  BY <1>2 DEF EndsChecked
<1> QED
  BY <1>1, <1>3 DEF t

(* Choice 1 borrows 600 and repays 600.                                     *)
LEMMA BorrowerCycles ==
  Cycles(CompleteBorrowRepayCycle, "borrower") /\ EndsChecked(CompleteBorrowRepayCycle)
<1>1. /\ Debtless(Fund("loan", "supplier", 10000))
      /\ Debtless(Fresh(Operation("supplier", MarketCall("supply", 10000))))
      /\ Debtless(Fund("collateral", "borrower", 1000))
      /\ Debtless(Fresh(Operation("borrower", MarketCall("supplyCollateral", 1000))))
      /\ Debtless(Fresh(Operation("borrower", MarketCall("withdrawCollateral", 1000))))
  <2>1. "supplier" \in Users /\ "borrower" \in Users /\ 10000 \in Nat /\ 1000 \in Nat
    BY ClientsTyped
  <2> QED
    BY <2>1, FundDebtless, MarketDebts, ClientsTyped DEF MarketFunctions, DebtFunctions
<1>2. /\ Debtless(SupplyFrom("supplier", 10000))
      /\ Debtless(CollateralFrom("borrower", 1000))
  BY <1>1, JoinDebtless DEF SupplyFrom, CollateralFrom
<1>3. /\ Takes(Borrowing("borrower", 600), "borrower")
      /\ PaysBack(Fresh(Operation("borrower", MarketCall("repay", 600))), "borrower")
  <2>1. 600 \in Nat /\ "borrower" \in Clients
    BY ClientsTyped
  <2> QED
    BY <2>1, MarketDebts DEF MarketFunctions, Borrowing
<1>4. /\ Debtless(<<Check("borrower", BalanceOf("loan", "borrower"), "=", 600)>>)
      /\ Debtless(<<Check("borrower", BalanceOf("collateral", "borrower"), "=", 1000)>>)
      /\ Debtless(Fresh(Check("regular", Market(64), "=", 0)))
  <2>1. \A c \in Clients : \A q, r, e : Debtless(<<Check(c, q, r, e)>>)
    BY CheckDebtless
  <2>2. \A c \in Clients : \A q, r, e : Debtless(Fresh(Check(c, q, r, e)))
    BY CheckDebtless
  <2>3. "borrower" \in Clients /\ "regular" \in Clients
    BY ClientsTyped
  <2>4. Debtless(<<Check("borrower", BalanceOf("loan", "borrower"), "=", 600)>>)
    BY <2>1, <2>3
  <2>5. Debtless(<<Check("borrower", BalanceOf("collateral", "borrower"), "=", 1000)>>)
    BY <2>1, <2>3
  <2>6. Debtless(Fresh(Check("regular", Market(64), "=", 0)))
    BY <2>2, <2>3
  <2> QED
    BY <2>4, <2>5, <2>6
<1> DEFINE taken == SupplyFrom("supplier", 10000)
                      \o CollateralFrom("borrower", 1000)
                      \o Borrowing("borrower", 600)
                      \o <<Check("borrower", BalanceOf("loan", "borrower"), "=", 600)>>
<1>5. Takes(taken, "borrower")
  BY <1>2, <1>3, <1>4, JoinDebtless, DebtlessJoin
<1> DEFINE repaid == taken
             \o Fresh(Operation("borrower", MarketCall("repay", 600)))
             \o Fresh(Operation("borrower", MarketCall("withdrawCollateral", 1000)))
             \o <<Check("borrower", BalanceOf("collateral", "borrower"), "=", 1000)>>
<1> HIDE DEF taken
<1>6. Cycles(repaid, "borrower")
  BY <1>1, <1>3, <1>4, <1>5, LoanCycles, JoinDebtless
<1>7. CompleteBorrowRepayCycle = repaid \o Fresh(LastCheck)
  BY DEF CompleteBorrowRepayCycle, taken, LastCheck
<1> HIDE DEF repaid
<1> QED
  BY <1>4, <1>6, <1>7, JoinDebtless, LastOfJoin, FreshChecked DEF Cycles, EndsChecked, LastCheck

(* Choice 8 has the test contract do so.                                    *)
LEMMA ContractCycles == Cycles(RepayWithCallback, TestContract) /\ EndsChecked(RepayWithCallback)
<1>1. /\ Debtless(Fund("loan", "supplier", 10000))
      /\ Debtless(Fresh(Operation("supplier", MarketCall("supply", 10000))))
      /\ Debtless(Fund("collateral", TestContract, 1000))
      /\ Debtless(Fresh(Through("regular", MarketCall("supplyCollateral", 1000))))
  <2>1. "supplier" \in Users /\ 10000 \in Nat /\ 1000 \in Nat
    BY ClientsTyped
  <2> QED
    BY <2>1, FundDebtless, MarketDebts, ClientsTyped DEF MarketFunctions, DebtFunctions
<1>2. Debtless(SupplyFrom("supplier", 10000))
  BY <1>1, JoinDebtless DEF SupplyFrom
<1>3. /\ Takes(Fresh(Through("regular", MarketCall("borrow", 600))), TestContract)
      /\ PaysBack(Fresh(Through("regular", WithCallback("repay", 600))), TestContract)
  <2>1. 600 \in Nat /\ "regular" \in Clients
    BY ClientsTyped
  <2> QED
    BY <2>1, MarketDebts DEF MarketFunctions
<1>4. /\ Debtless(Fresh(Through("regular", ApproveCall("collateral", Unlimited))))
      /\ Debtless(Fresh(Through("regular", ApproveCall("loan", 0))))
      /\ Debtless(Fresh(Operation("regular", [fn |-> "resetCallbackFlags"])))
      /\ Debtless(<<Check("regular", Triggered("repay"), "=", 1)>>)
      /\ Debtless(Fresh(Check("regular", Market(64), "=", 0)))
  BY ApproveDebtless, OtherDebtless, CheckDebtless, ClientsTyped
<1> DEFINE funded == SupplyFrom("supplier", 10000)
                       \o Fund("collateral", TestContract, 1000)
                       \o Fresh(Through("regular", ApproveCall("collateral", Unlimited)))
                       \o Fresh(Through("regular", MarketCall("supplyCollateral", 1000)))
           taken == funded
                      \o Fresh(Through("regular", MarketCall("borrow", 600)))
                      \o Fresh(Through("regular", ApproveCall("loan", 0)))
                      \o Fresh(Operation("regular", [fn |-> "resetCallbackFlags"]))
<1>5. Debtless(funded)
  BY <1>1, <1>2, <1>4, JoinDebtless
<1> HIDE DEF funded
<1>6. Takes(taken, TestContract)
  BY <1>3, <1>4, <1>5, JoinDebtless, DebtlessJoin
<1> DEFINE repaid == taken \o Fresh(Through("regular", WithCallback("repay", 600)))
                       \o <<Check("regular", Triggered("repay"), "=", 1)>>
<1> HIDE DEF taken
<1>7. Cycles(repaid, TestContract)
  BY <1>3, <1>4, <1>6, LoanCycles, JoinDebtless
<1>8. RepayWithCallback = repaid \o Fresh(LastCheck)
  BY DEF RepayWithCallback, taken, funded, LastCheck
<1> HIDE DEF repaid
<1> QED
  BY <1>4, <1>7, <1>8, JoinDebtless, LastOfJoin, FreshChecked DEF Cycles, EndsChecked, LastCheck

(* The script of a choice, and who takes its loan.                          *)
ScriptOf(c) == IF c = NoChoice THEN <<>> ELSE SetUp \o Approvals \o Scenarios[c + 1]

DebtorOf(c) == IF c = 1 THEN "borrower" ELSE TestContract

LEMMA ScriptCycles ==
  ASSUME NEW c \in RepaysExactly
  PROVE Cycles(ScriptOf(c), DebtorOf(c)) /\ EndsChecked(ScriptOf(c))
<1> DEFINE before == SetUp \o Approvals
           scenario == Scenarios[c + 1]
<1>1. Debtless(before) /\ IsScript(before)
  BY SetUpDebtless DEF Debtless
<1>2. Cycles(scenario, DebtorOf(c)) /\ EndsChecked(scenario)
  <2>1. CASE c = 1
    <3>1. scenario = CompleteBorrowRepayCycle /\ DebtorOf(c) = "borrower"
      BY <2>1 DEF Scenarios, DebtorOf
    <3> QED
      BY <3>1, BorrowerCycles
  <2>2. CASE c = 8
    <3>1. scenario = RepayWithCallback /\ DebtorOf(c) = TestContract
      BY <2>2 DEF Scenarios, DebtorOf
    <3> QED
      BY <3>1, ContractCycles
  <2> QED
    BY <2>1, <2>2 DEF RepaysExactly
<1>3. ScriptOf(c) = before \o scenario
  <2>1. c # NoChoice
    BY DEF RepaysExactly, NoChoice
  <2> QED
    BY <2>1, Zenon DEF ScriptOf
<1> HIDE DEF before, scenario
<1> QED
  BY <1>1, <1>2, <1>3, DebtlessJoin, LastOfJoin DEF Cycles, EndsChecked

-----------------------------------------------------------------------------
(* What the operations do to the loan.                                      *)

(* Only interest adds to what is borrowed.                                  *)
LoanKept ==
  /\ \A u \in Accounts : position'[u].borrowShares = position[u].borrowShares
  /\ market'.totalBorrowShares = market.totalBorrowShares
  /\ market'.totalBorrowAssets >= market.totalBorrowAssets
  /\ market.totalBorrowAssets = 0 => market'.totalBorrowAssets = 0

LEMMA AccruedLoan ==
  ASSUME MorphoInv
  PROVE /\ AccruedMarket.totalBorrowShares = market.totalBorrowShares
        /\ AccruedMarket.totalBorrowAssets >= market.totalBorrowAssets
        /\ market.totalBorrowAssets = 0 => AccruedMarket.totalBorrowAssets = 0
        /\ \A u \in Accounts : AccruedPosition[u].borrowShares = position[u].borrowShares
        /\ market.totalBorrowAssets \in Nat /\ market.totalBorrowShares \in Nat
<1>1. market \in Totals /\ Interest \in Nat
  BY PartTypes, AccruedTypes
<1>2. market.totalBorrowAssets \in Nat /\ market.totalBorrowShares \in Nat
  BY <1>1, MorphoAssumption DEF Totals
<1>3. /\ AccruedMarket.totalBorrowShares = market.totalBorrowShares
      /\ AccruedMarket.totalBorrowAssets = market.totalBorrowAssets + Interest
  BY <1>1 DEF AccruedMarket, Totals
<1>4. market.totalBorrowAssets = 0 => Interest = 0
  <2>1. growth \in Nat /\ WAD \in Nat \ {0}
    BY MorphoAssumption DEF MorphoInv, TypeOK
  <2>2. 0 * growth = 0 /\ 0 \div WAD = 0
    BY <2>1
  <2> QED
    BY <2>2 DEF Interest, WMulDown, MulDivDown
<1> QED
  BY <1>1, <1>2, <1>3, <1>4, AccruedTypes

LEMMA EffectLoan ==
  ASSUME MorphoInv, NEW u, NEW ss, NEW c, NEW sa, NEW loan, Effect(u, ss, 0, c, sa, 0, loan)
  PROVE LoanKept
<1>1. /\ \A v \in Accounts : /\ AccruedPosition[v].borrowShares \in Int
                             /\ position'[v].borrowShares = AccruedPosition[v].borrowShares
      /\ market'.totalBorrowShares = AccruedMarket.totalBorrowShares + 0
      /\ market'.totalBorrowAssets = AccruedMarket.totalBorrowAssets + 0
  BY DEF Effect, PositionMoves, Shifted, MarketMoves
<1>2. AccruedMarket.totalBorrowShares \in Int /\ AccruedMarket.totalBorrowAssets \in Int
  BY AccruedTypes DEF Integral
<1> QED
  BY <1>1, <1>2, AccruedLoan DEF LoanKept

LEMMA StillLoan ==
  ASSUME MorphoInv, position' = position, market' = market
  PROVE LoanKept
BY AccruedLoan DEF LoanKept

LEMMA ExecuteKeepsLoan ==
  ASSUME DriverTypes, NEW sender, NEW call, CallTyped(sender, call),
         call.fn \notin DebtFunctions, Execute(sender, call)
  PROVE LoanKept
<1>0. MorphoInv
  BY DEF DriverTypes
<1>1. CASE SetUpCall(sender, call) \/ TokenCall(sender, call) \/ OtherCall(call)
  BY <1>0, <1>1, StillLoan DEF SetUpCall, TokenCall, OtherCall, SetPrice, vars
<1>2. CASE CallMorpho(sender, call)
  <2>1. /\ sender \in Users /\ sender \in Holders /\ 0 \in Nat
        /\ call.fn \in MarketFunctions => call.amount \in Nat
    BY DEF CallTyped, Holders
  <2>2. CASE call.fn = "supply" /\ Supply(sender, call.amount, 0, sender, call.data)
    <3>1. \E a \in Nat, s \in Nat : Effect(sender, s, 0, 0, a, 0, a)
      BY <1>0, <2>1, <2>2, SupplyEffect DEF MarketFunctions
    <3> QED
      BY <1>0, <3>1, EffectLoan
  <2>3. CASE call.fn = "withdraw" /\ Withdraw(sender, call.amount, 0, sender, sender)
    <3>1. \E a \in Nat, s \in Nat : Effect(sender, -s, 0, 0, -a, 0, -a)
      BY <1>0, <2>1, <2>3, WithdrawEffect DEF MarketFunctions
    <3> QED
      BY <1>0, <3>1, EffectLoan
  <2>4. CASE call.fn = "supplyCollateral" /\ SupplyCollateral(sender, call.amount, sender, call.data)
    <3>1. /\ PositionMoves(position, position', sender, 0, 0, call.amount)
          /\ market' = market
      BY <1>0, <2>1, <2>4, SupplyCollateralEffect DEF MarketFunctions
    <3>2. \A v \in Accounts : position'[v].borrowShares = position[v].borrowShares
      BY <3>1 DEF PositionMoves, Shifted
    <3> QED
      BY <1>0, <3>1, <3>2, AccruedLoan DEF LoanKept
  <2>5. CASE call.fn = "withdrawCollateral" /\ WithdrawCollateral(sender, call.amount, sender, sender)
    <3>1. Effect(sender, 0, 0, -call.amount, 0, 0, 0)
      BY <1>0, <2>1, <2>5, WithdrawCollateralEffect DEF MarketFunctions
    <3> QED
      BY <1>0, <3>1, EffectLoan
  <2>6. CASE call.fn = "accrueInterest" /\ AccrueInterest
    <3>1. position' = AccruedPosition /\ market' = AccruedMarket
      BY <2>6 DEF AccrueInterest
    <3> QED
      BY <1>0, <3>1, AccruedLoan DEF LoanKept
  <2> QED
    BY <1>2, <2>2, <2>3, <2>4, <2>5, <2>6 DEF CallMorpho, DebtFunctions
<1> QED
  BY <1>1, <1>2 DEF Execute

-----------------------------------------------------------------------------
(* The loan is taken whole and paid back whole.                             *)

LoanShares == 600 * VIRTUAL_SHARES

NoLoan ==
  /\ market.totalBorrowAssets = 0 /\ market.totalBorrowShares = 0
  /\ \A u \in Accounts : position[u].borrowShares = 0

LoanOut(d) ==
  /\ market.totalBorrowAssets >= 600 /\ market.totalBorrowShares = LoanShares
  /\ \A u \in Accounts : position[u].borrowShares = IF u = d THEN LoanShares ELSE 0

LoanEnded ==
  market.totalBorrowAssets = 0 => \A u \in Accounts : position[u].borrowShares = 0

LEMMA FirstLoan ==
  ASSUME MorphoInv, NoLoan, NEW d \in Users, NEW amount \in Nat, Borrow(d, amount, 0, d, d)
  PROVE /\ market'.totalBorrowAssets = amount
        /\ market'.totalBorrowShares = amount * VIRTUAL_SHARES
        /\ \A u \in Accounts :
             position'[u].borrowShares = IF u = d THEN amount * VIRTUAL_SHARES ELSE 0
        /\ calls' = calls
<1> DEFINE m == AccruedMarket
           p == AccruedPosition
           paid == PaidOut(amount, 0, m.totalBorrowAssets, m.totalBorrowShares)
           owed == amount * VIRTUAL_SHARES
<1>1. /\ m.totalBorrowAssets = 0 /\ m.totalBorrowShares = 0 /\ m \in Totals
      /\ p \in [Accounts -> Positions] /\ \A u \in Accounts : p[u].borrowShares = 0
      /\ amount > 0
  BY AccruedLoan, AccruedTotals DEF NoLoan, Borrow, ExactlyOneZero
<1>2. VIRTUAL_SHARES \in Nat \ {0} /\ owed \in Nat
  BY MorphoAssumption
<1>3. paid.assets = amount /\ paid.shares = owed
  <2>1. paid = [assets |-> amount, shares |-> ToSharesUp(amount, 0, 0)]
    BY <1>1 DEF PaidOut
  <2>2. ToSharesUp(amount, 0, 0) = (amount * VIRTUAL_SHARES) \div 1
    BY <1>2 DEF ToSharesUp, MulDivUp, VIRTUAL_ASSETS
  <2>3. (amount * VIRTUAL_SHARES) \div 1 = owed
    BY <1>2
  <2> QED
    BY <2>1, <2>2, <2>3
<1>4. /\ market' = [m EXCEPT !.totalBorrowShares = m.totalBorrowShares + paid.shares,
                             !.totalBorrowAssets = m.totalBorrowAssets + paid.assets]
      /\ position' = [p EXCEPT ![d].borrowShares = p[d].borrowShares + paid.shares]
      /\ calls' = calls
  BY DEF Borrow
<1> HIDE DEF m, p, paid, owed
<1>5. owed \in Nat /\ 0 + owed = owed /\ d \in Accounts
  BY <1>2 DEF Accounts
<1>6. market'.totalBorrowAssets = amount /\ market'.totalBorrowShares = owed
  BY <1>1, <1>3, <1>4, <1>5 DEF Totals
<1>7. \A u \in Accounts : position'[u].borrowShares = IF u = d THEN owed ELSE 0
  BY <1>1, <1>3, <1>4, <1>5 DEF Positions
<1> QED
  BY <1>4, <1>6, <1>7 DEF owed

LEMMA LoanTaken ==
  ASSUME MorphoInv, NoLoan, NEW d \in Users, Borrow(d, 600, 0, d, d)
  PROVE LoanOut(d)' /\ calls' = calls
<1>1. /\ market'.totalBorrowAssets = 600
      /\ market'.totalBorrowShares = 600 * VIRTUAL_SHARES
      /\ \A u \in Accounts :
           position'[u].borrowShares = IF u = d THEN 600 * VIRTUAL_SHARES ELSE 0
      /\ calls' = calls
  BY FirstLoan
<1> QED
  BY <1>1 DEF LoanOut, LoanShares

LEMMA LoanPaid ==
  ASSUME MorphoInv, NEW d \in Users, LoanOut(d), NEW data, Repay(d, 600, 0, d, data)
  PROVE LoanEnded'
<1> DEFINE m == AccruedMarket
           p == AccruedPosition
           A == m.totalBorrowAssets
           paid == PaidIn(600, 0, m.totalBorrowAssets, m.totalBorrowShares)
<1>1. /\ A >= 600 /\ A \in Nat /\ m.totalBorrowShares = LoanShares /\ m \in Totals
      /\ p \in [Accounts -> Positions]
      /\ \A u \in Accounts : p[u].borrowShares = IF u = d THEN LoanShares ELSE 0
  <2>1. /\ m.totalBorrowAssets >= market.totalBorrowAssets
        /\ market.totalBorrowAssets \in Nat /\ m.totalBorrowAssets \in Nat
    BY AccruedLoan, AccruedTotals DEF Repay
  <2>2. A >= 600
    BY <2>1 DEF LoanOut
  <2> QED
    BY <2>1, <2>2, AccruedLoan, AccruedTotals DEF LoanOut, Repay
<1>2. VIRTUAL_SHARES \in Nat \ {0} /\ LoanShares \in Nat /\ d \in Accounts
  BY MorphoAssumption DEF LoanShares, Accounts
<1>3. /\ paid.assets = 600
      /\ paid.shares = (600 * (LoanShares + VIRTUAL_SHARES)) \div (A + 1)
  BY <1>1 DEF PaidIn, ToSharesDown, MulDivDown, VIRTUAL_ASSETS
<1>4. /\ market' = [m EXCEPT !.totalBorrowShares = m.totalBorrowShares - paid.shares,
                             !.totalBorrowAssets = ZeroFloorSub(A, paid.assets)]
      /\ position' = [p EXCEPT ![d].borrowShares = p[d].borrowShares - paid.shares]
  BY DEF Repay
<1> HIDE DEF m, p, A, paid
<1>5. market'.totalBorrowAssets = ZeroFloorSub(A, 600)
  BY <1>1, <1>3, <1>4 DEF Totals
<1>6. ASSUME market'.totalBorrowAssets = 0
      PROVE \A u \in Accounts : position'[u].borrowShares = 0
  <2>1. A = 600
    BY <1>1, <1>5, <1>6 DEF ZeroFloorSub
  <2>2. paid.shares = LoanShares
    <3>1. 600 * (600 * VIRTUAL_SHARES + VIRTUAL_SHARES) = 601 * (600 * VIRTUAL_SHARES)
      BY <1>2
    <3>2. (601 * (600 * VIRTUAL_SHARES)) \div 601 = 600 * VIRTUAL_SHARES
      BY <1>2
    <3> QED
      BY <1>3, <2>1, <3>1, <3>2 DEF LoanShares
  <2>3. LoanShares - LoanShares = 0
    BY <1>2
  <2> QED
    BY <1>1, <1>2, <1>4, <2>2, <2>3 DEF Positions
<1> QED
  BY <1>6 DEF LoanEnded

(* Where the script is, and what is owed.                                   *)
Progress(n, d, b, r) ==
  /\ pc <= b => NoLoan
  /\ b < pc /\ (pc < r \/ (pc = r /\ calls = <<>>)) => LoanOut(d)
  /\ r < pc \/ (pc = r /\ calls # <<>>) => LoanEnded
  /\ pc > n => market.totalBorrowAssets = 0
  /\ calls # <<>> => pc # b

LoanInv ==
  /\ choice = NoChoice => NoLoan
  /\ choice \in RepaysExactly =>
       \E b \in Nat \ {0}, r \in Nat \ {0} :
         /\ b < r /\ Debts(ScriptOf(choice), DebtorOf(choice), b, r)
         /\ Progress(Len(ScriptOf(choice)), DebtorOf(choice), b, r)

LEMMA LoanStays ==
  ASSUME MorphoInv, MorphoInv', LoanKept, NEW d
  PROVE /\ NoLoan => NoLoan'
        /\ LoanOut(d) => LoanOut(d)'
        /\ LoanEnded => LoanEnded'
        /\ market.totalBorrowAssets = 0 => market'.totalBorrowAssets = 0
<1>1. /\ market.totalBorrowAssets \in Nat /\ market'.totalBorrowAssets >= market.totalBorrowAssets
      /\ market.totalBorrowAssets = 0 => market'.totalBorrowAssets = 0
      /\ market'.totalBorrowShares = market.totalBorrowShares
      /\ \A u \in Accounts : position'[u].borrowShares = position[u].borrowShares
  BY AccruedLoan DEF LoanKept
<1>2. market'.totalBorrowAssets \in Nat
  BY MorphoAssumption DEF MorphoInv, TypeOK, Totals
<1>3. NoLoan => NoLoan'
  BY <1>1 DEF NoLoan
<1>4. LoanOut(d) => LoanOut(d)'
  BY <1>1, <1>2 DEF LoanOut, LoanShares
<1>5. LoanEnded => LoanEnded'
  BY <1>1, <1>2 DEF LoanEnded
<1> QED
  BY <1>1, <1>3, <1>4, <1>5

LEMMA ProgressStays ==
  ASSUME MorphoInv, MorphoInv', LoanKept, pc \in Nat, NEW n \in Nat, NEW d,
         NEW b \in Nat, NEW r \in Nat, b < r, Progress(n, d, b, r),
         \/ pc' = pc /\ (pc = r => (calls' = <<>> <=> calls = <<>>))
         \/ pc' = pc + 1 /\ pc # b /\ (pc = r => calls # <<>>) /\ calls' = <<>>,
         calls' # <<>> => pc' # b,
         pc' > n => pc > n \/ market'.totalBorrowAssets = 0
  PROVE Progress(n, d, b, r)'
<1>1. /\ NoLoan => NoLoan'
      /\ LoanOut(d) => LoanOut(d)'
      /\ LoanEnded => LoanEnded'
      /\ market.totalBorrowAssets = 0 => market'.totalBorrowAssets = 0
  BY LoanStays
<1>2. pc' \in Nat
  OBVIOUS
<1>3. pc' <= b => NoLoan'
  BY <1>1, <1>2 DEF Progress
<1>4. b < pc' /\ (pc' < r \/ (pc' = r /\ calls' = <<>>)) => LoanOut(d)'
  BY <1>1, <1>2 DEF Progress
<1>5. r < pc' \/ (pc' = r /\ calls' # <<>>) => LoanEnded'
  BY <1>1, <1>2 DEF Progress
<1>6. pc' > n => market'.totalBorrowAssets = 0
  BY <1>1, <1>2 DEF Progress
<1> QED
  BY <1>3, <1>4, <1>5, <1>6 DEF Progress

(* What the last step of such a script asserts.                             *)
LEMMA LastCheckMeans ==
  ASSUME Step = LastCheck, Holds(Answer(Step.client, Step.query)),
         view["regular"].market = market
  PROVE market.totalBorrowAssets = 0
<1>1. /\ Step.client = "regular" /\ Step.query = Market(64)
      /\ Step.relation = "=" /\ Step.expected = 0
  BY DEF LastCheck, Check
<1>2. Answer("regular", Market(64)) = 0
  BY <1>1 DEF Holds
<1>3. Market(64).of = "market" /\ Market(64).offset = 64
  BY DEF Market
<1>4. Answer("regular", Market(64)) = ParseAtOffset(MarketWords(market), 64)
  BY <1>3 DEF Answer
<1>5. 64 \div 32 + 1 = 3
  OBVIOUS
<1>6. ParseAtOffset(MarketWords(market), 64) = market.totalBorrowAssets
  BY <1>5 DEF ParseAtOffset, MarketWords
<1> QED
  BY <1>2, <1>4, <1>6

(* A step of the driver within such a scenario.                             *)
LEMMA ProgressStep ==
  ASSUME DriverInv, DriverTypes, DriverTypes', ViewsTrue, [DriverNext]_driverVars,
         choice \in RepaysExactly, NEW s, s = Script, NEW d, d \in Users, EndsChecked(s),
         NEW n \in Nat, n = Len(s), NEW b \in Nat \ {0}, NEW r \in Nat \ {0}, b < r,
         IsScript(s), Debts(s, d, b, r), Progress(n, d, b, r)
  PROVE choice' = choice /\ Progress(n, d, b, r)'
<1>1. /\ MorphoInv /\ MorphoInv' /\ pc \in Nat /\ choice # NoChoice
      /\ calls # <<>> => pc \in DOMAIN Script /\ Step.do = "operation"
      /\ Opened(calls)
  BY DEF DriverInv, DriverTypes, RepaysExactly, NoChoice
<1>2. DOMAIN s = 1..n /\ b \in 1..n /\ r \in 1..n
  BY DEF IsScript, Debts
<1>3. s[n] = LastCheck /\ LastCheck.do = "check" /\ n > 0
  BY DEF EndsChecked, LastCheck, Check
<1>4. s[b].do = "operation" /\ s[r].do = "operation"
  BY DEF Debts, DebtCall
<1>5. r < n
  <2>1. r # n
    BY <1>3, <1>4
  <2> QED
    BY <1>2, <2>1
<1>6. pc = n => Step = LastCheck
  BY <1>3 DEF Step
<1>7. pc \in {b, r} => Step.do = "operation"
  BY <1>4 DEF Step
<1> DEFINE Still == UNCHANGED <<position, market, calls>>
<1>8. Still => LoanKept
  BY <1>1, StillLoan
<1>a. ASSUME Still, choice' = choice, pc' = pc
      PROVE choice' = choice /\ Progress(n, d, b, r)'
  <2>1. calls' # <<>> => pc' # b
    BY <1>a DEF Progress
  <2> QED
    BY <1>1, <1>8, <1>a, <2>1, ProgressStays
<1>b. ASSUME Still, choice' = choice, pc' = pc + 1, calls = <<>>, pc \notin {b, r},
             pc = n => market'.totalBorrowAssets = 0
      PROVE choice' = choice /\ Progress(n, d, b, r)'
  <2>1. pc' > n => pc > n \/ market'.totalBorrowAssets = 0
    BY <1>1, <1>b
  <2> QED
    BY <1>1, <1>8, <1>b, <2>1, ProgressStays
<1>10. CASE Main
  BY <1>1, <1>10 DEF Main
<1>11. CASE ReadAndPublishContract
  <2>1. /\ Still /\ choice' = choice /\ pc = 0 /\ (pc' = pc \/ pc' = pc + 1)
    BY <1>11 DEF ReadAndPublishContract, Continue, Fail, vars
  <2>2. calls = <<>>
    BY <1>1, <1>2, <2>1
  <2> QED
    BY <1>3, <2>1, <2>2, <1>a, <1>b
<1>12. CASE ProcessInboxStep
  BY <1>3, <1>6, <1>7, <1>12, <1>b DEF ProcessInboxStep, Running, Continue, vars
<1>13. CASE RunOperation
  <2>1. /\ pc \in 1..n /\ Step = s[pc] /\ calls = <<>> /\ choice' = choice
        /\ Step.do = "operation" /\ Execute(Step.sender, Step.call)
        /\ IF calls' = <<>> THEN pc' = pc + 1 ELSE pc' = pc
    BY <1>2, <1>13 DEF RunOperation, Running, Continue, Step
  <2>2. CASE pc = b
    <3>1. Step.sender = d /\ Step.call.fn = "borrow" /\ Step.call.amount = 600
      BY <2>1, <2>2 DEF Debts, DebtCall
    <3>2. Borrow(d, 600, 0, d, d)
      BY <2>1, <3>1 DEF Execute, SetUpCall, TokenCall, OtherCall, CallMorpho
    <3>3. NoLoan
      BY <2>2 DEF Progress
    <3>4. LoanOut(d)' /\ calls' = <<>>
      BY <1>1, <2>1, <3>2, <3>3, LoanTaken
    <3>5. pc' = b + 1
      BY <2>1, <2>2, <3>4
    <3>6. ~(pc' <= b) /\ ~(r < pc') /\ ~(pc' > n) /\ pc' # b
      BY <1>5, <3>5
    <3> QED
      BY <2>1, <3>4, <3>6 DEF Progress
  <2>3. CASE pc = r
    <3>1. Step.sender = d /\ Step.call.fn = "repay" /\ Step.call.amount = 600
      BY <2>1, <2>3 DEF Debts, DebtCall
    <3>2. Repay(d, 600, 0, d, Step.call.data)
      BY <2>1, <3>1 DEF Execute, SetUpCall, TokenCall, OtherCall, CallMorpho
    <3>3. LoanOut(d)
      BY <2>1, <2>3 DEF Progress
    <3>4. LoanEnded'
      BY <1>1, <3>2, <3>3, LoanPaid
    <3>5. pc' \in {r, r + 1} /\ (calls' # <<>> => pc' = r) /\ (calls' = <<>> => pc' = r + 1)
      BY <2>1, <2>3
    <3>6. ~(pc' <= b) /\ ~(pc' > n) /\ pc' # b /\ ~(pc' < r)
      BY <1>5, <3>5
    <3>7. ~(pc' = r /\ calls' = <<>>)
      BY <3>5
    <3> QED
      BY <2>1, <3>4, <3>6, <3>7 DEF Progress
  <2>4. CASE pc \notin {b, r}
    <3>1. CallTyped(Step.sender, Step.call)
      BY <2>1, <1>13, OperationTyped DEF RunOperation, Running
    <3>2. Step.call.fn \notin DebtFunctions
      BY <2>1, <2>4 DEF Debts, IsDebtStep
    <3>3. LoanKept
      BY <2>1, <3>1, <3>2, ExecuteKeepsLoan
    <3>4. pc # n
      BY <1>3, <2>1
    <3>5. pc' > n => pc > n \/ market'.totalBorrowAssets = 0
      BY <2>1, <3>4
    <3> QED
      BY <1>1, <2>1, <2>4, <3>3, <3>5, ProgressStays
  <2> QED
    BY <2>2, <2>3, <2>4
<1>14. CASE CallbackAndCollect
  <2>1. /\ position' = position /\ market' = market /\ calls # <<>> /\ calls' = <<>>
        /\ pc' = pc + 1 /\ choice' = choice
    BY <1>1, <1>14, CallbackCloses DEF CallbackAndCollect, EndCallback, Continue
  <2>2. LoanKept
    BY <1>1, <2>1, StillLoan
  <2>3. pc # b /\ pc # n
    BY <1>1, <1>3, <1>6, <2>1 DEF Progress
  <2>4. pc' > n => pc > n \/ market'.totalBorrowAssets = 0
    BY <1>1, <2>1, <2>3
  <2> QED
    BY <1>1, <2>1, <2>2, <2>3, <2>4, ProgressStays
<1>15. CASE PreparationFails \/ Revert \/ RefuseProposal
  BY <1>15, <1>a DEF PreparationFails, Revert, RefuseProposal, Fail, vars
<1>16. CASE RunRefusedOperation
  <2>1. /\ Still /\ choice' = choice /\ calls = <<>> /\ Step.do = "has to fail"
        /\ (pc' = pc \/ pc' = pc + 1)
    BY <1>16 DEF RunRefusedOperation, Running, Fail, Continue, vars
  <2>2. pc \notin {b, r} /\ pc # n
    BY <1>3, <1>6, <1>7, <2>1
  <2> QED
    BY <2>1, <2>2, <1>a, <1>b
<1>17. CASE ReadStep
  <2>1. /\ Still /\ choice' = choice /\ calls = <<>> /\ Step.do = "read" /\ pc' = pc + 1
    BY <1>17 DEF ReadStep, Running, Continue, vars
  <2>2. pc \notin {b, r} /\ pc # n
    BY <1>3, <1>6, <1>7, <2>1
  <2> QED
    BY <2>1, <2>2, <1>b
<1>18. CASE CheckStep
  <2>1. /\ Still /\ choice' = choice /\ calls = <<>> /\ Step.do = "check"
        /\ \/ Holds(Answer(Step.client, Step.query)) /\ pc' = pc + 1
           \/ pc' = pc
    BY <1>18 DEF CheckStep, Running, Fail, Continue, vars
  <2>2. pc \notin {b, r}
    BY <1>7, <2>1
  <2>3. CASE pc' = pc
    BY <2>1, <2>3, <1>a
  <2>4. CASE Holds(Answer(Step.client, Step.query)) /\ pc' = pc + 1
    <3>1. pc = n => market.totalBorrowAssets = 0
      <4>1. SUFFICES ASSUME pc = n PROVE market.totalBorrowAssets = 0
        OBVIOUS
      <4>2. Step = LastCheck /\ Step.client = "regular"
        BY <1>6, <4>1 DEF LastCheck, Check
      <4>3. UpToDate(Step.client)
        BY <1>18, <2>1, ChecksPrepared DEF ChecksSeeLatestBlock, CheckStep, Running
      <4>4. view["regular"].market = market
        BY <2>1, <4>2, <4>3, ClientsTyped DEF ViewsTrue
      <4> QED
        BY <2>4, <4>2, <4>4, LastCheckMeans
    <3> QED
      BY <2>1, <2>2, <2>4, <3>1, <1>b
  <2> QED
    BY <2>1, <2>3, <2>4
<1>19. CASE Terminate
  BY <1>19, <1>a DEF Terminate, vars
<1>20. CASE ClockAdvances
  BY <1>20, <1>a DEF ClockAdvances, TimePasses
<1>21. CASE UNCHANGED driverVars
  BY <1>21, <1>a DEF driverVars, vars, scriptVars
<1> QED
  BY <1>10, <1>11, <1>12, <1>13, <1>14, <1>15, <1>16, <1>17, <1>18, <1>19, <1>20, <1>21
     DEF DriverNext

LEMMA InitLoan == DriverInit => LoanInv
<1> SUFFICES ASSUME DriverInit PROVE LoanInv
  OBVIOUS
<1>1. choice = NoChoice /\ NoChoice \notin RepaysExactly
  BY DEF DriverInit, NoChoice, RepaysExactly
<1>2. NoLoan
  BY DEF DriverInit, Init, NoLoan
<1> QED
  BY <1>1, <1>2 DEF LoanInv

(* Before a scenario is read, only main moves.                              *)
LEMMA NothingStarted ==
  ASSUME DriverInv, [DriverNext]_driverVars, choice = NoChoice
  PROVE UNCHANGED <<position, market, calls, pc, outcome>> /\ calls = <<>> /\ pc = 0
<1>1. pc = 0 /\ calls = <<>> /\ DOMAIN Script = {}
  BY NoScript DEF DriverInv
<1> QED
  BY <1>1 DEF DriverNext, Main, PreparationFails, ReadAndPublishContract, ProcessInboxStep,
     RunOperation,
     CallbackAndCollect, Revert, RefuseProposal, RunRefusedOperation, ReadStep, CheckStep,
     Terminate, ClockAdvances, Running, vars, driverVars, scriptVars

LEMMA LoanStep ==
  DriverInv /\ DriverTypes /\ DriverTypes' /\ ViewsTrue /\ LoanInv /\ [DriverNext]_driverVars
    => LoanInv'
<1> SUFFICES ASSUME DriverInv, DriverTypes, DriverTypes', ViewsTrue, LoanInv,
                    [DriverNext]_driverVars
             PROVE LoanInv'
  OBVIOUS
<1>0. NoChoice \notin RepaysExactly
  BY DEF NoChoice, RepaysExactly
<1>1. CASE choice = NoChoice
  <2>1. /\ UNCHANGED <<position, market>> /\ calls' = <<>> /\ pc' = 0
        /\ NoLoan
    BY <1>1, NothingStarted DEF LoanInv
  <2>2. NoLoan'
    BY <2>1 DEF NoLoan
  <2>3. CASE choice' \in RepaysExactly
    <3>1. PICK c \in RepaysExactly : c = choice'
      BY <2>3
    <3>2. PICK b \in Nat \ {0}, r \in Nat \ {0} :
            b < r /\ Debts(ScriptOf(c), DebtorOf(c), b, r)
      BY ScriptCycles DEF Cycles
    <3>3. PICK n \in Nat : n = Len(ScriptOf(c))
      BY ScriptCycles, ScriptLength DEF Cycles
    <3>4. PICK d : d = DebtorOf(c)
      OBVIOUS
    <3>5. Progress(n, d, b, r)'
      BY <2>1, <2>2 DEF Progress
    <3> QED
      BY <1>0, <2>3, <3>1, <3>2, <3>3, <3>4, <3>5 DEF LoanInv
  <2>4. CASE choice' \notin RepaysExactly
    BY <2>2, <2>4 DEF LoanInv
  <2> QED
    BY <2>3, <2>4
<1>2. CASE choice \in RepaysExactly
  <2>1. PICK b \in Nat \ {0}, r \in Nat \ {0} :
          /\ b < r /\ Debts(ScriptOf(choice), DebtorOf(choice), b, r)
          /\ Progress(Len(ScriptOf(choice)), DebtorOf(choice), b, r)
    BY <1>2 DEF LoanInv
  <2>2. PICK c \in RepaysExactly : c = choice
    BY <1>2
  <2>3. PICK s : s = ScriptOf(c)
    OBVIOUS
  <2>4. PICK d : d = DebtorOf(c)
    OBVIOUS
  <2>5. /\ s = Script /\ IsScript(s) /\ EndsChecked(s) /\ d \in Users
    <3>1. s = Script
      BY <2>2, <2>3 DEF Script, ScriptOf
    <3>2. d \in Users
      BY <2>4, ClientsTyped DEF DebtorOf
    <3> QED
      BY <2>3, <3>1, <3>2, ScriptCycles DEF Cycles
  <2>6. PICK n \in Nat : n = Len(s)
    BY <2>5, ScriptLength
  <2>7. choice' = choice /\ Progress(n, d, b, r)'
    <3>1. Debts(s, d, b, r) /\ Progress(n, d, b, r)
      BY <2>1, <2>2, <2>3, <2>4, <2>6
    <3> QED
      BY <1>2, <2>1, <2>5, <2>6, <3>1, ProgressStep
  <2>8. choice' = c
    BY <2>2, <2>7
  <2> QED
    BY <1>0, <1>2, <2>1, <2>2, <2>3, <2>4, <2>6, <2>7, <2>8 DEF LoanInv
<1>3. CASE choice # NoChoice /\ choice \notin RepaysExactly
  <2>1. choice' = choice
    BY <1>3 DEF DriverNext, Main, PreparationFails, ReadAndPublishContract, ProcessInboxStep,
       RunOperation,
       CallbackAndCollect, Revert, RefuseProposal, RunRefusedOperation, ReadStep, CheckStep,
       Terminate, ClockAdvances, driverVars, scriptVars
  <2> QED
    BY <1>3, <2>1 DEF LoanInv
<1> QED
  BY <1>1, <1>2, <1>3

-----------------------------------------------------------------------------
(* The loan that the other scenarios leave open, if they take one.          *)

(* Nothing is borrowed or repaid; a liquidation may take part.              *)
Settles(s) ==
  /\ IsScript(s)
  /\ \A i \in 1..Len(s) : s[i].do = "operation" => s[i].call.fn \notin {"borrow", "repay"}

(* The borrower may take a loan of this amount, before any liquidation.     *)
LendsOnce(s, amount) ==
  /\ IsScript(s)
  /\ \A i \in 1..Len(s) : s[i].do = "operation" =>
       /\ s[i].call.fn # "repay"
       /\ s[i].call.fn = "borrow" =>
            /\ s[i].sender = "borrower" /\ s[i].call.amount = amount
            /\ \A j \in 1..(i - 1) : ~IsDebtStep(s[j])

LEMMA DebtlessLends ==
  ASSUME NEW s, Debtless(s)
  PROVE Settles(s) /\ \A amount : LendsOnce(s, amount)
<1>1. IsScript(s) /\ \A i \in 1..Len(s) : ~IsDebtStep(s[i])
  BY DEF Debtless, Debts
<1> QED
  BY <1>1 DEF Settles, LendsOnce, IsDebtStep, DebtFunctions

LEMMA JoinSettles ==
  ASSUME NEW s, NEW t, Settles(s), Settles(t)
  PROVE Settles(s \o t)
<1>1. PICK S : s \in Seq(S)
  BY DEF IsScript, Settles
<1>2. PICK T : t \in Seq(T)
  BY DEF IsScript, Settles
<1>3. ASSUME NEW i \in 1..Len(s \o t), (s \o t)[i].do = "operation"
      PROVE (s \o t)[i].call.fn \notin {"borrow", "repay"}
  <2>1. CASE i \in 1..Len(s)
    BY <1>1, <1>2, <1>3, <2>1, JoinParts DEF Settles
  <2>2. CASE i \notin 1..Len(s)
    <3>1. i - Len(s) \in 1..Len(t) /\ i = Len(s) + (i - Len(s))
      BY <2>2, <1>1, <1>2, JoinParts
    <3>2. (s \o t)[i] = t[i - Len(s)]
      BY <3>1, <1>1, <1>2, JoinParts
    <3> QED
      BY <1>3, <3>1, <3>2 DEF Settles
  <2> QED
    BY <2>1, <2>2
<1> QED
  BY <1>3, JoinScripts DEF Settles

LEMMA JoinLends ==
  ASSUME NEW s, NEW t, NEW amount,
         \/ Debtless(s) /\ LendsOnce(t, amount)
         \/ LendsOnce(s, amount) /\ Settles(t)
  PROVE LendsOnce(s \o t, amount)
<1>0. /\ IsScript(s) /\ IsScript(t)
      /\ \A i \in 1..Len(s) : s[i].do = "operation" =>
           /\ s[i].call.fn # "repay"
           /\ s[i].call.fn = "borrow" =>
                /\ s[i].sender = "borrower" /\ s[i].call.amount = amount
                /\ \A j \in 1..(i - 1) : ~IsDebtStep(s[j])
      /\ \A i \in 1..Len(t) : t[i].do = "operation" =>
           /\ t[i].call.fn # "repay"
           /\ t[i].call.fn = "borrow" =>
                /\ t[i].sender = "borrower" /\ t[i].call.amount = amount
                /\ \A j \in 1..(i - 1) : ~IsDebtStep(t[j])
                /\ \A j \in 1..Len(s) : ~IsDebtStep(s[j])
  <2>1. CASE Debtless(s) /\ LendsOnce(t, amount)
    <3>1. \A j \in 1..Len(s) : ~IsDebtStep(s[j])
      BY <2>1 DEF Debtless, Debts
    <3>2. LendsOnce(s, amount) /\ LendsOnce(t, amount)
      BY <2>1, DebtlessLends
    <3> QED
      BY <3>1, <3>2 DEF LendsOnce
  <2>2. CASE LendsOnce(s, amount) /\ Settles(t)
    BY <2>2 DEF LendsOnce, Settles
  <2> QED
    BY <2>1, <2>2
<1>1. PICK S : s \in Seq(S)
  BY <1>0 DEF IsScript
<1>2. PICK T : t \in Seq(T)
  BY <1>0 DEF IsScript
<1>3. /\ Len(s \o t) = Len(s) + Len(t) /\ Len(s) \in Nat /\ Len(t) \in Nat
      /\ \A i \in 1..Len(s) : (s \o t)[i] = s[i]
      /\ \A i \in 1..Len(t) : (s \o t)[Len(s) + i] = t[i]
  BY <1>1, <1>2, JoinParts
<1> DEFINE j == s \o t
           n == Len(s)
<1>4. ASSUME NEW i \in 1..Len(j), j[i].do = "operation"
      PROVE /\ j[i].call.fn # "repay"
            /\ j[i].call.fn = "borrow" =>
                 /\ j[i].sender = "borrower" /\ j[i].call.amount = amount
                 /\ \A k \in 1..(i - 1) : ~IsDebtStep(j[k])
  <2>1. CASE i \in 1..n
    <3>1. j[i] = s[i] /\ \A k \in 1..(i - 1) : k \in 1..n /\ j[k] = s[k]
      BY <1>3, <2>1
    <3> QED
      BY <1>0, <1>4, <2>1, <3>1
  <2>2. CASE i \notin 1..n
    <3>1. i - n \in 1..Len(t) /\ i = n + (i - n)
      BY <1>3, <2>2
    <3>2. PICK e \in 1..Len(t) : i = n + e
      BY <3>1
    <3>3. j[i] = t[e]
      BY <1>3, <3>2
    <3>4. ASSUME j[i].call.fn = "borrow", NEW k \in 1..(i - 1)
          PROVE ~IsDebtStep(j[k])
      <4>0. t[e].do = "operation" /\ t[e].call.fn = "borrow"
        BY <1>4, <3>3, <3>4
      <4>1. CASE k \in 1..n
        <5>1. j[k] = s[k]
          BY <1>3, <4>1
        <5> QED
          BY <1>0, <4>0, <4>1, <5>1
      <4>2. CASE k \notin 1..n
        <5>1. k - n \in 1..(e - 1) /\ k - n \in 1..Len(t) /\ k = n + (k - n)
          BY <1>3, <3>2, <4>2
        <5>2. PICK f \in 1..(e - 1) : f \in 1..Len(t) /\ k = n + f
          BY <5>1
        <5>3. j[k] = t[f]
          BY <1>3, <5>2
        <5> QED
          BY <1>0, <4>0, <5>2, <5>3
      <4> QED
        BY <4>1, <4>2
    <3> QED
      BY <1>0, <1>4, <3>3, <3>4
  <2> QED
    BY <2>1, <2>2
<1> QED
  BY <1>0, <1>4, JoinScripts DEF LendsOnce

LEMMA LeadLends ==
  ASSUME NEW s, NEW t, NEW amount, Debtless(s), LendsOnce(t, amount)
  PROVE LendsOnce(s \o t, amount)
BY JoinLends

LEMMA LendsTail ==
  ASSUME NEW s, NEW t, NEW amount, LendsOnce(s, amount), Settles(t)
  PROVE LendsOnce(s \o t, amount)
BY JoinLends

(* The steps that these scenarios add.                                      *)
LEMMA BorrowingLends ==
  ASSUME NEW amount \in Nat
  PROVE LendsOnce(Borrowing("borrower", amount), amount)
<1> DEFINE x == Operation("borrower", MarketCall("borrow", amount))
           p == ProcessInbox(x.client)
           f == Fresh(x)
<1>1. IsScript(f) /\ Borrowing("borrower", amount) = f
  BY MarketReady, ClientsTyped DEF OperationReady, Prepared, Borrowing, MarketFunctions
<1>2. /\ x.do = "operation" /\ x.sender = "borrower"
      /\ x.call.fn = "borrow" /\ x.call.amount = amount
  BY DEF Operation, MarketCall
<1>3. Len(f) = 2 /\ f[1] = p /\ f[2] = x /\ p.do = "inbox"
  BY DEF Fresh, ProcessInbox
<1> HIDE DEF x, p, f
<1>4. \A i \in 1..Len(f) : (i = 1 \/ i = 2) /\ (\A j \in 1..(i - 1) : j = 1)
  BY <1>3
<1>5. ~IsDebtStep(p)
  BY <1>3 DEF IsDebtStep
<1> QED
  BY <1>1, <1>2, <1>3, <1>4, <1>5 DEF LendsOnce

LEMMA FreshSettles ==
  ASSUME NEW step, IsScript(Fresh(step)),
         step.do = "operation" => step.call.fn \notin {"borrow", "repay"}
  PROVE Settles(Fresh(step))
<1> DEFINE f == Fresh(step)
           p == ProcessInbox(step.client)
<1>1. Len(f) = 2 /\ f[1] = p /\ f[2] = step /\ p.do = "inbox"
  BY DEF Fresh, ProcessInbox
<1>2. IsScript(f)
  OBVIOUS
<1> HIDE DEF f, p
<1>3. \A i \in 1..Len(f) : i = 1 \/ i = 2
  BY <1>1
<1>4. Settles(f)
  BY <1>1, <1>2, <1>3 DEF Settles
<1> QED
  BY <1>4 DEF f

LEMMA LiquidatingSettles ==
  /\ Settles(Fresh(Operation("liquidator", MarketCall("liquidate", 100))))
  /\ Settles(Fresh(Through("regular", WithCallback("liquidate", 100))))
<1> DEFINE x == Operation("liquidator", MarketCall("liquidate", 100))
           y == Through("regular", WithCallback("liquidate", 100))
<1>1. IsScript(Fresh(x)) /\ IsScript(Fresh(y))
  BY MarketStepsReady, WrapperStepsReady DEF OperationReady, ThroughReady, Prepared
<1>2. x.call.fn = "liquidate" /\ y.call.fn = "liquidate"
  BY DEF Operation, Through, MarketCall, WithCallback
<1> HIDE DEF x, y
<1>3. Settles(Fresh(x)) /\ Settles(Fresh(y))
  BY <1>1, <1>2, FreshSettles
<1> QED
  BY <1>3 DEF x, y

LEMMA PlainDebtless ==
  /\ Debtless(Fresh(Operation("regular", [fn |-> "setPrice", percent |-> 80])))
  /\ Debtless(Fresh(Operation("regular", [fn |-> "accrueInterest"])))
  /\ Debtless(Fresh(Operation("regular", [fn |-> "resetCallbackFlags"])))
  /\ \A c \in Clients : \A q : Debtless(<<Read(c, q)>>) /\ Debtless(Fresh(Read(c, q)))
<1> DEFINE call == [fn |-> "setPrice", percent |-> 80]
<1>1. call.fn \notin DebtFunctions /\ "regular" \in Clients
  BY ClientsTyped DEF DebtFunctions
<1>2. CallTyped("regular", call) /\ OperationReady("regular", call)
  BY <1>1, OtherTyped, OtherReady
<1> HIDE DEF call
<1>3. Debtless(Fresh(Operation("regular", call)))
  BY <1>1, <1>2, OperationDebts
<1>4. ASSUME NEW c \in Clients, NEW q
      PROVE Debtless(<<Read(c, q)>>) /\ Debtless(Fresh(Read(c, q)))
  <2> DEFINE k == Read(c, q)
  <2>1. k.client = c /\ k.do = "read"
    BY DEF Read
  <2>2. IsScript(Fresh(k))
    BY QueryPrepared DEF Prepared
  <2> HIDE DEF k
  <2>3. StepTyped(k) /\ ~IsDebtStep(k)
    BY <2>1 DEF StepTyped, IsDebtStep
  <2>4. Debtless(<<k>>) /\ Debtless(Fresh(k))
    BY <2>2, <2>3, SingleDebtless, FreshDebts
  <2> QED
    BY <2>4 DEF k
<1> QED
  BY <1>1, <1>3, <1>4, OtherDebtless DEF call

(* The parts of these scenarios, in the scripts' order.                     *)
LEMMA MarketStepsDebtless ==
  /\ Debtless(SupplyFrom("supplier", 1000)) /\ Debtless(SupplyFrom("supplier", 10000))
  /\ Debtless(SupplyFrom("supplier2", 500)) /\ Debtless(CollateralFrom("borrower", 1000))
  /\ Debtless(Fund("loan", "liquidator", 1000)) /\ Debtless(Fund("loan", TestContract, 1000))
  /\ Debtless(Fund("collateral", TestContract, 1000))
  /\ Debtless(Fresh(Operation("supplier", MarketCall("withdraw", 500))))
  /\ Debtless(Fresh(Operation("supplier", MarketCall("withdraw", 1000))))
  /\ Debtless(Fresh(Operation("supplier2", MarketCall("withdraw", 500))))
  /\ Debtless(Fresh(Operation("borrower", MarketCall("supplyCollateral", 1000))))
<1>1. /\ "supplier" \in Users /\ "supplier2" \in Users /\ "borrower" \in Users
      /\ "liquidator" \in Users /\ TestContract \in Users
      /\ 500 \in Nat /\ 1000 \in Nat /\ 10000 \in Nat
  BY ClientsTyped
<1>2. /\ Debtless(Fund("loan", "supplier", 1000)) /\ Debtless(Fund("loan", "supplier", 10000))
      /\ Debtless(Fund("loan", "supplier2", 500)) /\ Debtless(Fund("collateral", "borrower", 1000))
      /\ Debtless(Fund("loan", "liquidator", 1000)) /\ Debtless(Fund("loan", TestContract, 1000))
      /\ Debtless(Fund("collateral", TestContract, 1000))
  BY <1>1, FundDebtless, ClientsTyped
<1>3. \A fn \in {"supply", "supplyCollateral", "withdraw"} :
        fn \in MarketFunctions /\ fn \notin DebtFunctions
  BY DEF MarketFunctions, DebtFunctions
<1>4. /\ Debtless(Fresh(Operation("supplier", MarketCall("supply", 1000))))
      /\ Debtless(Fresh(Operation("supplier", MarketCall("supply", 10000))))
      /\ Debtless(Fresh(Operation("supplier2", MarketCall("supply", 500))))
      /\ Debtless(Fresh(Operation("borrower", MarketCall("supplyCollateral", 1000))))
      /\ Debtless(Fresh(Operation("supplier", MarketCall("withdraw", 500))))
      /\ Debtless(Fresh(Operation("supplier", MarketCall("withdraw", 1000))))
      /\ Debtless(Fresh(Operation("supplier2", MarketCall("withdraw", 500))))
  BY <1>1, <1>3, MarketDebts, ClientsTyped
<1> QED
  BY <1>2, <1>4, JoinDebtless DEF SupplyFrom, CollateralFrom

LEMMA WrappersDebtless ==
  /\ Debtless(Fresh(Through("regular", ApproveCall("loan", 0))))
  /\ Debtless(Fresh(Through("regular", WithCallback("supply", 1000))))
  /\ Debtless(Fresh(Through("regular", WithCallback("supplyCollateral", 1000))))
<1>1. ASSUME NEW fn \in {"supply", "supplyCollateral"}
      PROVE Debtless(Fresh(Through("regular", WithCallback(fn, 1000))))
  <2> DEFINE call == WithCallback(fn, 1000)
  <2>1. call.fn \notin DebtFunctions /\ CallTyped(TestContract, call)
    BY ClientsTyped DEF WithCallback, DebtFunctions, CallTyped, MarketFunctions
  <2>2. "regular" \in Clients /\ ThroughReady("regular", call)
    BY WrapperStepsReady, ClientsTyped
  <2> HIDE DEF call
  <2>3. Debtless(Fresh(Through("regular", call)))
    BY <2>1, <2>2, OperationDebts
  <2> QED
    BY <2>3 DEF call
<1> QED
  BY <1>1, ApproveDebtless, ClientsTyped

LEMMA SimpleDebtless ==
  /\ Debtless(SimpleSupplyWithdraw) /\ Debtless(MultipleSuppliers)
  /\ Debtless(SupplyWithCallback) /\ Debtless(SupplyCollateralWithCallback)
<1>1. /\ Debtless(Fresh(Check("regular", Market(0), "=", 1000)))
      /\ Debtless(Fresh(Check("regular", Market(0), "=", 1500)))
      /\ Debtless(<<Check("supplier", BalanceOf("loan", "supplier"), "=", 500)>>)
      /\ Debtless(Fresh(Check("supplier", BalanceOf("loan", "supplier"), "=", 1000)))
      /\ Debtless(Fresh(Check("supplier2", BalanceOf("loan", "supplier2"), "=", 500)))
      /\ Debtless(<<Check("regular", Triggered("supply"), "=", 1)>>)
      /\ Debtless(<<Check("regular", Triggered("supplyCollateral"), "=", 1)>>)
  <2>1. /\ \A c \in Clients : \A q, r, e : Debtless(<<Check(c, q, r, e)>>)
        /\ \A c \in Clients : \A q, r, e : Debtless(Fresh(Check(c, q, r, e)))
    BY CheckDebtless
  <2>2. "regular" \in Clients /\ "supplier" \in Clients /\ "supplier2" \in Clients
    BY ClientsTyped
  <2>3. /\ Debtless(<<Check("supplier", BalanceOf("loan", "supplier"), "=", 500)>>)
        /\ Debtless(<<Check("regular", Triggered("supply"), "=", 1)>>)
        /\ Debtless(<<Check("regular", Triggered("supplyCollateral"), "=", 1)>>)
    BY <2>1, <2>2
  <2>4. /\ Debtless(Fresh(Check("regular", Market(0), "=", 1000)))
        /\ Debtless(Fresh(Check("regular", Market(0), "=", 1500)))
        /\ Debtless(Fresh(Check("supplier", BalanceOf("loan", "supplier"), "=", 1000)))
        /\ Debtless(Fresh(Check("supplier2", BalanceOf("loan", "supplier2"), "=", 500)))
    BY <2>1, <2>2
  <2> QED
    BY <2>3, <2>4
<1>3. Debtless(SimpleSupplyWithdraw)
  BY <1>1, MarketStepsDebtless, JoinDebtless DEF SimpleSupplyWithdraw
<1>4. Debtless(MultipleSuppliers)
  BY <1>1, MarketStepsDebtless, JoinDebtless DEF MultipleSuppliers
<1>5. Debtless(SupplyWithCallback)
  BY <1>1, MarketStepsDebtless, PlainDebtless, WrappersDebtless, JoinDebtless
     DEF SupplyWithCallback
<1>6. Debtless(SupplyCollateralWithCallback)
  BY <1>1, MarketStepsDebtless, PlainDebtless, WrappersDebtless, JoinDebtless
     DEF SupplyCollateralWithCallback
<1> QED
  BY <1>3, <1>4, <1>5, <1>6

LEMMA LiquidationLends ==
  LendsOnce(Liquidation, 700) /\ LendsOnce(LiquidateWithCallback, 700)
<1>1. \A c \in Clients : \A q, r, e : Debtless(<<Check(c, q, r, e)>>)
  BY CheckDebtless
<1>2. "regular" \in Clients /\ "liquidator" \in Clients /\ 700 \in Nat
  BY ClientsTyped
<1> DEFINE lead == SupplyFrom("supplier", 10000) \o CollateralFrom("borrower", 1000)
           taken == lead \o Borrowing("borrower", 700)
                      \o Fresh(Operation("regular", [fn |-> "setPrice", percent |-> 80]))
<1>3. Debtless(lead)
  BY MarketStepsDebtless, JoinDebtless
<1> HIDE DEF lead
<1>4. LendsOnce(taken, 700)
  BY <1>2, <1>3, BorrowingLends, PlainDebtless, DebtlessLends, LeadLends, LendsTail
<1>5. /\ Liquidation = taken
           \o Fund("loan", "liquidator", 1000)
           \o <<Read("liquidator", BalanceOf("collateral", "liquidator"))>>
           \o Fresh(Operation("liquidator", MarketCall("liquidate", 100)))
           \o <<Check("liquidator", BalanceOf("collateral", "liquidator"), ">", "remembered")>>
      /\ LiquidateWithCallback = taken
           \o Fund("loan", TestContract, 1000)
           \o Fresh(Operation("regular", [fn |-> "resetCallbackFlags"]))
           \o Fresh(Through("regular", WithCallback("liquidate", 100)))
           \o <<Check("regular", Triggered("liquidate"), "=", 1)>>
  BY DEF Liquidation, LiquidateWithCallback, lead
<1> HIDE DEF taken
<1>6. /\ Settles(Fund("loan", "liquidator", 1000)) /\ Settles(Fund("loan", TestContract, 1000))
      /\ Settles(<<Read("liquidator", BalanceOf("collateral", "liquidator"))>>)
      /\ Settles(<<Check("liquidator", BalanceOf("collateral", "liquidator"), ">", "remembered")>>)
      /\ Settles(Fresh(Operation("regular", [fn |-> "resetCallbackFlags"])))
      /\ Settles(<<Check("regular", Triggered("liquidate"), "=", 1)>>)
  BY <1>1, <1>2, MarketStepsDebtless, PlainDebtless, DebtlessLends
<1>7. LendsOnce(Liquidation, 700)
  BY <1>4, <1>5, <1>6, LiquidatingSettles, LendsTail
<1>8. LendsOnce(LiquidateWithCallback, 700)
  BY <1>4, <1>5, <1>6, LiquidatingSettles, LendsTail
<1> QED
  BY <1>7, <1>8

LEMMA AccrualLends == LendsOnce(InterestAccrual, 500)
<1>1. /\ Debtless(Fresh(Read("regular", Market(64))))
      /\ Debtless(Fresh(Check("regular", Market(64), ">=", "remembered")))
      /\ Debtless(Fresh(Operation("regular", [fn |-> "accrueInterest"])))
  BY CheckDebtless, PlainDebtless, ClientsTyped
<1> DEFINE lead == SupplyFrom("supplier", 10000) \o CollateralFrom("borrower", 1000)
<1>2. Debtless(lead)
  BY MarketStepsDebtless, JoinDebtless
<1>3. InterestAccrual = lead \o Borrowing("borrower", 500)
        \o Fresh(Read("regular", Market(64)))
        \o Fresh(Operation("regular", [fn |-> "accrueInterest"]))
        \o Fresh(Check("regular", Market(64), ">=", "remembered"))
  BY DEF InterestAccrual
<1> HIDE DEF lead
<1>4. LendsOnce(lead \o Borrowing("borrower", 500), 500)
  BY <1>2, BorrowingLends, LeadLends
<1> QED
  BY <1>1, <1>3, <1>4, DebtlessLends, LendsTail

LEMMA PairDebtless ==
  ASSUME NEW a, NEW b, StepTyped(a), ~IsDebtStep(a), StepTyped(b), ~IsDebtStep(b)
  PROVE Debtless(<<a, b>>)
<1> DEFINE t == <<a, b>>
<1>1. t \in Seq({a, b}) /\ Len(t) = 2 /\ t[1] = a /\ t[2] = b
  OBVIOUS
<1> HIDE DEF t
<1>2. \A i \in 1..Len(t) : i = 1 \/ i = 2
  BY <1>1
<1>3. Debtless(t)
  BY <1>1, <1>2 DEF Debtless, Debts, IsScript
<1> QED
  BY <1>3 DEF t

LEMMA CapacityLends == LendsOnce(MaxBorrowCapacity, LargestLoan)
<1> DEFINE inbox == ProcessInbox("regular")
           funded == Operation("borrower", SetBalanceCall("collateral", "borrower", 1000))
           last == ProcessInbox("borrower")
           refused == [Operation("borrower", MarketCall("borrow", 2))
                         EXCEPT !.do = "has to fail"]
<1>1. /\ StepTyped(inbox) /\ ~IsDebtStep(inbox) /\ StepTyped(last) /\ ~IsDebtStep(last)
      /\ StepTyped(funded) /\ ~IsDebtStep(funded)
      /\ StepTyped(refused) /\ ~IsDebtStep(refused)
  BY BalanceTyped, ClientsTyped
     DEF ProcessInbox, Operation, StepTyped, IsDebtStep, DebtFunctions, SetBalanceCall
<1> HIDE DEF inbox, funded, last, refused
<1>2. Debtless(<<inbox, funded>>) /\ Debtless(<<last, refused>>)
  BY <1>1, PairDebtless
<1> DEFINE lead == SupplyFrom("supplier", 10000) \o <<inbox, funded>>
                     \o Fresh(Operation("borrower", MarketCall("supplyCollateral", 1000)))
           x == <<inbox, funded>>
           y == <<last, refused>>
<1>3. MaxBorrowCapacity = lead \o Borrowing("borrower", LargestLoan) \o y
  BY DEF MaxBorrowCapacity, LargestLoan, inbox, funded, last, refused
<1>4. Debtless(y)
  BY <1>2
<1>5. Debtless(lead)
  <2>1. Debtless(x)
    BY <1>2
  <2>2. lead = SupplyFrom("supplier", 10000) \o x
                 \o Fresh(Operation("borrower", MarketCall("supplyCollateral", 1000)))
    OBVIOUS
  <2> HIDE DEF x, lead
  <2> QED
    BY <2>1, <2>2, MarketStepsDebtless, JoinDebtless
<1> HIDE DEF lead, x, y
<1>6. LendsOnce(lead \o Borrowing("borrower", LargestLoan), LargestLoan)
  BY <1>5, LargestLoanNat, BorrowingLends, LeadLends
<1> QED
  BY <1>3, <1>4, <1>6, DebtlessLends, LendsTail

(* A scenario that does not repay exactly takes at most the loan that it    *)
(* leaves open.                                                             *)
LEMMA ScriptLends ==
  ASSUME NEW c \in TestChoices, c \notin RepaysExactly
  PROVE LendsOnce(ScriptOf(c), Unrepaid(c)) /\ Unrepaid(c) \in Nat
<1> DEFINE before == SetUp \o Approvals
           scenario == Scenarios[c + 1]
<1>1. c \in {0, 2, 3, 4, 5, 6, 7, 9} /\ c # NoChoice
  BY ScenariosPrepared DEF TestChoices, RepaysExactly, NoChoice
<1>2. LendsOnce(scenario, Unrepaid(c)) /\ Unrepaid(c) \in Nat
  <2>1. CASE c \in {0, 4, 6, 7}
    <3>1. scenario \in {SimpleSupplyWithdraw, MultipleSuppliers, SupplyWithCallback,
                        SupplyCollateralWithCallback}
      BY <2>1 DEF Scenarios
    <3>2. Unrepaid(c) = 0
      BY <2>1 DEF Unrepaid
    <3> QED
      BY <3>1, <3>2, SimpleDebtless, DebtlessLends
  <2>2. CASE c \in {2, 9}
    <3>1. scenario \in {Liquidation, LiquidateWithCallback}
      BY <2>2 DEF Scenarios
    <3>2. Unrepaid(c) = 700
      BY <2>2 DEF Unrepaid
    <3> QED
      BY <3>1, <3>2, LiquidationLends
  <2>3. CASE c = 3
    <3>1. scenario = InterestAccrual
      BY <2>3 DEF Scenarios
    <3>2. Unrepaid(c) = 500
      BY <2>3 DEF Unrepaid
    <3> QED
      BY <3>1, <3>2, AccrualLends
  <2>4. CASE c = 5
    <3>1. scenario = MaxBorrowCapacity
      BY <2>4 DEF Scenarios
    <3>2. Unrepaid(c) = LargestLoan
      BY <2>4 DEF Unrepaid, LargestLoan
    <3> QED
      BY <3>1, <3>2, CapacityLends, LargestLoanNat
  <2> QED
    BY <1>1, <2>1, <2>2, <2>3, <2>4
<1>3. ScriptOf(c) = before \o scenario
  BY <1>1, Zenon DEF ScriptOf
<1> HIDE DEF before, scenario
<1> QED
  BY <1>2, <1>3, SetUpDebtless, LeadLends DEF before

-----------------------------------------------------------------------------
(* What the test contract approves outside its callbacks: only choice 8     *)
(* has it approve anything.                                                 *)
GentleStep(step) ==
  step.do = "operation" /\ step.sender = TestContract /\ step.call.fn = "approve" =>
    step.call.amount = 0

Gentle(s) == \E S : s \in Seq(S) /\ \A step \in S : GentleStep(step)

LEMMA JoinGentle ==
  ASSUME NEW s, NEW t, Gentle(s), Gentle(t)
  PROVE Gentle(s \o t)
<1>1. PICK S : s \in Seq(S) /\ \A step \in S : GentleStep(step)
  BY DEF Gentle
<1>2. PICK T : t \in Seq(T) /\ \A step \in T : GentleStep(step)
  BY DEF Gentle
<1>3. s \o t \in Seq(S \cup T) /\ \A step \in S \cup T : GentleStep(step)
  BY <1>1, <1>2, JoinParts
<1> QED
  BY <1>3 DEF Gentle

LEMMA FreshGentle ==
  ASSUME NEW step, GentleStep(step)
  PROVE Gentle(Fresh(step)) /\ Gentle(<<step>>)
<1> DEFINE p == ProcessInbox(step.client)
           f == Fresh(step)
           t == <<step>>
           S == {p, step}
<1>1. f \in Seq(S) /\ t \in Seq(S)
  BY DEF Fresh
<1>2. p.do = "inbox"
  BY DEF ProcessInbox
<1> HIDE DEF p, f, t
<1>3. \A x \in S : GentleStep(x)
  BY <1>2 DEF GentleStep
<1> HIDE DEF S
<1>4. Gentle(f) /\ Gentle(t)
  BY <1>1, <1>3 DEF Gentle
<1> QED
  BY <1>4 DEF f, t

LEMMA ClientsGentle ==
  ASSUME NEW c \in Clients, NEW call
  PROVE Gentle(Fresh(Operation(c, call))) /\ Gentle(<<Operation(c, call)>>)
<1> DEFINE x == Operation(c, call)
<1>1. x.sender = c /\ c # TestContract
  BY ClientsTyped DEF Operation
<1> HIDE DEF x
<1>2. Gentle(Fresh(x)) /\ Gentle(<<x>>)
  BY <1>1, FreshGentle DEF GentleStep
<1> QED
  BY <1>2 DEF x

LEMMA WrapperGentle ==
  ASSUME NEW c, NEW call, call.fn = "approve" => call.amount = 0
  PROVE Gentle(Fresh(Through(c, call)))
<1> DEFINE x == Through(c, call)
<1>1. x.call = call
  BY DEF Through
<1> HIDE DEF x
<1>2. Gentle(Fresh(x))
  BY <1>1, FreshGentle DEF GentleStep
<1> QED
  BY <1>2 DEF x

LEMMA QueriesGentle ==
  ASSUME NEW c, NEW q, NEW r, NEW e
  PROVE /\ Gentle(Fresh(Check(c, q, r, e))) /\ Gentle(<<Check(c, q, r, e)>>)
        /\ Gentle(Fresh(Read(c, q))) /\ Gentle(<<Read(c, q)>>)
<1> DEFINE x == Check(c, q, r, e)
           y == Read(c, q)
<1>1. x.do = "check" /\ y.do = "read"
  BY DEF Check, Read
<1> HIDE DEF x, y
<1>2. Gentle(Fresh(x)) /\ Gentle(<<x>>) /\ Gentle(Fresh(y)) /\ Gentle(<<y>>)
  BY <1>1, FreshGentle DEF GentleStep
<1> QED
  BY <1>2 DEF x, y

LEMMA PartsGentle ==
  /\ \A token, u, amount : Gentle(Fund(token, u, amount))
  /\ \A c \in Clients : \A amount :
       /\ Gentle(SupplyFrom(c, amount)) /\ Gentle(CollateralFrom(c, amount))
       /\ Gentle(Borrowing(c, amount))
<1>1. ASSUME NEW token, NEW u, NEW amount
      PROVE Gentle(Fund(token, u, amount))
  BY ClientsGentle, ClientsTyped DEF Fund
<1>2. ASSUME NEW c \in Clients, NEW amount
      PROVE /\ Gentle(SupplyFrom(c, amount)) /\ Gentle(CollateralFrom(c, amount))
            /\ Gentle(Borrowing(c, amount))
  BY <1>1, <1>2, ClientsGentle, JoinGentle DEF SupplyFrom, CollateralFrom, Borrowing
<1> QED
  BY <1>1, <1>2

(* The parts of the scripts.                                                *)
LEMMA FundsGentle ==
  /\ Gentle(SupplyFrom("supplier", 1000)) /\ Gentle(SupplyFrom("supplier", 10000))
  /\ Gentle(SupplyFrom("supplier2", 500)) /\ Gentle(CollateralFrom("borrower", 1000))
  /\ Gentle(Borrowing("borrower", 600)) /\ Gentle(Borrowing("borrower", 700))
  /\ Gentle(Borrowing("borrower", 500)) /\ Gentle(Borrowing("borrower", LargestLoan))
  /\ Gentle(Fund("loan", "liquidator", 1000)) /\ Gentle(Fund("loan", TestContract, 1000))
  /\ Gentle(Fund("collateral", TestContract, 1000))
BY PartsGentle, ClientsTyped

LEMMA OperationsGentle ==
  /\ Gentle(Fresh(Operation("supplier", MarketCall("withdraw", 500))))
  /\ Gentle(Fresh(Operation("supplier", MarketCall("withdraw", 1000))))
  /\ Gentle(Fresh(Operation("supplier2", MarketCall("withdraw", 500))))
  /\ Gentle(Fresh(Operation("borrower", MarketCall("repay", 600))))
  /\ Gentle(Fresh(Operation("borrower", MarketCall("withdrawCollateral", 1000))))
  /\ Gentle(Fresh(Operation("borrower", MarketCall("supplyCollateral", 1000))))
  /\ Gentle(Fresh(Operation("liquidator", MarketCall("liquidate", 100))))
  /\ Gentle(Fresh(Operation("regular", [fn |-> "setPrice", percent |-> 80])))
  /\ Gentle(Fresh(Operation("regular", [fn |-> "accrueInterest"])))
  /\ Gentle(Fresh(Operation("regular", [fn |-> "resetCallbackFlags"])))
<1>1. \A c \in Clients : \A call : Gentle(Fresh(Operation(c, call)))
  BY ClientsGentle
<1> QED
  BY <1>1, ClientsTyped

LEMMA AnswersGentle ==
  /\ Gentle(Fresh(Check("regular", Market(0), "=", 1000)))
  /\ Gentle(Fresh(Check("regular", Market(0), "=", 1500)))
  /\ Gentle(Fresh(Check("regular", Market(64), "=", 0)))
  /\ Gentle(Fresh(Check("regular", Market(64), ">=", "remembered")))
  /\ Gentle(Fresh(Check("supplier", BalanceOf("loan", "supplier"), "=", 1000)))
  /\ Gentle(Fresh(Check("supplier2", BalanceOf("loan", "supplier2"), "=", 500)))
  /\ Gentle(<<Check("supplier", BalanceOf("loan", "supplier"), "=", 500)>>)
  /\ Gentle(<<Check("borrower", BalanceOf("loan", "borrower"), "=", 600)>>)
  /\ Gentle(<<Check("borrower", BalanceOf("collateral", "borrower"), "=", 1000)>>)
  /\ Gentle(<<Check("liquidator", BalanceOf("collateral", "liquidator"), ">", "remembered")>>)
  /\ Gentle(<<Check("regular", Triggered("supply"), "=", 1)>>)
  /\ Gentle(<<Check("regular", Triggered("supplyCollateral"), "=", 1)>>)
  /\ Gentle(<<Check("regular", Triggered("liquidate"), "=", 1)>>)
  /\ Gentle(Fresh(Read("regular", Market(64))))
  /\ Gentle(<<Read("liquidator", BalanceOf("collateral", "liquidator"))>>)
<1>1. \A c, q, r, e : Gentle(Fresh(Check(c, q, r, e)))
  BY QueriesGentle
<1>2. \A c, q, r, e : Gentle(<<Check(c, q, r, e)>>)
  BY QueriesGentle
<1>3. \A c, q : Gentle(Fresh(Read(c, q)))
  BY QueriesGentle
<1>4. \A c, q : Gentle(<<Read(c, q)>>)
  BY QueriesGentle
<1> QED
  BY <1>1, <1>2, <1>3, <1>4

LEMMA WrappersGentle ==
  /\ Gentle(Fresh(Through("regular", ApproveCall("loan", 0))))
  /\ Gentle(Fresh(Through("regular", WithCallback("supply", 1000))))
  /\ Gentle(Fresh(Through("regular", WithCallback("supplyCollateral", 1000))))
  /\ Gentle(Fresh(Through("regular", WithCallback("liquidate", 100))))
<1>1. ApproveCall("loan", 0).amount = 0
  BY DEF ApproveCall
<1>2. /\ WithCallback("supply", 1000).fn # "approve"
      /\ WithCallback("supplyCollateral", 1000).fn # "approve"
      /\ WithCallback("liquidate", 100).fn # "approve"
  BY DEF WithCallback
<1> QED
  BY <1>1, <1>2, WrapperGentle

LEMMA SetUpGentle == Gentle(SetUp \o Approvals)
<1> DEFINE first == Operation("regular", [fn |-> "set_addresses"])
           second == Operation("regular", [fn |-> "set_up_part_a"])
           t == <<first, second>>
           S == {first, second}
<1>1. t \in Seq(S)
  OBVIOUS
<1>2. \A x \in S : GentleStep(x)
  BY ClientsTyped DEF GentleStep, Operation
<1>3. SetUp = t \o Fresh(Operation("owner", [fn |-> "enableIrm"]))
                \o Fresh(Operation("owner", [fn |-> "enableLltv"]))
                \o Fresh(Operation("regular", [fn |-> "set_up_part_c"]))
  BY DEF SetUp
<1> HIDE DEF first, second, t, S
<1>4. Gentle(t)
  BY <1>1, <1>2 DEF Gentle
<1>5. Gentle(SetUp)
  BY <1>3, <1>4, ClientsGentle, ClientsTyped, JoinGentle
<1>6. Gentle(Approvals)
  BY ClientsGentle, ClientsTyped, JoinGentle DEF Approvals
<1> QED
  BY <1>5, <1>6, JoinGentle

LEMMA PlainGentle ==
  /\ Gentle(SimpleSupplyWithdraw) /\ Gentle(MultipleSuppliers)
  /\ Gentle(CompleteBorrowRepayCycle) /\ Gentle(Liquidation) /\ Gentle(InterestAccrual)
<1>1. Gentle(SimpleSupplyWithdraw)
  BY FundsGentle, OperationsGentle, AnswersGentle, JoinGentle DEF SimpleSupplyWithdraw
<1>2. Gentle(MultipleSuppliers)
  BY FundsGentle, OperationsGentle, AnswersGentle, JoinGentle DEF MultipleSuppliers
<1>3. Gentle(CompleteBorrowRepayCycle)
  BY FundsGentle, OperationsGentle, AnswersGentle, JoinGentle
     DEF CompleteBorrowRepayCycle
<1>4. Gentle(Liquidation)
  BY FundsGentle, OperationsGentle, AnswersGentle, JoinGentle DEF Liquidation
<1>5. Gentle(InterestAccrual)
  BY FundsGentle, OperationsGentle, AnswersGentle, JoinGentle DEF InterestAccrual
<1> QED
  BY <1>1, <1>2, <1>3, <1>4, <1>5

LEMMA CallbacksGentle ==
  /\ Gentle(SupplyWithCallback) /\ Gentle(SupplyCollateralWithCallback)
  /\ Gentle(LiquidateWithCallback)
<1>2. Gentle(SupplyWithCallback)
  BY FundsGentle, OperationsGentle, WrappersGentle, AnswersGentle, JoinGentle
     DEF SupplyWithCallback
<1>3. Gentle(SupplyCollateralWithCallback)
  BY FundsGentle, OperationsGentle, WrappersGentle, AnswersGentle, JoinGentle
     DEF SupplyCollateralWithCallback
<1>4. Gentle(LiquidateWithCallback)
  BY FundsGentle, OperationsGentle, WrappersGentle, AnswersGentle, JoinGentle
     DEF LiquidateWithCallback
<1> QED
  BY <1>2, <1>3, <1>4

LEMMA CapacityGentle == Gentle(MaxBorrowCapacity)
<1> DEFINE inbox == ProcessInbox("regular")
           funded == Operation("borrower", SetBalanceCall("collateral", "borrower", 1000))
           last == ProcessInbox("borrower")
           refused == [Operation("borrower", MarketCall("borrow", 2))
                         EXCEPT !.do = "has to fail"]
           x == <<inbox, funded>>
           y == <<last, refused>>
           S == {inbox, funded, last, refused}
<1>1. x \in Seq(S) /\ y \in Seq(S)
  OBVIOUS
<1>2. \A step \in S : GentleStep(step)
  <2>1. /\ inbox.do = "inbox" /\ last.do = "inbox" /\ refused.do = "has to fail"
        /\ funded.sender = "borrower" /\ "borrower" # TestContract
    BY ClientsTyped DEF Operation, ProcessInbox
  <2> HIDE DEF inbox, last, refused, funded
  <2> QED
    BY <2>1 DEF GentleStep
<1>3. MaxBorrowCapacity =
        SupplyFrom("supplier", 10000) \o x
          \o Fresh(Operation("borrower", MarketCall("supplyCollateral", 1000)))
          \o Borrowing("borrower", (1000 * LLTV) \div WAD - 1) \o y
  BY DEF MaxBorrowCapacity
<1> HIDE DEF inbox, funded, last, refused, x, y, S
<1>4. Gentle(x) /\ Gentle(y)
  BY <1>1, <1>2 DEF Gentle
<1> QED
  BY <1>3, <1>4, FundsGentle, OperationsGentle, JoinGentle DEF LargestLoan

LEMMA ScriptGentle ==
  ASSUME NEW c \in TestChoices, c # 8
  PROVE Gentle(ScriptOf(c))
<1> DEFINE before == SetUp \o Approvals
           scenario == Scenarios[c + 1]
<1>1. c \in {0, 1, 2, 3, 4, 5, 6, 7, 9} /\ c # NoChoice
  BY ScenariosPrepared DEF TestChoices, NoChoice
<1>2. scenario \in {SimpleSupplyWithdraw, CompleteBorrowRepayCycle, Liquidation,
                    InterestAccrual, MultipleSuppliers, MaxBorrowCapacity, SupplyWithCallback,
                    SupplyCollateralWithCallback, LiquidateWithCallback}
  BY <1>1 DEF Scenarios
<1>3. Gentle(scenario)
  BY <1>2, PlainGentle, CallbacksGentle, CapacityGentle
<1>4. ScriptOf(c) = before \o scenario
  BY <1>1, Zenon DEF ScriptOf
<1> HIDE DEF before, scenario
<1> QED
  BY <1>3, <1>4, SetUpGentle, JoinGentle DEF before

-----------------------------------------------------------------------------
(* What is owed in those scenarios: nothing until the loan is taken, then   *)
(* never more than its shares.                                              *)
OwedAtMost(amount) ==
  \A u \in Accounts :
    position[u].borrowShares <= IF u = "borrower" THEN amount * VIRTUAL_SHARES ELSE 0

Lending(i) == Script[i].do = "operation" /\ Script[i].call.fn = "borrow"

OwedInv ==
  choice \in TestChoices \ RepaysExactly =>
    /\ OwedAtMost(Unrepaid(choice))
    /\ \A i \in 1..Len(Script) : pc <= i /\ Lending(i) => NoLoan

LEMMA SettlingLowersDebt ==
  ASSUME DriverTypes, NEW sender, NEW call, CallTyped(sender, call),
         call.fn \notin {"borrow", "repay"}, Execute(sender, call)
  PROVE \A u \in Accounts : position'[u].borrowShares <= position[u].borrowShares
<1>0. MorphoInv
  BY DEF DriverTypes
<1>1. \A u \in Accounts : position[u].borrowShares \in Nat
  BY <1>0, MorphoAssumption DEF MorphoInv, TypeOK, Positions
<1>2. CASE call.fn # "liquidate"
  <2>1. LoanKept
    BY <1>2, ExecuteKeepsLoan DEF DebtFunctions
  <2> QED
    BY <1>1, <2>1 DEF LoanKept
<1>3. CASE call.fn = "liquidate"
  <2>1. /\ sender \in Users /\ "borrower" \in Users /\ call.amount \in Nat
        /\ Liquidate(sender, "borrower", call.amount, 0, call.data)
    BY <1>3, ClientsTyped
       DEF CallTyped, MarketFunctions, Execute, SetUpCall, TokenCall, OtherCall, CallMorpho
  <2>2. PICK s \in Nat, c \in Nat, a \in Nat, b \in Nat, bad \in Nat :
          Effect("borrower", 0, -s, -c, -bad, -(b + bad), a)
    BY <1>0, <2>1, LiquidateEffect
  <2>3. \A u \in Accounts :
          /\ AccruedPosition[u].borrowShares = position[u].borrowShares
          /\ position'[u].borrowShares = IF u = "borrower"
                                         THEN AccruedPosition[u].borrowShares + (-s)
                                         ELSE AccruedPosition[u].borrowShares
    BY <1>0, <2>2, AccruedLoan DEF Effect, PositionMoves, Shifted
  <2> QED
    BY <1>1, <2>3
<1> QED
  BY <1>2, <1>3

LEMMA OwedStays ==
  ASSUME MorphoInv, MorphoInv', NEW amount \in Nat, OwedAtMost(amount),
         \A u \in Accounts : position'[u].borrowShares <= position[u].borrowShares
  PROVE OwedAtMost(amount)'
<1>1. VIRTUAL_SHARES \in Nat
  BY MorphoAssumption
<1>2. \A u \in Accounts : position[u].borrowShares \in Nat /\ position'[u].borrowShares \in Nat
  BY MorphoAssumption DEF MorphoInv, TypeOK, Positions
<1> DEFINE most == amount * VIRTUAL_SHARES
<1>3. most \in Nat
  BY <1>1
<1> HIDE DEF most
<1>4. \A u \in Accounts : position[u].borrowShares <= IF u = "borrower" THEN most ELSE 0
  BY DEF OwedAtMost, most
<1>5. \A u \in Accounts : position'[u].borrowShares <= IF u = "borrower" THEN most ELSE 0
  BY <1>2, <1>3, <1>4
<1> QED
  BY <1>5 DEF OwedAtMost, most

(* An operation of such a scenario.                                         *)
LEMMA OperationOwed ==
  ASSUME DriverInv, DriverTypes, DriverTypes', NEW s, s = Script, NEW amount \in Nat,
         LendsOnce(s, amount), OwedAtMost(amount), RunOperation,
         \A i \in 1..Len(s) : pc <= i /\ Lending(i) => NoLoan
  PROVE /\ OwedAtMost(amount)'
        /\ \A i \in 1..Len(s) : pc' <= i /\ Lending(i) => NoLoan'
<1>1. /\ pc \in 1..Len(s) /\ Len(s) \in Nat /\ Step = s[pc] /\ calls = <<>>
      /\ Step.do = "operation" /\ Execute(Step.sender, Step.call)
      /\ IF calls' = <<>> THEN pc' = pc + 1 ELSE pc' = pc
      /\ CallTyped(Step.sender, Step.call)
  BY ScriptLength, OperationTyped
     DEF RunOperation, Running, Continue, Step, LendsOnce, IsScript
<1>2. /\ Step.call.fn # "repay"
      /\ Step.call.fn = "borrow" => Step.sender = "borrower" /\ Step.call.amount = amount
      /\ \A i \in 1..Len(s) : Lending(i) => \A j \in 1..(i - 1) : ~IsDebtStep(s[j])
  BY <1>1 DEF LendsOnce, Lending
<1>3. MorphoInv /\ MorphoInv'
  BY DEF DriverTypes
<1>4. CASE Step.call.fn = "borrow"
  <2>1. Lending(pc) /\ pc <= pc
    BY <1>1, <1>4 DEF Lending, Step
  <2>2. NoLoan
    BY <1>1, <2>1
  <2>3. Borrow("borrower", amount, 0, "borrower", "borrower") /\ "borrower" \in Users
    BY <1>1, <1>2, <1>4, ClientsTyped
       DEF Execute, SetUpCall, TokenCall, OtherCall, CallMorpho
  <2>4. /\ calls' = <<>>
        /\ \A u \in Accounts : position'[u].borrowShares =
             IF u = "borrower" THEN amount * VIRTUAL_SHARES ELSE 0
    BY <1>1, <1>3, <2>2, <2>3, FirstLoan
  <2>5. OwedAtMost(amount)'
    <3> DEFINE most == amount * VIRTUAL_SHARES
    <3>1. most \in Nat
      BY MorphoAssumption
    <3>2. \A u \in Accounts : position'[u].borrowShares = IF u = "borrower" THEN most ELSE 0
      BY <2>4
    <3> HIDE DEF most
    <3>3. \A u \in Accounts : position'[u].borrowShares <= IF u = "borrower" THEN most ELSE 0
      BY <3>1, <3>2
    <3> QED
      BY <3>3 DEF OwedAtMost, most
  <2>6. ASSUME NEW i \in 1..Len(s), pc' <= i, Lending(i)
        PROVE FALSE
    <3>1. pc \in 1..(i - 1)
      BY <1>1, <2>4, <2>6
    <3>2. IsDebtStep(s[pc])
      BY <1>1, <1>4 DEF IsDebtStep, DebtFunctions
    <3> QED
      BY <1>2, <2>6, <3>1, <3>2
  <2> QED
    BY <2>5, <2>6
<1>5. CASE Step.call.fn # "borrow"
  <2>1. OwedAtMost(amount)'
    BY <1>1, <1>2, <1>3, <1>5, SettlingLowersDebt, OwedStays
  <2>2. ASSUME NEW i \in 1..Len(s), pc' <= i, Lending(i)
        PROVE NoLoan'
    <3>1. pc # i
      BY <1>1, <1>5, <2>2 DEF Lending
    <3>2. pc \in 1..(i - 1) /\ pc <= i
      BY <1>1, <2>2, <3>1
    <3>3. Step.call.fn \notin DebtFunctions
      BY <1>1, <1>2, <2>2, <3>2 DEF IsDebtStep
    <3>4. LoanKept
      BY <1>1, <3>3, ExecuteKeepsLoan
    <3> QED
      BY <1>3, <2>2, <3>2, <3>4, LoanStays
  <2> QED
    BY <2>1, <2>2
<1> QED
  BY <1>4, <1>5

LEMMA InitOwed == DriverInit => OwedInv
<1>1. NoChoice \notin TestChoices
  BY DEF NoChoice, TestChoices
<1> QED
  BY <1>1 DEF DriverInit, OwedInv

(* The other steps leave positions alone, and the script moves forward.     *)
LEMMA OthersMoveForward ==
  ASSUME DriverInv, [DriverNext]_driverVars, choice # NoChoice
  PROVE /\ choice' = choice
        /\ RunOperation \/ (UNCHANGED <<position, market>> /\ pc' \in {pc, pc + 1})
<1>1. CASE Main
  BY <1>1 DEF Main
<1>2. CASE PreparationFails \/ ReadAndPublishContract \/ ProcessInboxStep
  BY <1>2 DEF PreparationFails, ReadAndPublishContract, ProcessInboxStep, Continue, Fail, vars
<1>3. CASE RunOperation
  BY <1>3 DEF RunOperation
<1>4. CASE CallbackAndCollect
  BY <1>4 DEF CallbackAndCollect, EndCallback, Continue
<1>5. CASE Revert \/ RefuseProposal \/ RunRefusedOperation
  BY <1>5 DEF Revert, RefuseProposal, RunRefusedOperation, Continue, Fail, vars
<1>6. CASE ReadStep \/ CheckStep \/ Terminate
  BY <1>6 DEF ReadStep, CheckStep, Terminate, Continue, Fail, vars
<1>7. CASE ClockAdvances
  BY <1>7 DEF ClockAdvances, TimePasses
<1>8. CASE UNCHANGED driverVars
  BY <1>8 DEF driverVars, scriptVars, vars
<1> QED
  BY <1>1, <1>2, <1>3, <1>4, <1>5, <1>6, <1>7, <1>8 DEF DriverNext

LEMMA OwedStep ==
  DriverInv /\ DriverTypes /\ DriverTypes' /\ LoanInv /\ OwedInv /\ [DriverNext]_driverVars
    => OwedInv'
<1> SUFFICES ASSUME DriverInv, DriverTypes, DriverTypes', LoanInv, OwedInv,
                    [DriverNext]_driverVars, choice' \in TestChoices \ RepaysExactly
             PROVE OwedAtMost(Unrepaid(choice))'
                   /\ \A i \in (1..Len(Script))' : (pc <= i /\ Lending(i) => NoLoan)'
  BY DEF OwedInv
<1>1. CASE choice = NoChoice
  <2>1. NoLoan /\ UNCHANGED <<position, market>>
    BY <1>1, NothingStarted DEF LoanInv
  <2>2. NoLoan'
    BY <2>1 DEF NoLoan
  <2>3. PICK amount \in Nat : amount = Unrepaid(choice')
    BY ScriptLends
  <2>4. amount * VIRTUAL_SHARES \in Nat
    BY MorphoAssumption
  <2>5. OwedAtMost(Unrepaid(choice))'
    BY <2>2, <2>3, <2>4 DEF NoLoan, OwedAtMost, Unrepaid
  <2> QED
    BY <2>2, <2>5
<1>2. CASE choice # NoChoice
  <2>1. choice' = choice /\ Script' = Script
    BY <1>2, OthersMoveForward DEF Script
  <2>2. PICK s : s = Script
    OBVIOUS
  <2>3. PICK amount \in Nat : amount = Unrepaid(choice) /\ LendsOnce(s, amount)
    <3>1. Script = ScriptOf(choice)
      BY DEF Script, ScriptOf
    <3> QED
      BY <2>1, <2>2, <3>1, ScriptLends
  <2>4. /\ OwedAtMost(amount)
        /\ \A i \in 1..Len(s) : pc <= i /\ Lending(i) => NoLoan
    BY <2>1, <2>2, <2>3 DEF OwedInv
  <2>5. /\ OwedAtMost(amount)'
        /\ \A i \in 1..Len(s) : pc' <= i /\ Lending(i) => NoLoan'
    <3>1. CASE RunOperation
      BY <2>2, <2>3, <2>4, <3>1, OperationOwed
    <3>2. CASE UNCHANGED <<position, market>> /\ pc' \in {pc, pc + 1}
      <4>1. pc \in Nat /\ Len(s) \in Nat
        BY <2>3, ScriptLength DEF DriverInv, LendsOnce
      <4>2. OwedAtMost(amount)' /\ (NoLoan => NoLoan')
        BY <2>4, <3>2 DEF OwedAtMost, NoLoan
      <4> QED
        BY <2>4, <3>2, <4>1, <4>2
    <3> QED
      BY <1>2, <3>1, <3>2, OthersMoveForward
  <2>6. \A i : Lending(i)' = Lending(i)
    BY <2>1 DEF Lending
  <2>7. OwedAtMost(Unrepaid(choice))'
    BY <2>1, <2>3, <2>5 DEF OwedAtMost, Unrepaid
  <2> QED
    BY <2>1, <2>2, <2>5, <2>6, <2>7
<1> QED
  BY <1>1, <1>2

-----------------------------------------------------------------------------
(* No approval by the test contract is left, but the one of choice 8.       *)
NothingApproved ==
  choice # 8 => \A token \in Tokens : allowance[token][TestContract] = 0

LEMMA ExecuteApproves ==
  ASSUME DriverTypes, DriverTypes', NEW sender, NEW call, CallTyped(sender, call),
         sender = TestContract /\ call.fn = "approve" => call.amount = 0,
         Execute(sender, call), NEW token \in Tokens, allowance[token][TestContract] = 0
  PROVE allowance'[token][TestContract] = 0
<1>0. /\ allowance \in Allowances /\ TestContract \in Users /\ sender \in Users
      /\ MorphoInv /\ MorphoInv'
  BY ClientsTyped DEF DriverTypes, CallTyped
<1>1. CASE SetUpCall(sender, call) \/ OtherCall(call)
  BY <1>1 DEF SetUpCall, OtherCall, SetPrice, testVars
<1>2. CASE TokenCall(sender, call)
  <2>1. CASE call.fn = "approve"
    <3>1. /\ allowance' = [allowance EXCEPT ![call.token][sender] = call.amount]
          /\ call.token \in Tokens
      BY <1>2, <2>1 DEF TokenCall, CallTyped
    <3> QED
      BY <1>0, <2>1, <3>1 DEF Allowances
  <2>2. CASE call.fn # "approve"
    BY <1>2, <2>2 DEF TokenCall
  <2> QED
    BY <2>1, <2>2
<1>3. CASE CallMorpho(sender, call)
  <2>1. balance \in Balances /\ balance' \in Balances
    BY <1>0 DEF MorphoInv, TypeOK, Balances
  <2>2. Charge(sender)
    BY <1>3 DEF CallMorpho
  <2> QED
    BY <1>0, <2>1, <2>2, ChargeTypes
<1> QED
  BY <1>1, <1>2, <1>3 DEF Execute

LEMMA StepGentle ==
  ASSUME DriverInv, choice # 8, pc \in DOMAIN Script
  PROVE GentleStep(Step)
<1>1. choice \in TestChoices /\ choice # NoChoice
  BY NoScript DEF DriverInv
<1>2. Script = ScriptOf(choice)
  BY DEF Script, ScriptOf
<1>3. Gentle(Script)
  BY <1>1, <1>2, ScriptGentle
<1> QED
  BY <1>3 DEF Gentle, Step

LEMMA InitApproved == DriverInit => NothingApproved
BY ClientsTyped DEF DriverInit, NothingApproved

LEMMA ApprovedStep ==
  DriverInv /\ DriverTypes /\ DriverTypes' /\ NothingApproved /\ [DriverNext]_driverVars
    => NothingApproved'
<1> SUFFICES ASSUME DriverInv, DriverTypes, DriverTypes', NothingApproved,
                    [DriverNext]_driverVars, choice' # 8, NEW token \in Tokens
             PROVE allowance'[token][TestContract] = 0
  BY DEF NothingApproved
<1>1. choice # 8
  <2>1. choice = NoChoice \/ choice' = choice
    BY OthersMoveForward
  <2> QED
    BY <2>1 DEF NoChoice
<1>2. allowance[token][TestContract] = 0 /\ allowance \in Allowances
  BY <1>1 DEF NothingApproved, DriverTypes
<1>3. CASE RunOperation
  <2>1. /\ pc \in DOMAIN Script /\ Step.do = "operation"
        /\ Execute(Step.sender, Step.call) /\ CallTyped(Step.sender, Step.call)
    BY <1>3, OperationTyped DEF RunOperation, Running
  <2>2. Step.sender = TestContract /\ Step.call.fn = "approve" => Step.call.amount = 0
    BY <1>1, <2>1, StepGentle DEF GentleStep
  <2> QED
    BY <1>2, <2>1, <2>2, ExecuteApproves
<1>4. CASE CallbackAndCollect
  <2>1. PICK t \in Tokens, u \in Users : allowance' = [allowance EXCEPT ![t][u] = 0]
    BY <1>4, CallbackUses
  <2> QED
    BY <1>2, <2>1, ClientsTyped DEF Allowances
<1>5. CASE UNCHANGED allowance
  BY <1>2, <1>5
<1>6. RunOperation \/ CallbackAndCollect \/ UNCHANGED allowance
  BY DEF DriverNext, Main, PreparationFails, ReadAndPublishContract, ProcessInboxStep, Revert,
     RefuseProposal, RunRefusedOperation, ReadStep, CheckStep, Terminate, ClockAdvances,
     testVars, driverVars, scriptVars
<1> QED
  BY <1>3, <1>4, <1>5, <1>6

-----------------------------------------------------------------------------
(* A test passes at the end of its script.                                  *)
Finished == outcome = "passed" => pc = Len(Script) + 1 /\ choice # NoChoice

LEMMA FinishedStep == DriverInv /\ Finished /\ [DriverNext]_driverVars => Finished'
<1> SUFFICES ASSUME DriverInv, Finished, [DriverNext]_driverVars, outcome' = "passed"
             PROVE (pc = Len(Script) + 1 /\ choice # NoChoice)'
  BY DEF Finished
<1>1. Terminate \/ UNCHANGED driverVars \/ Main
  BY DEF DriverNext, PreparationFails, ReadAndPublishContract, ProcessInboxStep, RunOperation,
     CallbackAndCollect, Revert, RefuseProposal, RunRefusedOperation, ReadStep, CheckStep,
     ClockAdvances, Running, Continue, Fail
<1>2. CASE Terminate
  BY <1>2 DEF Terminate, Script
<1>3. CASE UNCHANGED driverVars
  BY <1>3 DEF driverVars, scriptVars, Finished, Script
<1>4. CASE Main
  BY <1>4 DEF Main, Finished
<1> QED
  BY <1>1, <1>2, <1>3, <1>4

LEMMA CleanWhenFinished ==
  DriverInv /\ DriverTypes /\ LoanInv /\ OwedInv /\ NothingApproved /\ Finished => PassedClean
<1> SUFFICES ASSUME DriverInv, DriverTypes, LoanInv, OwedInv, NothingApproved, Finished,
                    outcome = "passed"
             PROVE /\ calls = <<>>
                   /\ \A token \in Tokens :
                        token = "loan" \/ choice # 8 => allowance[token][TestContract] = 0
                   /\ \A u \in Users :
                        position[u].borrowShares <=
                          IF u = "borrower" THEN Unrepaid(choice) * VIRTUAL_SHARES ELSE 0
  BY DEF PassedClean
<1>1. /\ choice \in TestChoices /\ pc = Len(Script) + 1
      /\ IsScript(Script)
  BY ScriptPrepared DEF Finished, DriverInv, Prepared
<1>2. calls = <<>>
  <2>1. pc \notin DOMAIN Script
    BY <1>1, ScriptLength
  <2> QED
    BY <2>1 DEF DriverInv
<1>3. ASSUME NEW token \in Tokens, token = "loan" \/ choice # 8
      PROVE allowance[token][TestContract] = 0
  BY <1>3 DEF NothingApproved, DriverTypes
<1>4. CASE choice \in RepaysExactly
  <2>1. PICK b \in Nat \ {0}, r \in Nat \ {0} :
          /\ b < r /\ Debts(ScriptOf(choice), DebtorOf(choice), b, r)
          /\ Progress(Len(ScriptOf(choice)), DebtorOf(choice), b, r)
    BY <1>4 DEF LoanInv
  <2>2. Script = ScriptOf(choice) /\ Len(Script) \in Nat
    BY <1>1, ScriptLength DEF Script, ScriptOf
  <2>3. r \in 0..Len(Script)
    BY <2>1, <2>2 DEF Debts
  <2>4. pc > Len(Script) /\ r < pc
    BY <1>1, <2>2, <2>3
  <2>5. market.totalBorrowAssets = 0 /\ LoanEnded
    BY <2>1, <2>2, <2>4 DEF Progress
  <2>6. \A u \in Users : position[u].borrowShares = 0
    BY <2>5 DEF LoanEnded, Accounts
  <2>7. Unrepaid(choice) = 0 /\ 0 * VIRTUAL_SHARES = 0
    BY <1>4, MorphoAssumption DEF RepaysExactly, Unrepaid
  <2> QED
    BY <1>2, <1>3, <2>6, <2>7
<1>5. CASE choice \notin RepaysExactly
  <2>1. \A u \in Users : position[u].borrowShares <=
          IF u = "borrower" THEN Unrepaid(choice) * VIRTUAL_SHARES ELSE 0
    BY <1>1, <1>5 DEF OwedInv, OwedAtMost, Accounts
  <2> QED
    BY <1>2, <1>3, <2>1
<1> QED
  BY <1>4, <1>5

(* A passed test leaves no callback open, no approval by its callbacks, and *)
(* no debt but the one loan that its scenario does not pay back: the last   *)
(* steps of the scripts in main.rs.                                         *)
THEOREM PassesClean == DriverSpec => []PassedClean
<1> DEFINE Inv == /\ DriverInv /\ DriverTypes /\ ViewsTrue /\ LoanInv /\ OwedInv
                  /\ NothingApproved /\ Finished
<1>1. DriverInit => Inv
  BY InitDriver, InitDriverTypes, InitViewsTrue, InitLoan, InitOwed, InitApproved
     DEF DriverInit, Finished
<1>2. Inv /\ [DriverNext]_driverVars => Inv'
  BY DriverStep, DriverTypesStep, ViewsStep, LoanStep, OwedStep, ApprovedStep, FinishedStep
<1>3. Inv => PassedClean
  BY CleanWhenFinished
<1> QED
  BY <1>1, <1>2, <1>3, PTL DEF DriverSpec

=============================================================================
