---------------------------- MODULE MorphoDriver ----------------------------
(***************************************************************************)
(* The end-to-end driver of the Morpho contracts (test_evm_smart_contracts *)
(* main.rs): six clients own one chain, publish a test contract on it and  *)
(* run one of ten scenarios.  A scenario is a script of inbox processing,  *)
(* operations and queries, each by the node service of one client.  A      *)
(* query is answered from the blocks that service has seen.  An operation  *)
(* is a transaction on the contracts of module Morpho, and the first error *)
(* ends the test.  Amounts are in ether, rates in percent.                 *)
(*                                                                         *)
(* External: the contracts' virtual machine, the chain's clock, and what   *)
(* becomes of an operation that a service proposes on an old block.        *)
(***************************************************************************)
EXTENDS Morpho

CONSTANT Unlimited   \* U256::MAX

Clients == {"regular", "owner", "supplier", "borrower", "liquidator", "supplier2"}
TestContract == "test contract"
Tokens == {"loan", "collateral"}

(* The oracle quotes the prices of the scenarios, and the largest loan on   *)
(* their collateral is worth something.                                     *)
ASSUME DriverAssumption ==
  /\ Clients \cup {TestContract} \subseteq Users /\ Unlimited \in Nat
  /\ {ORACLE_PRICE_SCALE, (ORACLE_PRICE_SCALE * 80) \div 100} \subseteq Prices
  /\ 1000 * LLTV >= WAD

VARIABLES
  choice,       \* the scenario
  pc,           \* the next step of the script; 0 before the deployment
  outcome,
  setup,        \* what has been set up
  allowance,    \* what each user lets Morpho take of each token
  triggered,    \* callback flags of the test contract
  height,       \* of the shared chain
  view,         \* what the node service of each client has seen
  remembered    \* an answer that is compared with a later one

testVars == <<setup, allowance, triggered>>
scriptVars == <<choice, pc, outcome, testVars, height, view, remembered>>
driverVars == <<vars, scriptVars>>

-----------------------------------------------------------------------------
(* Steps of a script.                                                       *)

ProcessInbox(c) == [do |-> "inbox", client |-> c]
Operation(c, call) == [do |-> "operation", client |-> c, sender |-> c, call |-> call]

(* A wrapper of the test contract calls on: the contract is the sender.     *)
Through(c, call) == [do |-> "operation", client |-> c, sender |-> TestContract, call |-> call]

Read(c, query) == [do |-> "read", client |-> c, query |-> query]
Check(c, query, relation, expected) ==
  [do |-> "check", client |-> c, query |-> query, relation |-> relation, expected |-> expected]

(* The usual order: a service processes its inbox, then proposes.           *)
Fresh(step) == <<ProcessInbox(step.client), step>>

BalanceOf(token, owner) == [of |-> "balanceOf", token |-> token, owner |-> owner]
Market(offset) == [of |-> "market", offset |-> offset]
Triggered(callback) == [of |-> "triggered", callback |-> callback]

SetBalanceCall(token, owner, amount) ==
  [fn |-> "setBalance", token |-> token, owner |-> owner, amount |-> amount]
ApproveCall(token, amount) == [fn |-> "approve", token |-> token, amount |-> amount]
MarketCall(fn, amount) == [fn |-> fn, amount |-> amount, data |-> FALSE]
WithCallback(fn, amount) == [fn |-> fn, amount |-> amount, data |-> TRUE]

-----------------------------------------------------------------------------
(* The scripts.                                                             *)

(* Mutant of SetUp: the market is created before the threshold is enabled.  *)
SetUpMarketEarly ==
  <<Operation("regular", [fn |-> "set_addresses"]),
    Operation("regular", [fn |-> "set_up_part_a"])>>
  \o Fresh(Operation("owner", [fn |-> "enableIrm"]))
  \o Fresh(Operation("regular", [fn |-> "set_up_part_c"]))
  \o Fresh(Operation("owner", [fn |-> "enableLltv"]))

SetUp ==
  <<Operation("regular", [fn |-> "set_addresses"]),
    Operation("regular", [fn |-> "set_up_part_a"])>>
  \o Fresh(Operation("owner", [fn |-> "enableIrm"]))
  \o Fresh(Operation("owner", [fn |-> "enableLltv"]))
  \o Fresh(Operation("regular", [fn |-> "set_up_part_c"]))

Approvals ==
  Fresh(Operation("supplier", ApproveCall("loan", Unlimited)))
  \o Fresh(Operation("borrower", ApproveCall("loan", Unlimited)))
  \o Fresh(Operation("liquidator", ApproveCall("loan", Unlimited)))
  \o Fresh(Operation("supplier2", ApproveCall("loan", Unlimited)))
  \o Fresh(Operation("borrower", ApproveCall("collateral", Unlimited)))

(* Steps that several scenarios share: fund a client, and let it pay in.    *)
Fund(token, owner, amount) ==
  Fresh(Operation("regular", SetBalanceCall(token, owner, amount)))
SupplyFrom(c, amount) ==
  Fund("loan", c, amount) \o Fresh(Operation(c, MarketCall("supply", amount)))
CollateralFrom(c, amount) ==
  Fund("collateral", c, amount) \o Fresh(Operation(c, MarketCall("supplyCollateral", amount)))
Borrowing(c, amount) == Fresh(Operation(c, MarketCall("borrow", amount)))

SimpleSupplyWithdraw ==
  SupplyFrom("supplier", 1000)
  \o Fresh(Check("regular", Market(0), "=", 1000))
  \o Fresh(Operation("supplier", MarketCall("withdraw", 500)))
  \o <<Check("supplier", BalanceOf("loan", "supplier"), "=", 500)>>

CompleteBorrowRepayCycle ==
  SupplyFrom("supplier", 10000)
  \o CollateralFrom("borrower", 1000)
  \o Borrowing("borrower", 600)
  \o <<Check("borrower", BalanceOf("loan", "borrower"), "=", 600)>>
  \o Fresh(Operation("borrower", MarketCall("repay", 600)))
  \o Fresh(Operation("borrower", MarketCall("withdrawCollateral", 1000)))
  \o <<Check("borrower", BalanceOf("collateral", "borrower"), "=", 1000)>>
  \o Fresh(Check("regular", Market(64), "=", 0))

Liquidation ==
  SupplyFrom("supplier", 10000)
  \o CollateralFrom("borrower", 1000)
  \o Borrowing("borrower", 700)
  \o Fresh(Operation("regular", [fn |-> "setPrice", percent |-> 80]))
  \o Fund("loan", "liquidator", 1000)
  \o <<Read("liquidator", BalanceOf("collateral", "liquidator"))>>
  \o Fresh(Operation("liquidator", MarketCall("liquidate", 100)))
  \o <<Check("liquidator", BalanceOf("collateral", "liquidator"), ">", "remembered")>>

InterestAccrual ==
  SupplyFrom("supplier", 10000)
  \o CollateralFrom("borrower", 1000)
  \o Borrowing("borrower", 500)
  \o Fresh(Read("regular", Market(64)))
  \o Fresh(Operation("regular", [fn |-> "accrueInterest"]))
  \o Fresh(Check("regular", Market(64), ">=", "remembered"))

(* Mutant of MultipleSuppliers: the market is queried without its blocks.   *)
MultipleSuppliersUnsynchronised ==
  SupplyFrom("supplier", 1000)
  \o SupplyFrom("supplier2", 500)
  \o <<Check("regular", Market(0), "=", 1500)>>
  \o Fresh(Operation("supplier", MarketCall("withdraw", 1000)))
  \o Fresh(Operation("supplier2", MarketCall("withdraw", 500)))

MultipleSuppliers ==
  SupplyFrom("supplier", 1000)
  \o SupplyFrom("supplier2", 500)
  \o Fresh(Check("regular", Market(0), "=", 1500))
  \o Fresh(Operation("supplier", MarketCall("withdraw", 1000)))
  \o Fresh(Operation("supplier2", MarketCall("withdraw", 500)))
  \o Fresh(Check("supplier", BalanceOf("loan", "supplier"), "=", 1000))
  \o Fresh(Check("supplier2", BalanceOf("loan", "supplier2"), "=", 500))

(* The borrower's service sets the balance after another's inbox was        *)
(* processed.  The last operation has to fail.                              *)
MaxBorrowCapacity ==
  SupplyFrom("supplier", 10000)
  \o <<ProcessInbox("regular"),
       Operation("borrower", SetBalanceCall("collateral", "borrower", 1000))>>
  \o Fresh(Operation("borrower", MarketCall("supplyCollateral", 1000)))
  \o Borrowing("borrower", (1000 * LLTV) \div WAD - 1)
  \o <<ProcessInbox("borrower"),
       [Operation("borrower", MarketCall("borrow", 2)) EXCEPT !.do = "has to fail"]>>

SupplyWithCallback ==
  Fund("loan", TestContract, 1000)
  \o Fresh(Through("regular", ApproveCall("loan", 0)))
  \o Fresh(Operation("regular", [fn |-> "resetCallbackFlags"]))
  \o Fresh(Through("regular", WithCallback("supply", 1000)))
  \o <<Check("regular", Triggered("supply"), "=", 1)>>
  \o Fresh(Check("regular", Market(0), "=", 1000))

SupplyCollateralWithCallback ==
  Fund("collateral", TestContract, 1000)
  \o Fresh(Operation("regular", [fn |-> "resetCallbackFlags"]))
  \o Fresh(Through("regular", WithCallback("supplyCollateral", 1000)))
  \o <<Check("regular", Triggered("supplyCollateral"), "=", 1)>>

RepayWithCallback ==
  SupplyFrom("supplier", 10000)
  \o Fund("collateral", TestContract, 1000)
  \o Fresh(Through("regular", ApproveCall("collateral", Unlimited)))
  \o Fresh(Through("regular", MarketCall("supplyCollateral", 1000)))
  \o Fresh(Through("regular", MarketCall("borrow", 600)))
  \o Fresh(Through("regular", ApproveCall("loan", 0)))
  \o Fresh(Operation("regular", [fn |-> "resetCallbackFlags"]))
  \o Fresh(Through("regular", WithCallback("repay", 600)))
  \o <<Check("regular", Triggered("repay"), "=", 1)>>
  \o Fresh(Check("regular", Market(64), "=", 0))

LiquidateWithCallback ==
  SupplyFrom("supplier", 10000)
  \o CollateralFrom("borrower", 1000)
  \o Borrowing("borrower", 700)
  \o Fresh(Operation("regular", [fn |-> "setPrice", percent |-> 80]))
  \o Fund("loan", TestContract, 1000)
  \o Fresh(Operation("regular", [fn |-> "resetCallbackFlags"]))
  \o Fresh(Through("regular", WithCallback("liquidate", 100)))
  \o <<Check("regular", Triggered("liquidate"), "=", 1)>>

Scenarios ==
  <<SimpleSupplyWithdraw, CompleteBorrowRepayCycle, Liquidation, InterestAccrual,
    MultipleSuppliers, MaxBorrowCapacity, SupplyWithCallback, SupplyCollateralWithCallback,
    RepayWithCallback, LiquidateWithCallback>>

(* The names that main accepts, as numbers, and before it has read one.     *)
TestChoices == 0..(Len(Scenarios) - 1)
NoChoice == -1

Script ==
  IF choice = NoChoice THEN <<>> ELSE SetUp \o Approvals \o Scenarios[choice + 1]
Step == Script[pc]

-----------------------------------------------------------------------------
(* What the contracts do.                                                   *)

SetUpCall(sender, call) ==
  /\ call.fn \notin setup
  /\ \/ call.fn = "set_addresses"
     \/ call.fn = "set_up_part_a" /\ "set_addresses" \in setup
     \/ call.fn \in {"enableIrm", "enableLltv"} /\ "set_up_part_a" \in setup /\ sender = "owner"
     \/ call.fn = "set_up_part_c" /\ {"enableIrm", "enableLltv"} \subseteq setup
  /\ setup' = setup \cup {call.fn}
  /\ price' = IF call.fn = "set_up_part_a" THEN ORACLE_PRICE_SCALE ELSE price
  /\ UNCHANGED <<position, market, fee, feeRecipient, isAuthorized, growth, balance, calls,
                 allowance, triggered>>

TokenCall(sender, call) ==
  /\ "set_up_part_a" \in setup
  /\ \/ /\ call.fn = "setBalance"
        /\ balance' = [balance EXCEPT ![call.token][call.owner] = call.amount]
        /\ UNCHANGED allowance
     \/ /\ call.fn = "approve"
        /\ allowance' = [allowance EXCEPT ![call.token][sender] = call.amount]
        /\ UNCHANGED balance
  /\ UNCHANGED <<position, market, fee, feeRecipient, isAuthorized, growth, price, calls,
                 setup, triggered>>

(* transferFrom takes what the sender has approved.                         *)
Charge(sender) ==
  LET paid == [token \in Tokens |-> ZeroFloorSub(balance[token][sender], balance'[token][sender])]
  IN /\ \A token \in Tokens : paid[token] <= allowance[token][sender]
     /\ allowance' = [token \in Tokens |-> [allowance[token] EXCEPT ![sender] = @ - paid[token]]]

CallMorpho(sender, call) ==
  /\ "set_up_part_c" \in setup
  /\ \/ call.fn = "supply" /\ Supply(sender, call.amount, 0, sender, call.data)
     \/ call.fn = "withdraw" /\ Withdraw(sender, call.amount, 0, sender, sender)
     \/ call.fn = "borrow" /\ Borrow(sender, call.amount, 0, sender, sender)
     \/ call.fn = "repay" /\ Repay(sender, call.amount, 0, sender, call.data)
     \/ call.fn = "supplyCollateral" /\ SupplyCollateral(sender, call.amount, sender, call.data)
     \/ call.fn = "withdrawCollateral" /\ WithdrawCollateral(sender, call.amount, sender, sender)
     \/ call.fn = "liquidate" /\ Liquidate(sender, "borrower", call.amount, 0, call.data)
     \/ call.fn = "accrueInterest" /\ AccrueInterest
  /\ Charge(sender)
  /\ UNCHANGED <<setup, triggered>>

OtherCall(call) ==
  \/ /\ call.fn = "setPrice"
     /\ SetPrice((ORACLE_PRICE_SCALE * call.percent) \div 100)
     /\ UNCHANGED testVars
  \/ /\ call.fn = "resetCallbackFlags"
     /\ triggered' = {}
     /\ UNCHANGED <<vars, setup, allowance>>

Execute(sender, call) ==
  \/ SetUpCall(sender, call)
  \/ TokenCall(sender, call)
  \/ CallMorpho(sender, call)
  \/ OtherCall(call)

-----------------------------------------------------------------------------
(* The driver.                                                              *)

(* What a node service that has seen every block answers from.              *)
Latest(h) == [height |-> h, market |-> market', balance |-> balance', triggered |-> triggered']

UpToDate(c) == view[c].height = height

Continue == pc' = pc + 1 /\ UNCHANGED outcome
Fail == outcome' = "failed" /\ UNCHANGED pc

(* The block of a transaction is added, and its proposer has seen it.       *)
Commit(c) ==
  /\ height' = height + 1
  /\ view' = [view EXCEPT ![c] = Latest(height + 1)]

Running(do) ==
  /\ outcome = "running" /\ pc \in DOMAIN Script /\ calls = <<>>
  /\ Step.do = do

Main ==
  /\ choice = NoChoice
  /\ choice' \in TestChoices
  /\ UNCHANGED <<vars, pc, outcome, testVars, height, view, remembered>>

(* The clients, their chain and its balances come first; an error or a      *)
(* failed assertion there ends the test.                                    *)
PreparationFails ==
  /\ outcome = "running" /\ pc = 0 /\ choice # NoChoice
  /\ Fail
  /\ UNCHANGED <<vars, choice, testVars, height, view, remembered>>

(* read_and_publish_contract follows these keys through result.out.         *)
ArtifactPath == <<"contracts", "SimpleNonReentrantTest.sol", "SimpleNonReentrantTest",
                  "evm", "bytecode", "object">>

ReadAndPublishContract ==
  /\ outcome = "running" /\ pc = 0 /\ choice # NoChoice
  /\ \E found \in 0..Len(ArtifactPath) :
       IF found = Len(ArtifactPath)
       THEN Continue /\ UNCHANGED <<vars, testVars>> /\ Commit("regular")
       ELSE Fail /\ UNCHANGED <<vars, testVars, height, view>>
  /\ UNCHANGED <<choice, remembered>>

ProcessInboxStep ==
  /\ Running("inbox")
  /\ Continue
  /\ UNCHANGED <<vars, choice, testVars, height, remembered>>
  /\ view' = [view EXCEPT ![Step.client] = Latest(height)]

(* run_json_query with an operation.  With a callback the transaction is    *)
(* not over yet.                                                            *)
RunOperation ==
  /\ Running("operation")
  /\ Execute(Step.sender, Step.call)
  /\ IF calls' = <<>>
     THEN Continue /\ Commit(Step.client)
     ELSE UNCHANGED <<pc, outcome, height, view>>
  /\ UNCHANGED <<choice, remembered>>

(* Mutant of OnMorpho: the callback approves more than is taken.            *)
OnMorphoUnlimited(call) == [allowance EXCEPT ![call.token][call.sender] = Unlimited]

(* onMorphoSupply and its like approve what Morpho is about to take.        *)
OnMorpho(call) == [allowance EXCEPT ![call.token][call.sender] = call.amount]

CallbackAndCollect ==
  /\ outcome = "running" /\ calls # <<>>
  /\ LET call == Last(calls) IN
       /\ OnMorpho(call)[call.token][call.sender] >= call.amount
       /\ allowance' = [OnMorpho(call) EXCEPT ![call.token][call.sender] = @ - call.amount]
  /\ EndCallback
  /\ triggered' = triggered \cup {Step.call.fn}
  /\ Continue
  /\ UNCHANGED <<choice, setup, remembered>>
  /\ Commit(Step.client)

(* The contract reverts, and the driver stops at the error.                 *)
Revert ==
  /\ \/ Running("operation") /\ ~ENABLED Execute(Step.sender, Step.call)
     \/ outcome = "running" /\ calls # <<>> /\ ~ENABLED CallbackAndCollect
  /\ Fail
  /\ UNCHANGED <<vars, choice, testVars, height, view, remembered>>

(* A proposal on an old block may be refused.                               *)
RefuseProposal ==
  /\ Running("operation")
  /\ ~UpToDate(Step.client)
  /\ Fail
  /\ UNCHANGED <<vars, choice, testVars, height, view, remembered>>

(* An operation that has to fail: its success is a panic.                   *)
RunRefusedOperation ==
  /\ Running("has to fail")
  /\ IF ENABLED Execute(Step.sender, Step.call) THEN Fail ELSE Continue
  /\ UNCHANGED <<vars, choice, testVars, height, view, remembered>>

(* Answers have words of 32 bytes; a word that is missing reads as zero.    *)
MarketWords(m) ==
  <<m.totalSupplyAssets, m.totalSupplyShares, m.totalBorrowAssets, m.totalBorrowShares>>

ParseAtOffset(words, offset) ==
  LET i == offset \div 32 + 1 IN IF i \in DOMAIN words THEN words[i] ELSE 0

Answer(c, query) ==
  CASE query.of = "market" -> ParseAtOffset(MarketWords(view[c].market), query.offset)
    [] query.of = "balanceOf" -> view[c].balance[query.token][query.owner]
    [] query.of = "triggered" -> IF query.callback \in view[c].triggered THEN 1 ELSE 0

ReadStep ==
  /\ Running("read")
  /\ remembered' = Answer(Step.client, Step.query)
  /\ Continue
  /\ UNCHANGED <<vars, choice, testVars, height, view>>

Holds(answer) ==
  CASE Step.relation = "=" -> answer = Step.expected
    [] Step.relation = ">" -> answer > remembered
    [] Step.relation = ">=" -> answer >= remembered

(* assert! and assert_eq! on an answer.                                     *)
CheckStep ==
  /\ Running("check")
  /\ IF Holds(Answer(Step.client, Step.query)) THEN Continue ELSE Fail
  /\ UNCHANGED <<vars, choice, testVars, height, view, remembered>>

(* The services and the network are checked, and the network is terminated: *)
(* the test passes unless one of them is gone or cannot be killed.          *)
Terminate ==
  /\ outcome = "running" /\ choice # NoChoice /\ pc = Len(Script) + 1
  /\ outcome' \in {"passed", "failed"}
  /\ UNCHANGED <<vars, choice, pc, testVars, height, view, remembered>>

(* The clock moves between blocks.                                          *)
ClockAdvances ==
  /\ outcome = "running" /\ pc > 0
  /\ \E g \in Growths : TimePasses(g)
  /\ UNCHANGED <<choice, pc, outcome, testVars, height, view, remembered>>

DriverInit ==
  /\ Init
  /\ choice = NoChoice
  /\ pc = 0 /\ outcome = "running"
  /\ setup = {} /\ triggered = {}
  /\ allowance = [token \in Tokens |-> [u \in Users |-> 0]]
  /\ height = 0
  /\ view = [c \in Clients |->
               [height |-> 0, market |-> market, balance |-> balance, triggered |-> {}]]
  /\ remembered = 0

DriverNext ==
  \/ Main
  \/ PreparationFails
  \/ ReadAndPublishContract
  \/ ProcessInboxStep
  \/ RunOperation
  \/ CallbackAndCollect
  \/ Revert
  \/ RefuseProposal
  \/ RunRefusedOperation
  \/ ReadStep
  \/ CheckStep
  \/ Terminate
  \/ ClockAdvances

DriverSpec == DriverInit /\ [][DriverNext]_driverVars

-----------------------------------------------------------------------------
(* Properties.                                                              *)

RepaysExactly == {1, 8}

(* The ten tests pass whatever time the chain's clock lets pass between     *)
(* their blocks, with five exceptions: the preparation fails or bytecode is *)
(* missing; a test repays what was borrowed, not what is owed, and interest *)
(* has accrued; the balance of choice 5 is proposed by a service that has   *)
(* not processed its inbox, and the proposal is refused; or a process is    *)
(* gone when the scenario is over.                                          *)
FailuresExplained ==
  outcome = "failed" =>
    \/ pc = 0 \/ pc = Len(Script) + 1
    \/ choice \in RepaysExactly /\ market.totalBorrowAssets > 0
    \/ choice = 5 /\ ~UpToDate(Step.client) /\ Step.call.fn = "setBalance"

(* A test never passes or fails by an old answer: the service that an       *)
(* assertion asks has seen every block.                                     *)
ChecksSeeLatestBlock ==
  outcome = "running" /\ pc \in DOMAIN Script /\ Step.do = "check" => UpToDate(Step.client)

(* What a scenario borrows and does not pay back.                           *)
Unrepaid(c) ==
  CASE c \in {2, 9} -> 700
    [] c = 3 -> 500
    [] c = 5 -> (1000 * LLTV) \div WAD - 1
    [] OTHER -> 0

(* A passed test leaves no callback open.  Nothing that a callback approved *)
(* is left to take, of either token: all the test contract still approves   *)
(* is the collateral of choice 8, which no callback did.  And nobody owes   *)
(* but the borrower, at most the shares of the one loan that its scenario   *)
(* does not pay back.                                                       *)
PassedClean ==
  outcome = "passed" =>
    /\ calls = <<>>
    /\ \A token \in Tokens :
         token = "loan" \/ choice # 8 => allowance[token][TestContract] = 0
    /\ \A u \in Users :
         position[u].borrowShares <=
           IF u = "borrower" THEN Unrepaid(choice) * VIRTUAL_SHARES ELSE 0

=============================================================================
