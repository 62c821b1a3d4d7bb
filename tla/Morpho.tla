------------------------------- MODULE Morpho -------------------------------
(***************************************************************************)
(* One market of Morpho.sol: users supply and borrow a loan token against  *)
(* collateral.  Positions are kept in shares, which are converted to       *)
(* assets with rounding.  An operation whose data is not empty calls its   *)
(* sender back before it collects what the sender owes, and the callback   *)
(* may call the contract again.                                            *)
(*                                                                         *)
(* A call that reverts undoes itself, so `require` and arithmetic checks   *)
(* are guards; a transaction that reverts within callbacks returns to the  *)
(* state before it, which is reachable, and has no action of its own.      *)
(* External: the interest rate model, the oracle, standard tokens that     *)
(* everybody has approved.                                                 *)
(***************************************************************************)
EXTENDS Integers, FiniteSets, Sequences, SequencesExt

CONSTANTS
  Users,                 \* who calls the contract
  ZeroAddress,           \* address(0)
  MorphoAddress,         \* address(this)
  InitialLoan,           \* loan tokens of the users at first
  InitialCollateral,     \* collateral tokens of the users at first
  OtherMarkets,          \* loan tokens that the contract holds for other markets
  VIRTUAL_SHARES,
  WAD,                   \* one, in fixed point
  ORACLE_PRICE_SCALE,
  MAX_UINT128,
  LLTV,                  \* marketParams.lltv
  Prices,                \* of the collateral, as the oracle quotes it
  Growths,               \* interest on one asset, compounded since the last update
  Fees,
  MaxAssets, MaxShares,  \* bounds on what a call asks for
  MaxDepth,              \* bound: nested callbacks
  Grants,                \* bound: authorizations that are given or taken
  FeeRecipients,         \* bound: who may be set to receive fees
  Receivers              \* bound: to whom payments may go

VIRTUAL_ASSETS == 1

Accounts == Users \cup {ZeroAddress}
Holders == Users \cup {MorphoAddress}

ASSUME MorphoAssumption ==
  /\ IsFiniteSet(Users)
  /\ ZeroAddress \notin Users /\ MorphoAddress \notin Users
  /\ InitialLoan \in [Users -> Nat] /\ InitialCollateral \in [Users -> Nat]
  /\ OtherMarkets \in Nat
  /\ VIRTUAL_SHARES \in Nat \ {0} /\ WAD \in Nat \ {0} /\ ORACLE_PRICE_SCALE \in Nat \ {0}
  /\ MAX_UINT128 \in Nat
  /\ LLTV \in 0..(WAD - 1)
  /\ Prices \subseteq Nat \ {0} /\ Prices # {}
  /\ Growths \subseteq Nat \ {0}
  /\ Fees \subseteq 0..(WAD \div 4)
  /\ MaxAssets \in Nat /\ MaxShares \in Nat /\ MaxDepth \in Nat
  /\ Grants \subseteq Users \X Users /\ FeeRecipients \subseteq Users \cup {ZeroAddress}
  /\ Receivers \subseteq Holders

VARIABLES
  position,      \* position[user]: supply shares, borrow shares, collateral
  market,        \* the totals
  fee,
  feeRecipient,
  isAuthorized,  \* pairs of an authorizer and who may manage its position
  growth,        \* what time has added since lastUpdate
  price,         \* the oracle's answer
  balance,       \* of each token and holder
  calls          \* open callbacks, with what is collected after each

vars == <<position, market, fee, feeRecipient, isAuthorized, growth, price, balance, calls>>

-----------------------------------------------------------------------------
(* MathLib, SharesMathLib and UtilsLib.                                     *)

MulDivDown(x, y, d) == (x * y) \div d
MulDivUp(x, y, d) == (x * y + (d - 1)) \div d
WMulDown(x, y) == MulDivDown(x, y, WAD)
WDivDown(x, y) == MulDivDown(x, WAD, y)
WDivUp(x, y) == MulDivUp(x, WAD, y)

ToSharesDown(assets, totalAssets, totalShares) ==
  MulDivDown(assets, totalShares + VIRTUAL_SHARES, totalAssets + VIRTUAL_ASSETS)
ToAssetsDown(shares, totalAssets, totalShares) ==
  MulDivDown(shares, totalAssets + VIRTUAL_ASSETS, totalShares + VIRTUAL_SHARES)
ToSharesUp(assets, totalAssets, totalShares) ==
  MulDivUp(assets, totalShares + VIRTUAL_SHARES, totalAssets + VIRTUAL_ASSETS)
ToAssetsUp(shares, totalAssets, totalShares) ==
  MulDivUp(shares, totalAssets + VIRTUAL_ASSETS, totalShares + VIRTUAL_SHARES)

ExactlyOneZero(x, y) == (x = 0) # (y = 0)
Least(x, y) == IF y < x THEN y ELSE x
ZeroFloorSub(x, y) == IF x > y THEN x - y ELSE 0

LiquidationIncentiveFactor ==
  Least((115 * WAD) \div 100, WDivDown(WAD, WAD - WMulDown((3 * WAD) \div 10, WAD - LLTV)))

-----------------------------------------------------------------------------
(* _accrueInterest.  Without growth it changes nothing.                     *)

Interest == WMulDown(market.totalBorrowAssets, growth)

FeeShares ==
  LET feeAmount == WMulDown(Interest, fee) IN
    ToSharesDown(feeAmount, market.totalSupplyAssets + Interest - feeAmount,
                 market.totalSupplyShares)

(* Mutant of AccruedMarket: suppliers do not get the part of the fee.       *)
AccruedMarketLessFee ==
  [market EXCEPT !.totalBorrowAssets = @ + Interest,
                 !.totalSupplyAssets = @ + Interest - WMulDown(Interest, fee),
                 !.totalSupplyShares = @ + FeeShares]

(* Mutant of AccruedMarket: the fee is added to the interest of suppliers.  *)
AccruedMarketFeeOnTop ==
  [market EXCEPT !.totalBorrowAssets = @ + Interest,
                 !.totalSupplyAssets = @ + Interest + WMulDown(Interest, fee),
                 !.totalSupplyShares = @ + FeeShares]

AccruedMarket ==
  [market EXCEPT !.totalBorrowAssets = @ + Interest,
                 !.totalSupplyAssets = @ + Interest,
                 !.totalSupplyShares = @ + FeeShares]

AccruedPosition == [position EXCEPT ![feeRecipient].supplyShares = @ + FeeShares]

(* Mutant of Fits: casts without a check.                                   *)
FitsUnchecked(m) == \A total \in DOMAIN m : m[total] >= 0

(* Amounts are cast with toUint128, and the compiler checks additions and   *)
(* subtractions.                                                            *)
Fits(m) == \A total \in DOMAIN m : m[total] \in 0..MAX_UINT128

(* _isHealthy.  Without debt, `borrowed` is 0.                              *)
IsHealthy(pos, m, borrower) ==
  LET borrowed == ToAssetsUp(pos[borrower].borrowShares,
                             m.totalBorrowAssets, m.totalBorrowShares)
      maxBorrow == WMulDown(MulDivDown(pos[borrower].collateral, price, ORACLE_PRICE_SCALE), LLTV)
  IN maxBorrow >= borrowed

IsSenderAuthorized(sender, onBehalf) ==
  sender = onBehalf \/ <<onBehalf, sender>> \in isAuthorized

-----------------------------------------------------------------------------
(* Tokens.                                                                  *)

Transferred(balances, token, from, to, amount) ==
  [[balances EXCEPT ![token][from] = @ - amount] EXCEPT ![token][to] = @ + amount]

(* Morpho pays a receiver.                                                  *)
Pay(token, receiver, amount) ==
  /\ balance[token][MorphoAddress] >= amount
  /\ balance' = Transferred(balance, token, MorphoAddress, receiver, amount)

(* Mutant of Collect: a callback is trusted to have paid.                   *)
CollectBeforeCallback(balances, token, sender, amount, data) ==
  /\ \/ data /\ balance' = balances
     \/ /\ ~data
        /\ balances[token][sender] >= amount
        /\ balance' = Transferred(balances, token, sender, MorphoAddress, amount)
  /\ UNCHANGED calls

(* Collects from the sender, after calling it back if there is data.        *)
Collect(balances, token, sender, amount, data) ==
  \/ /\ data
     /\ calls' = Append(calls, [token |-> token, sender |-> sender, amount |-> amount])
     /\ balance' = balances
  \/ /\ ~data
     /\ balances[token][sender] >= amount
     /\ balance' = Transferred(balances, token, sender, MorphoAddress, amount)
     /\ UNCHANGED calls

(* The callback returns and the payment is collected.                       *)
EndCallback ==
  /\ calls # <<>>
  /\ LET call == Last(calls) IN
       /\ balance[call.token][call.sender] >= call.amount
       /\ balance' = Transferred(balance, call.token, call.sender, MorphoAddress, call.amount)
  /\ calls' = Front(calls)
  /\ UNCHANGED <<position, market, fee, feeRecipient, isAuthorized, growth, price>>

-----------------------------------------------------------------------------
(* Supplying and withdrawing, borrowing and repaying.  A call names either  *)
(* assets or shares; the other is converted.                                *)

(* Mutant of PaidIn: rounds the shares up.                                  *)
PaidInRoundedUp(assets, shares, totalAssets, totalShares) ==
  IF assets > 0
  THEN [assets |-> assets, shares |-> ToSharesUp(assets, totalAssets, totalShares)]
  ELSE [assets |-> ToAssetsUp(shares, totalAssets, totalShares), shares |-> shares]

(* What a user pays the contract, for supply shares or to end a debt.       *)
PaidIn(assets, shares, totalAssets, totalShares) ==
  IF assets > 0
  THEN [assets |-> assets, shares |-> ToSharesDown(assets, totalAssets, totalShares)]
  ELSE [assets |-> ToAssetsUp(shares, totalAssets, totalShares), shares |-> shares]

(* What the contract pays a user, out of a supply or as a loan.             *)
PaidOut(assets, shares, totalAssets, totalShares) ==
  IF assets > 0
  THEN [assets |-> assets, shares |-> ToSharesUp(assets, totalAssets, totalShares)]
  ELSE [assets |-> ToAssetsDown(shares, totalAssets, totalShares), shares |-> shares]

Supply(sender, assets, shares, onBehalf, data) ==
  /\ ExactlyOneZero(assets, shares)
  /\ LET m == AccruedMarket
         paid == PaidIn(assets, shares, m.totalSupplyAssets, m.totalSupplyShares)
     IN
     /\ Fits(m)
     /\ market' = [m EXCEPT !.totalSupplyShares = @ + paid.shares,
                            !.totalSupplyAssets = @ + paid.assets]
     /\ Fits(market')
     /\ position' = [AccruedPosition EXCEPT ![onBehalf].supplyShares = @ + paid.shares]
     /\ Collect(balance, "loan", sender, paid.assets, data)
  /\ growth' = 0
  /\ UNCHANGED <<fee, feeRecipient, isAuthorized, price>>

Withdraw(sender, assets, shares, onBehalf, receiver) ==
  /\ ExactlyOneZero(assets, shares)
  /\ IsSenderAuthorized(sender, onBehalf)
  /\ LET m == AccruedMarket
         paid == PaidOut(assets, shares, m.totalSupplyAssets, m.totalSupplyShares)
     IN
     /\ Fits(m)
     /\ paid.shares <= AccruedPosition[onBehalf].supplyShares
     /\ market' = [m EXCEPT !.totalSupplyShares = @ - paid.shares,
                            !.totalSupplyAssets = @ - paid.assets]
     /\ Fits(market')
     /\ market'.totalBorrowAssets <= market'.totalSupplyAssets
     /\ position' = [AccruedPosition EXCEPT ![onBehalf].supplyShares = @ - paid.shares]
     /\ Pay("loan", receiver, paid.assets)
  /\ growth' = 0
  /\ UNCHANGED <<fee, feeRecipient, isAuthorized, price, calls>>

Borrow(sender, assets, shares, onBehalf, receiver) ==
  /\ ExactlyOneZero(assets, shares)
  /\ IsSenderAuthorized(sender, onBehalf)
  /\ LET m == AccruedMarket
         paid == PaidOut(assets, shares, m.totalBorrowAssets, m.totalBorrowShares)
     IN
     /\ Fits(m)
     /\ market' = [m EXCEPT !.totalBorrowShares = @ + paid.shares,
                            !.totalBorrowAssets = @ + paid.assets]
     /\ Fits(market')
     /\ position' = [AccruedPosition EXCEPT ![onBehalf].borrowShares = @ + paid.shares]
     /\ IsHealthy(position', market', onBehalf)
     /\ market'.totalBorrowAssets <= market'.totalSupplyAssets
     /\ Pay("loan", receiver, paid.assets)
  /\ growth' = 0
  /\ UNCHANGED <<fee, feeRecipient, isAuthorized, price, calls>>

(* The payment may exceed the total by one, hence ZeroFloorSub.             *)
Repay(sender, assets, shares, onBehalf, data) ==
  /\ ExactlyOneZero(assets, shares)
  /\ LET m == AccruedMarket
         paid == PaidIn(assets, shares, m.totalBorrowAssets, m.totalBorrowShares)
     IN
     /\ Fits(m)
     /\ paid.shares <= position[onBehalf].borrowShares
     /\ market' = [m EXCEPT !.totalBorrowShares = @ - paid.shares,
                            !.totalBorrowAssets = ZeroFloorSub(@, paid.assets)]
     /\ Fits(market')
     /\ position' = [AccruedPosition EXCEPT ![onBehalf].borrowShares = @ - paid.shares]
     /\ Collect(balance, "loan", sender, paid.assets, data)
  /\ growth' = 0
  /\ UNCHANGED <<fee, feeRecipient, isAuthorized, price>>

-----------------------------------------------------------------------------
(* Collateral.                                                              *)

(* Interest is not accrued.                                                 *)
SupplyCollateral(sender, assets, onBehalf, data) ==
  /\ assets # 0
  /\ position[onBehalf].collateral + assets <= MAX_UINT128
  /\ position' = [position EXCEPT ![onBehalf].collateral = @ + assets]
  /\ Collect(balance, "collateral", sender, assets, data)
  /\ UNCHANGED <<market, fee, feeRecipient, isAuthorized, growth, price>>

(* Mutant of WithdrawCollateral: does not look at the health.               *)
WithdrawCollateralUnchecked(sender, assets, onBehalf, receiver) ==
  /\ assets # 0
  /\ IsSenderAuthorized(sender, onBehalf)
  /\ Fits(AccruedMarket)
  /\ assets <= position[onBehalf].collateral
  /\ position' = [AccruedPosition EXCEPT ![onBehalf].collateral = @ - assets]
  /\ market' = AccruedMarket
  /\ Pay("collateral", receiver, assets)
  /\ growth' = 0
  /\ UNCHANGED <<fee, feeRecipient, isAuthorized, price, calls>>

WithdrawCollateral(sender, assets, onBehalf, receiver) ==
  /\ assets # 0
  /\ IsSenderAuthorized(sender, onBehalf)
  /\ Fits(AccruedMarket)
  /\ assets <= position[onBehalf].collateral
  /\ position' = [AccruedPosition EXCEPT ![onBehalf].collateral = @ - assets]
  /\ market' = AccruedMarket
  /\ IsHealthy(position', market', onBehalf)
  /\ Pay("collateral", receiver, assets)
  /\ growth' = 0
  /\ UNCHANGED <<fee, feeRecipient, isAuthorized, price, calls>>

-----------------------------------------------------------------------------
(* Liquidation, in the order of the code: repay, seize, write off.          *)

Seized(repaidShares, m) ==
  MulDivDown(WMulDown(ToAssetsDown(repaidShares, m.totalBorrowAssets, m.totalBorrowShares),
                      LiquidationIncentiveFactor),
             ORACLE_PRICE_SCALE, price)

(* Mutant of RepaidShares: the value of what is seized is rounded down.     *)
RepaidSharesDown(seizedAssets, m) ==
  ToSharesUp(WDivDown(MulDivDown(seizedAssets, price, ORACLE_PRICE_SCALE),
                      LiquidationIncentiveFactor),
             m.totalBorrowAssets, m.totalBorrowShares)

RepaidShares(seizedAssets, m) ==
  ToSharesUp(WDivUp(MulDivUp(seizedAssets, price, ORACLE_PRICE_SCALE),
                    LiquidationIncentiveFactor),
             m.totalBorrowAssets, m.totalBorrowShares)

(* Mutant of WrittenOff: leaves the debt to the borrower.                   *)
NotWrittenOff(pos, m, borrower) == [position |-> pos, market |-> m]

(* Mutant of WrittenOff: forgets the shares of the bad debt.                *)
WrittenOffCounted(pos, m, borrower) ==
  LET badDebtAssets == Least(m.totalBorrowAssets,
        ToAssetsUp(pos[borrower].borrowShares, m.totalBorrowAssets, m.totalBorrowShares))
  IN
  IF pos[borrower].collateral = 0
  THEN [position |-> [pos EXCEPT ![borrower].borrowShares = 0],
        market |-> [m EXCEPT !.totalBorrowAssets = @ - badDebtAssets,
                             !.totalSupplyAssets = @ - badDebtAssets]]
  ELSE [position |-> pos, market |-> m]

(* The debt that is left without collateral is taken from the suppliers.    *)
WrittenOff(pos, m, borrower) ==
  LET badDebtShares == pos[borrower].borrowShares
      badDebtAssets == Least(m.totalBorrowAssets,
        ToAssetsUp(badDebtShares, m.totalBorrowAssets, m.totalBorrowShares))
  IN
  IF pos[borrower].collateral = 0
  THEN [position |-> [pos EXCEPT ![borrower].borrowShares = 0],
        market |-> [m EXCEPT !.totalBorrowAssets = @ - badDebtAssets,
                             !.totalSupplyAssets = @ - badDebtAssets,
                             !.totalBorrowShares = @ - badDebtShares]]
  ELSE [position |-> pos, market |-> m]

Liquidate(sender, borrower, seizedAssets, repaidShares, data) ==
  /\ ExactlyOneZero(seizedAssets, repaidShares)
  /\ LET m == AccruedMarket
         seized == IF seizedAssets > 0 THEN seizedAssets ELSE Seized(repaidShares, m)
         repaid == IF seizedAssets > 0 THEN RepaidShares(seizedAssets, m) ELSE repaidShares
         repaidAssets == ToAssetsUp(repaid, m.totalBorrowAssets, m.totalBorrowShares)
         pos == [AccruedPosition EXCEPT ![borrower].borrowShares = @ - repaid,
                                        ![borrower].collateral = @ - seized]
         rest == [m EXCEPT !.totalBorrowShares = @ - repaid,
                           !.totalBorrowAssets = ZeroFloorSub(@, repaidAssets)]
         result == WrittenOff(pos, rest, borrower)
     IN
     /\ Fits(m)
     /\ ~IsHealthy(AccruedPosition, m, borrower)
     /\ repaid <= position[borrower].borrowShares
     /\ seized <= position[borrower].collateral
     /\ Fits(rest)
     /\ position' = result.position
     /\ market' = result.market
     /\ Fits(market')
     /\ balance["collateral"][MorphoAddress] >= seized
     /\ Collect(Transferred(balance, "collateral", MorphoAddress, sender, seized),
                "loan", sender, repaidAssets, data)
  /\ growth' = 0
  /\ UNCHANGED <<fee, feeRecipient, isAuthorized, price>>

-----------------------------------------------------------------------------
(* Flash loans, authorizations, interest and the owner's operations.        *)

(* The borrower is always called back.                                      *)
FlashLoan(sender, token, assets) ==
  /\ assets # 0
  /\ balance[token][MorphoAddress] >= assets
  /\ Collect(Transferred(balance, token, MorphoAddress, sender, assets),
             token, sender, assets, TRUE)
  /\ UNCHANGED <<position, market, fee, feeRecipient, isAuthorized, growth, price>>

SetAuthorization(sender, authorized) ==
  /\ isAuthorized' = IF <<sender, authorized>> \in isAuthorized
                     THEN isAuthorized \ {<<sender, authorized>>}
                     ELSE isAuthorized \cup {<<sender, authorized>>}
  /\ UNCHANGED <<position, market, fee, feeRecipient, growth, price, balance, calls>>

(* Mutant of AccrueInterest: the shares of the fee are not counted.         *)
AccrueInterestUncounted ==
  /\ Fits(AccruedMarket)
  /\ position' = AccruedPosition
  /\ market' = [AccruedMarket EXCEPT !.totalSupplyShares = market.totalSupplyShares]
  /\ growth' = 0
  /\ UNCHANGED <<fee, feeRecipient, isAuthorized, price, balance, calls>>

AccrueInterest ==
  /\ Fits(AccruedMarket)
  /\ position' = AccruedPosition
  /\ market' = AccruedMarket
  /\ growth' = 0
  /\ UNCHANGED <<fee, feeRecipient, isAuthorized, price, balance, calls>>

(* Interest is accrued with the previous fee.                               *)
SetFee(newFee) ==
  /\ newFee # fee
  /\ Fits(AccruedMarket)
  /\ position' = AccruedPosition
  /\ market' = AccruedMarket
  /\ growth' = 0
  /\ fee' = newFee
  /\ UNCHANGED <<feeRecipient, isAuthorized, price, balance, calls>>

SetFeeRecipient(newFeeRecipient) ==
  /\ newFeeRecipient # feeRecipient
  /\ feeRecipient' = newFeeRecipient
  /\ UNCHANGED <<position, market, fee, isAuthorized, growth, price, balance, calls>>

-----------------------------------------------------------------------------
(* The environment.  Time stands still within a transaction.                *)

TimePasses(g) ==
  /\ calls = <<>> /\ growth = 0
  /\ growth' = g
  /\ UNCHANGED <<position, market, fee, feeRecipient, isAuthorized, price, balance, calls>>

SetPrice(p) ==
  /\ price' = p
  /\ UNCHANGED <<position, market, fee, feeRecipient, isAuthorized, growth, balance, calls>>

-----------------------------------------------------------------------------

Init ==
  /\ position = [u \in Accounts |-> [supplyShares |-> 0, borrowShares |-> 0, collateral |-> 0]]
  /\ market = [totalSupplyAssets |-> 0, totalSupplyShares |-> 0,
               totalBorrowAssets |-> 0, totalBorrowShares |-> 0]
  /\ fee = 0
  /\ feeRecipient = ZeroAddress
  /\ isAuthorized = {}
  /\ growth = 0
  /\ price \in Prices
  /\ balance = [loan |-> [h \in Holders |-> IF h \in Users THEN InitialLoan[h] ELSE OtherMarkets],
                collateral |-> [h \in Holders |-> IF h \in Users THEN InitialCollateral[h] ELSE 0]]
  /\ calls = <<>>

(* Whether there is data.                                                   *)
Data == IF Len(calls) < MaxDepth THEN BOOLEAN ELSE {FALSE}

(* Payments may go to anybody, the contract itself included.                *)
CallMarket ==
  \E sender, user \in Users, assets \in 0..MaxAssets :
    \/ \E shares \in 0..MaxShares :
         \/ \E data \in Data :
              \/ Supply(sender, assets, shares, user, data)
              \/ Repay(sender, assets, shares, user, data)
              \/ Liquidate(sender, user, assets, shares, data)
         \/ \E receiver \in Receivers :
              \/ Withdraw(sender, assets, shares, user, receiver)
              \/ Borrow(sender, assets, shares, user, receiver)
    \/ \E data \in Data : SupplyCollateral(sender, assets, user, data)
    \/ \E receiver \in Receivers : WithdrawCollateral(sender, assets, user, receiver)

CallOther ==
  \/ /\ TRUE \in Data
     /\ \E sender \in Users, token \in {"loan", "collateral"}, assets \in 1..MaxAssets :
          FlashLoan(sender, token, assets)
  \/ \E grant \in Grants : SetAuthorization(grant[1], grant[2])
  \/ AccrueInterest
  \/ \E newFee \in Fees : SetFee(newFee)
  \/ \E newFeeRecipient \in FeeRecipients : SetFeeRecipient(newFeeRecipient)
  \/ EndCallback

Environment == (\E g \in Growths : TimePasses(g)) \/ (\E p \in Prices : SetPrice(p))

Next == CallMarket \/ CallOther \/ Environment

Spec == Init /\ [][Next]_vars

-----------------------------------------------------------------------------
(* Properties.                                                              *)

Positions == [supplyShares : Nat, borrowShares : Nat, collateral : 0..MAX_UINT128]

Totals ==
  [totalSupplyAssets : 0..MAX_UINT128, totalSupplyShares : 0..MAX_UINT128,
   totalBorrowAssets : 0..MAX_UINT128, totalBorrowShares : 0..MAX_UINT128]

Calls == [token : {"loan", "collateral"}, sender : Users, amount : Nat]

(* No subtraction ever passes below zero, no total passes its width.        *)
TypeOK ==
  /\ position \in [Accounts -> Positions]
  /\ market \in Totals
  /\ fee \in Fees \cup {0} /\ feeRecipient \in Accounts
  /\ isAuthorized \subseteq Users \X Users
  /\ growth \in Growths \cup {0} /\ price \in Prices
  /\ balance \in [{"loan", "collateral"} -> [Holders -> Nat]]
  /\ calls \in Seq(Calls)

(* Totals of a field of the positions, and of what callbacks still owe.     *)
Sum(field) == SumFunctionOnSet([u \in Accounts |-> position[u][field]], Accounts)

Owed(token) ==
  SumFunctionOnSet([i \in DOMAIN calls |-> IF calls[i].token = token THEN calls[i].amount ELSE 0],
                   DOMAIN calls)

(* The totals of the market are the sums of the positions, the shares of    *)
(* fees included, whatever was accrued, liquidated or written off.          *)
TotalsMatchPositions ==
  /\ market.totalSupplyShares = Sum("supplyShares")
  /\ market.totalBorrowShares = Sum("borrowShares")

(* What is borrowed never exceeds what is supplied, at any time: not after  *)
(* interest, not after bad debt, not inside a callback.                     *)
BorrowWithinSupply == market.totalBorrowAssets <= market.totalSupplyAssets

(* The contract holds the tokens that are not lent, those of other markets, *)
(* and all collateral, once open callbacks have paid.  Rounding and         *)
(* payments to the contract itself leave it some more.                      *)
Backed ==
  /\ balance.loan[MorphoAddress] + Owed("loan")
       >= OtherMarkets + market.totalSupplyAssets - market.totalBorrowAssets
  /\ balance.collateral[MorphoAddress] + Owed("collateral") >= Sum("collateral")

(* If every debt is repaid, every supplier can be paid: what the supply      *)
(* shares are worth together, each rounded on its own, is lent or held, and  *)
(* not out of the tokens of other markets.                                  *)
SuppliedAssets(u) ==
  ToAssetsDown(position[u].supplyShares, market.totalSupplyAssets, market.totalSupplyShares)

SuppliersCovered ==
  OtherMarkets + SumFunctionOnSet([u \in Accounts |-> SuppliedAssets(u)], Accounts)
    <= balance.loan[MorphoAddress] + Owed("loan") + market.totalBorrowAssets

(* A debt without collateral does not outlive the step that made it.        *)
DebtHasCollateral ==
  \A u \in Accounts : position[u].borrowShares > 0 => position[u].collateral > 0

(* A step that may write off bad debt: it ends the debt of a borrower and   *)
(* takes the last collateral.                                               *)
SeizesAll ==
  \E u \in Users : /\ position[u].collateral > 0 /\ position'[u].collateral = 0
                   /\ position[u].borrowShares > 0 /\ position'[u].borrowShares = 0

(* The price of a supply share never falls, except by bad debt: no rounding *)
(* of any operation favours its caller at the expense of the suppliers.     *)
SharePriceKept ==
  [][\/ (market'.totalSupplyAssets + VIRTUAL_ASSETS) * (market.totalSupplyShares + VIRTUAL_SHARES)
         >= (market.totalSupplyAssets + VIRTUAL_ASSETS)
              * (market'.totalSupplyShares + VIRTUAL_SHARES)
     \/ SeizesAll]_vars

(* Only interest and the oracle make a healthy position unhealthy: no       *)
(* operation of anybody, on any position, does.                             *)
HealthKept ==
  [][growth = 0 /\ price' = price =>
       \A u \in Users : IsHealthy(position, market, u) => IsHealthy(position', market', u)]_vars

(* An unhealthy user loses no more collateral than the liquidator pays for, *)
(* with the incentive: no rounding favours the liquidator.                  *)
Unhealthy(u) == ~IsHealthy(AccruedPosition, AccruedMarket, u)

Collected == balance.loan[MorphoAddress] + Owed("loan")

SeizedIsPaid ==
  [][\A u \in Users : Unhealthy(u) /\ position'[u].collateral < position[u].collateral =>
       (position[u].collateral - position'[u].collateral) * price * WAD
         <= (Collected' - Collected) * LiquidationIncentiveFactor * ORACLE_PRICE_SCALE]_vars

=============================================================================
