---------------------------- MODULE MorphoProofs ----------------------------
(***************************************************************************)
(* Morpho, for every rate, price, fee, amount and depth of callbacks.      *)
(* First type correctness, and that the loans of a market never exceed its *)
(* supply.  Then its accounts: totals, positions and tokens agree in every *)
(* reachable state, no account owes anything without collateral, and no    *)
(* operation lowers the price of a supply share or the health of anybody   *)
(* else's position.                                                        *)
(*                                                                         *)
(* Every operation first accrues interest and then changes one account, by *)
(* amounts whose conversion was rounded against its caller.  Effect says   *)
(* what it changes, PricesKept what the rounding means; the invariant and  *)
(* the action properties follow from these for all operations at once.     *)
(***************************************************************************)
EXTENDS Morpho, SequenceTheorems, SumTheorems

(* Products and quotients of natural numbers.                               *)
LEMMA ProductNat == ASSUME NEW x \in Nat, NEW y \in Nat PROVE x * y \in Nat
OBVIOUS

LEMMA QuotientNat == ASSUME NEW x \in Nat, NEW d \in Nat \ {0} PROVE x \div d \in Nat
OBVIOUS

(* The rounding operators of MathLib stay in the natural numbers.           *)
LEMMA MulDivNat ==
  ASSUME NEW x \in Nat, NEW y \in Nat, NEW d \in Nat \ {0}
  PROVE  MulDivDown(x, y, d) \in Nat /\ MulDivUp(x, y, d) \in Nat
<1>1. x * y \in Nat
  BY ProductNat
<1>2. x * y + (d - 1) \in Nat
  BY <1>1
<1>3. QED BY <1>1, <1>2, QuotientNat DEF MulDivDown, MulDivUp

(* So do the conversions of SharesMathLib.                                  *)
LEMMA ConversionNat ==
  ASSUME NEW x \in Nat, NEW a \in Nat, NEW s \in Nat
  PROVE  /\ ToSharesDown(x, a, s) \in Nat /\ ToSharesUp(x, a, s) \in Nat
         /\ ToAssetsDown(x, a, s) \in Nat /\ ToAssetsUp(x, a, s) \in Nat
<1>1. /\ a + VIRTUAL_ASSETS \in Nat \ {0} /\ s + VIRTUAL_SHARES \in Nat \ {0}
  BY MorphoAssumption DEF VIRTUAL_ASSETS
<1>2. QED BY <1>1, MulDivNat DEF ToSharesDown, ToSharesUp, ToAssetsDown, ToAssetsUp

(* A fraction of at most one of an amount is at most the amount.            *)
LEMMA FractionBounded ==
  ASSUME NEW i \in Nat, NEW f \in 0..WAD
  PROVE  WMulDown(i, f) \in Nat /\ WMulDown(i, f) <= i
<1>1. WAD \in Nat \ {0}
  BY MorphoAssumption
<1>2. PICK q \in Nat : q = WMulDown(i, f)
  BY <1>1, MulDivNat DEF WMulDown
<1>3. q * WAD <= i * f
  BY <1>1, <1>2, ProductNat DEF WMulDown, MulDivDown
<1>4. i * f <= i * WAD
  BY <1>1
<1>5. CASE q > i
  <2>1. PICK d \in Nat : q = i + 1 + d
    <3>1. q - i - 1 \in Nat /\ q = i + 1 + (q - i - 1)
      BY <1>5
    <3>2. QED BY <3>1
  <2>2. q * WAD = i * WAD + WAD + d * WAD
    BY <1>1, <2>1
  <2>3. d * WAD \in Nat /\ i * WAD \in Nat /\ i * f \in Nat /\ q * WAD \in Nat
    BY <1>1, ProductNat
  <2>4. QED BY <1>1, <1>3, <1>4, <2>2, <2>3
<1>6. QED BY <1>2, <1>5

-----------------------------------------------------------------------------
(* The parts of the state.                                                  *)

Integral ==
  [totalSupplyAssets : Int, totalSupplyShares : Int,
   totalBorrowAssets : Int, totalBorrowShares : Int]

Balances == [{"loan", "collateral"} -> [Holders -> Nat]]

(* The inductive invariant.                                                 *)
MorphoInv == TypeOK /\ BorrowWithinSupply

(* The checks of the compiler keep the totals in their width.               *)
LEMMA FitsTotals ==
  ASSUME NEW m \in Integral, Fits(m)
  PROVE  m \in Totals
<1>1. DOMAIN m = {"totalSupplyAssets", "totalSupplyShares",
                  "totalBorrowAssets", "totalBorrowShares"}
  BY DEF Integral
<1>2. /\ m.totalSupplyAssets \in 0..MAX_UINT128 /\ m.totalSupplyShares \in 0..MAX_UINT128
      /\ m.totalBorrowAssets \in 0..MAX_UINT128 /\ m.totalBorrowShares \in 0..MAX_UINT128
  BY <1>1 DEF Fits
<1>3. QED BY <1>2 DEF Integral, Totals

(* A transfer between two holders that the balance of the first covers.     *)
LEMMA TransferredTypes ==
  ASSUME NEW balances \in Balances, NEW token \in {"loan", "collateral"},
         NEW from \in Holders, NEW to \in Holders, NEW amount \in Nat,
         balances[token][from] >= amount
  PROVE  Transferred(balances, token, from, to, amount) \in Balances
<1> DEFINE b == [balances EXCEPT ![token][from] = @ - amount]
<1>1. b \in Balances
  <2>1. balances[token][from] - amount \in Nat
    BY DEF Balances
  <2>2. QED BY <2>1 DEF Balances
<1>2. b[token][to] + amount \in Nat
  BY <1>1 DEF Balances
<1>3. [b EXCEPT ![token][to] = @ + amount] \in Balances
  BY <1>1, <1>2 DEF Balances
<1>4. QED BY <1>3 DEF Transferred

(* Collecting, now or after a callback.                                     *)
LEMMA CollectTypes ==
  ASSUME NEW balances \in Balances, NEW token \in {"loan", "collateral"},
         NEW sender \in Users, NEW amount \in Nat, NEW data,
         calls \in Seq(Calls), Collect(balances, token, sender, amount, data)
  PROVE  balance' \in Balances /\ calls' \in Seq(Calls)
<1>1. CASE /\ calls' = Append(calls, [token |-> token, sender |-> sender, amount |-> amount])
           /\ balance' = balances
  BY <1>1 DEF Calls
<1>2. CASE /\ balances[token][sender] >= amount
           /\ balance' = Transferred(balances, token, sender, MorphoAddress, amount)
           /\ UNCHANGED calls
  BY <1>2, TransferredTypes DEF Holders
<1>3. QED BY <1>1, <1>2 DEF Collect

(* A changed field of a position.                                           *)
LEMMA UpdatedPosition ==
  ASSUME NEW pos \in [Accounts -> Positions], NEW u \in Accounts, NEW n \in Nat
  PROVE  /\ [pos EXCEPT ![u].supplyShares = n] \in [Accounts -> Positions]
         /\ [pos EXCEPT ![u].borrowShares = n] \in [Accounts -> Positions]
         /\ n <= MAX_UINT128 => [pos EXCEPT ![u].collateral = n] \in [Accounts -> Positions]
BY MorphoAssumption DEF Positions

(* Interest and fees.                                                       *)
LEMMA AccruedTypes ==
  ASSUME MorphoInv
  PROVE  /\ Interest \in Nat /\ FeeShares \in Nat
         /\ AccruedPosition \in [Accounts -> Positions]
         /\ \A u \in Accounts : /\ AccruedPosition[u].borrowShares = position[u].borrowShares
                                /\ AccruedPosition[u].collateral = position[u].collateral
         /\ AccruedMarket \in Integral
         /\ Fits(AccruedMarket) => AccruedMarket \in Totals
         /\ AccruedMarket.totalBorrowAssets <= AccruedMarket.totalSupplyAssets
<1>1. /\ market \in Totals /\ growth \in Nat /\ fee \in 0..WAD
      /\ feeRecipient \in Accounts /\ position \in [Accounts -> Positions]
      /\ market.totalBorrowAssets <= market.totalSupplyAssets
  <2>1. WAD \div 4 \in Nat /\ WAD \div 4 <= WAD
    BY MorphoAssumption
  <2>2. fee \in 0..WAD
    BY <2>1, MorphoAssumption DEF MorphoInv, TypeOK
  <2>3. QED BY <2>2, MorphoAssumption DEF MorphoInv, TypeOK, BorrowWithinSupply
<1>2. /\ market.totalSupplyAssets \in Nat /\ market.totalSupplyShares \in Nat
      /\ market.totalBorrowAssets \in Nat /\ market.totalBorrowShares \in Nat
  BY <1>1, MorphoAssumption DEF Totals
<1>3. Interest \in Nat
  BY <1>1, <1>2, MulDivNat, MorphoAssumption DEF Interest, WMulDown
<1>4. FeeShares \in Nat
  <2>1. PICK f \in Nat : f = WMulDown(Interest, fee) /\ f <= Interest
    BY <1>1, <1>3, FractionBounded
  <2>2. market.totalSupplyAssets + Interest - f \in Nat
    BY <1>2, <1>3, <2>1
  <2>3. QED BY <1>2, <2>1, <2>2, ConversionNat DEF FeeShares
<1>5. /\ AccruedPosition \in [Accounts -> Positions]
      /\ \A u \in Accounts : /\ AccruedPosition[u].borrowShares = position[u].borrowShares
                             /\ AccruedPosition[u].collateral = position[u].collateral
  BY <1>1, <1>4 DEF AccruedPosition, Positions
<1>6. AccruedMarket \in Integral
  <2>1. market \in Integral /\ Interest \in Int /\ FeeShares \in Int
    BY <1>1, <1>3, <1>4, MorphoAssumption DEF Totals, Integral
  <2>2. /\ market.totalBorrowAssets + Interest \in Int
        /\ market.totalSupplyAssets + Interest \in Int
        /\ market.totalSupplyShares + FeeShares \in Int
    BY <1>2, <2>1
  <2>3. QED BY <2>1, <2>2 DEF AccruedMarket, Integral
<1>7. AccruedMarket.totalBorrowAssets <= AccruedMarket.totalSupplyAssets
  BY <1>1, <1>2, <1>3 DEF AccruedMarket, Totals
<1>8. QED BY <1>3, <1>4, <1>5, <1>6, <1>7, FitsTotals

(* What is paid for a request is natural.                                   *)
LEMMA PaidTypes ==
  ASSUME NEW assets \in Nat, NEW shares \in Nat, NEW a \in Nat, NEW s \in Nat
  PROVE  /\ PaidIn(assets, shares, a, s).assets \in Nat
         /\ PaidIn(assets, shares, a, s).shares \in Nat
         /\ PaidOut(assets, shares, a, s).assets \in Nat
         /\ PaidOut(assets, shares, a, s).shares \in Nat
BY ConversionNat DEF PaidIn, PaidOut

-----------------------------------------------------------------------------
(* The actions.                                                             *)

(* What every operation on the market owes the invariant.                   *)
LEMMA InvariantKept ==
  ASSUME MorphoInv,
         position' \in [Accounts -> Positions], market' \in Totals,
         market'.totalBorrowAssets <= market'.totalSupplyAssets,
         balance' \in Balances, calls' \in Seq(Calls), growth' \in {0, growth},
         UNCHANGED <<fee, feeRecipient, isAuthorized, price>>
  PROVE  MorphoInv'
BY DEF MorphoInv, TypeOK, BorrowWithinSupply, Balances

(* The types of the parts, for the steps below.                             *)
LEMMA PartTypes ==
  ASSUME MorphoInv
  PROVE  /\ balance \in Balances /\ calls \in Seq(Calls)
         /\ position \in [Accounts -> Positions] /\ market \in Totals
         /\ market \in Integral
         /\ market.totalBorrowAssets <= market.totalSupplyAssets
         /\ price \in Nat \ {0}
<1>1. market \in Totals => market \in Integral
  BY MorphoAssumption DEF Totals, Integral
<1>2. QED BY <1>1, MorphoAssumption DEF MorphoInv, TypeOK, BorrowWithinSupply, Balances

(* Morpho pays only what it has.                                            *)
LEMMA PayTypes ==
  ASSUME MorphoInv, NEW token \in {"loan", "collateral"}, NEW receiver \in Holders,
         NEW amount \in Nat, Pay(token, receiver, amount)
  PROVE  balance' \in Balances
BY PartTypes, TransferredTypes DEF Pay, Holders

(* The accrued totals, once they fit.                                       *)
LEMMA AccruedTotals ==
  ASSUME MorphoInv, Fits(AccruedMarket)
  PROVE  /\ AccruedMarket \in Totals /\ AccruedMarket \in Integral
         /\ AccruedMarket.totalSupplyAssets \in Nat /\ AccruedMarket.totalSupplyShares \in Nat
         /\ AccruedMarket.totalBorrowAssets \in Nat /\ AccruedMarket.totalBorrowShares \in Nat
         /\ AccruedMarket.totalBorrowAssets <= AccruedMarket.totalSupplyAssets
         /\ AccruedPosition \in [Accounts -> Positions]
<1>1. /\ AccruedMarket \in Totals /\ AccruedMarket \in Integral
      /\ AccruedMarket.totalBorrowAssets <= AccruedMarket.totalSupplyAssets
      /\ AccruedPosition \in [Accounts -> Positions]
  BY AccruedTypes
<1>2. QED BY <1>1, MorphoAssumption DEF Totals

(* Supplying keeps the invariant: it adds a natural number to the supply.   *)
LEMMA SupplyKeeps ==
  ASSUME MorphoInv, NEW sender \in Users, NEW user \in Users, NEW assets \in Nat,
         NEW shares \in Nat, NEW data, Supply(sender, assets, shares, user, data)
  PROVE  MorphoInv'
<1> DEFINE m == AccruedMarket
           paid == PaidIn(assets, shares, m.totalSupplyAssets, m.totalSupplyShares)
<1>1. Fits(m)
  BY DEF Supply
<1>2. paid.assets \in Nat /\ paid.shares \in Nat
  BY <1>1, AccruedTotals, PaidTypes
<1> HIDE DEF paid
<1>3. market' = [m EXCEPT !.totalSupplyShares = m.totalSupplyShares + paid.shares,
                          !.totalSupplyAssets = m.totalSupplyAssets + paid.assets]
  BY DEF Supply, paid
<1>4. /\ m.totalSupplyShares + paid.shares \in Int
      /\ m.totalSupplyAssets + paid.assets \in Int
      /\ m.totalBorrowAssets <= m.totalSupplyAssets + paid.assets
  BY <1>1, <1>2, AccruedTotals
<1>5. /\ market' \in Integral
      /\ market'.totalBorrowAssets <= market'.totalSupplyAssets
  <2> HIDE DEF m
  <2>1. m \in Integral
    BY <1>1, AccruedTotals DEF m
  <2>2. QED BY <1>3, <1>4, <2>1 DEF Integral
<1>6. market' \in Totals
  BY <1>5, FitsTotals DEF Supply
<1>7. position' \in [Accounts -> Positions]
  <2>1. AccruedPosition \in [Accounts -> Positions]
    BY <1>1, AccruedTotals
  <2>2. /\ user \in Accounts
        /\ AccruedPosition[user].supplyShares + paid.shares \in Nat
    BY <1>2, <2>1 DEF Accounts, Positions
  <2>3. position' = [AccruedPosition EXCEPT ![user].supplyShares =
                       AccruedPosition[user].supplyShares + paid.shares]
    BY DEF Supply, paid
  <2>4. QED BY <2>1, <2>2, <2>3, UpdatedPosition
<1>8. balance' \in Balances /\ calls' \in Seq(Calls)
  <2>1. Collect(balance, "loan", sender, paid.assets, data)
    BY DEF Supply, paid
  <2>2. QED BY <1>2, <2>1, PartTypes, CollectTypes
<1>9. growth' = 0 /\ UNCHANGED <<fee, feeRecipient, isAuthorized, price>>
  BY DEF Supply
<1>10. QED BY <1>5, <1>6, <1>7, <1>8, <1>9, InvariantKept

(* Withdrawing does: the totals are compared afterwards.                    *)
LEMMA WithdrawKeeps ==
  ASSUME MorphoInv, NEW sender \in Users, NEW user \in Users, NEW assets \in Nat,
         NEW shares \in Nat, NEW receiver \in Holders,
         Withdraw(sender, assets, shares, user, receiver)
  PROVE  MorphoInv'
<1> DEFINE m == AccruedMarket
           paid == PaidOut(assets, shares, m.totalSupplyAssets, m.totalSupplyShares)
<1>1. Fits(m)
  BY DEF Withdraw
<1>2. paid.assets \in Nat /\ paid.shares \in Nat
  BY <1>1, AccruedTotals, PaidTypes
<1> HIDE DEF paid
<1>3. market' = [m EXCEPT !.totalSupplyShares = m.totalSupplyShares - paid.shares,
                          !.totalSupplyAssets = m.totalSupplyAssets - paid.assets]
  BY DEF Withdraw, paid
<1>4. /\ m.totalSupplyShares - paid.shares \in Int
      /\ m.totalSupplyAssets - paid.assets \in Int
  BY <1>1, <1>2, AccruedTotals
<1>5. market' \in Integral
  <2> HIDE DEF m
  <2>1. m \in Integral
    BY <1>1, AccruedTotals DEF m
  <2>2. QED BY <1>3, <1>4, <2>1 DEF Integral
<1>6. market' \in Totals /\ market'.totalBorrowAssets <= market'.totalSupplyAssets
  BY <1>5, FitsTotals DEF Withdraw
<1>7. position' \in [Accounts -> Positions]
  <2>1. AccruedPosition \in [Accounts -> Positions]
    BY <1>1, AccruedTotals
  <2>2. paid.shares <= AccruedPosition[user].supplyShares
    BY DEF Withdraw, paid
  <2>3. /\ user \in Accounts
        /\ AccruedPosition[user].supplyShares - paid.shares \in Nat
    BY <1>2, <2>1, <2>2 DEF Accounts, Positions
  <2>4. position' = [AccruedPosition EXCEPT ![user].supplyShares =
                       AccruedPosition[user].supplyShares - paid.shares]
    BY DEF Withdraw, paid
  <2>5. QED BY <2>1, <2>3, <2>4, UpdatedPosition
<1>8. balance' \in Balances /\ calls' \in Seq(Calls)
  <2>1. Pay("loan", receiver, paid.assets) /\ calls' = calls
    BY DEF Withdraw, paid
  <2>2. QED BY <1>2, <2>1, PartTypes, PayTypes
<1>9. growth' = 0 /\ UNCHANGED <<fee, feeRecipient, isAuthorized, price>>
  BY DEF Withdraw
<1>10. QED BY <1>6, <1>7, <1>8, <1>9, InvariantKept

(* So does borrowing, for the same reason.                                  *)
LEMMA BorrowKeeps ==
  ASSUME MorphoInv, NEW sender \in Users, NEW user \in Users, NEW assets \in Nat,
         NEW shares \in Nat, NEW receiver \in Holders,
         Borrow(sender, assets, shares, user, receiver)
  PROVE  MorphoInv'
<1> DEFINE m == AccruedMarket
           paid == PaidOut(assets, shares, m.totalBorrowAssets, m.totalBorrowShares)
<1>1. Fits(m)
  BY DEF Borrow
<1>2. paid.assets \in Nat /\ paid.shares \in Nat
  BY <1>1, AccruedTotals, PaidTypes
<1> HIDE DEF paid
<1>3. market' = [m EXCEPT !.totalBorrowShares = m.totalBorrowShares + paid.shares,
                          !.totalBorrowAssets = m.totalBorrowAssets + paid.assets]
  BY DEF Borrow, paid
<1>4. /\ m.totalBorrowShares + paid.shares \in Int
      /\ m.totalBorrowAssets + paid.assets \in Int
  BY <1>1, <1>2, AccruedTotals
<1>5. market' \in Integral
  <2> HIDE DEF m
  <2>1. m \in Integral
    BY <1>1, AccruedTotals DEF m
  <2>2. QED BY <1>3, <1>4, <2>1 DEF Integral
<1>6. market' \in Totals /\ market'.totalBorrowAssets <= market'.totalSupplyAssets
  BY <1>5, FitsTotals DEF Borrow
<1>7. position' \in [Accounts -> Positions]
  <2>1. AccruedPosition \in [Accounts -> Positions]
    BY <1>1, AccruedTotals
  <2>2. /\ user \in Accounts
        /\ AccruedPosition[user].borrowShares + paid.shares \in Nat
    BY <1>2, <2>1 DEF Accounts, Positions
  <2>3. position' = [AccruedPosition EXCEPT ![user].borrowShares =
                       AccruedPosition[user].borrowShares + paid.shares]
    BY DEF Borrow, paid
  <2>4. QED BY <2>1, <2>2, <2>3, UpdatedPosition
<1>8. balance' \in Balances /\ calls' \in Seq(Calls)
  <2>1. Pay("loan", receiver, paid.assets) /\ calls' = calls
    BY DEF Borrow, paid
  <2>2. QED BY <1>2, <2>1, PartTypes, PayTypes
<1>9. growth' = 0 /\ UNCHANGED <<fee, feeRecipient, isAuthorized, price>>
  BY DEF Borrow
<1>10. QED BY <1>6, <1>7, <1>8, <1>9, InvariantKept

(* What ZeroFloorSub leaves.                                                *)
LEMMA ZeroFloorSubNat ==
  ASSUME NEW x \in Nat, NEW y \in Nat
  PROVE  ZeroFloorSub(x, y) \in Nat /\ ZeroFloorSub(x, y) <= x
BY DEF ZeroFloorSub

(* Repaying only lessens what is borrowed.                                  *)
LEMMA RepayKeeps ==
  ASSUME MorphoInv, NEW sender \in Users, NEW user \in Users, NEW assets \in Nat,
         NEW shares \in Nat, NEW data, Repay(sender, assets, shares, user, data)
  PROVE  MorphoInv'
<1> DEFINE m == AccruedMarket
           paid == PaidIn(assets, shares, m.totalBorrowAssets, m.totalBorrowShares)
           rest == ZeroFloorSub(m.totalBorrowAssets, paid.assets)
<1>1. Fits(m)
  BY DEF Repay
<1>2. paid.assets \in Nat /\ paid.shares \in Nat
  BY <1>1, AccruedTotals, PaidTypes
<1> HIDE DEF paid
<1>3. market' = [m EXCEPT !.totalBorrowShares = m.totalBorrowShares - paid.shares,
                          !.totalBorrowAssets = rest]
  BY DEF Repay, paid
<1>4. /\ m.totalBorrowShares - paid.shares \in Int
      /\ rest \in Int /\ rest <= m.totalSupplyAssets
  <2>1. rest \in Nat /\ rest <= m.totalBorrowAssets
    BY <1>1, <1>2, AccruedTotals, ZeroFloorSubNat
  <2>2. QED BY <1>1, <1>2, <2>1, AccruedTotals
<1>5. market' \in Integral /\ market'.totalBorrowAssets <= market'.totalSupplyAssets
  <2> HIDE DEF m, rest
  <2>1. m \in Integral
    BY <1>1, AccruedTotals DEF m
  <2>2. QED BY <1>3, <1>4, <2>1 DEF Integral
<1>6. market' \in Totals
  BY <1>5, FitsTotals DEF Repay
<1>7. position' \in [Accounts -> Positions]
  <2>1. AccruedPosition \in [Accounts -> Positions] /\ user \in Accounts
    BY <1>1, AccruedTotals DEF Accounts
  <2>2. paid.shares <= AccruedPosition[user].borrowShares
    BY <2>1, AccruedTypes DEF Repay, paid
  <2>3. AccruedPosition[user].borrowShares - paid.shares \in Nat
    BY <1>2, <2>1, <2>2 DEF Positions
  <2>4. position' = [AccruedPosition EXCEPT ![user].borrowShares =
                       AccruedPosition[user].borrowShares - paid.shares]
    BY DEF Repay, paid
  <2>5. QED BY <2>1, <2>3, <2>4, UpdatedPosition
<1>8. balance' \in Balances /\ calls' \in Seq(Calls)
  <2>1. Collect(balance, "loan", sender, paid.assets, data)
    BY DEF Repay, paid
  <2>2. QED BY <1>2, <2>1, PartTypes, CollectTypes
<1>9. growth' = 0 /\ UNCHANGED <<fee, feeRecipient, isAuthorized, price>>
  BY DEF Repay
<1>10. QED BY <1>5, <1>6, <1>7, <1>8, <1>9, InvariantKept

(* Collateral is no part of the totals.                                     *)
LEMMA SupplyCollateralKeeps ==
  ASSUME MorphoInv, NEW sender \in Users, NEW user \in Users, NEW assets \in Nat,
         NEW data, SupplyCollateral(sender, assets, user, data)
  PROVE  MorphoInv'
<1>1. position' \in [Accounts -> Positions]
  <2>1. position \in [Accounts -> Positions] /\ user \in Accounts
    BY PartTypes DEF Accounts
  <2>2. /\ position[user].collateral + assets \in Nat
        /\ position[user].collateral + assets <= MAX_UINT128
    BY <2>1, MorphoAssumption DEF SupplyCollateral, Positions
  <2>3. position' = [position EXCEPT ![user].collateral = position[user].collateral + assets]
    BY DEF SupplyCollateral
  <2>4. QED BY <2>1, <2>2, <2>3, UpdatedPosition
<1>2. balance' \in Balances /\ calls' \in Seq(Calls)
  BY PartTypes, CollectTypes DEF SupplyCollateral
<1>3. UNCHANGED <<market, growth, fee, feeRecipient, isAuthorized, price>>
  BY DEF SupplyCollateral
<1>4. QED BY <1>1, <1>2, <1>3, PartTypes, InvariantKept

(* Withdrawing it accrues interest, which adds to both totals.              *)
LEMMA WithdrawCollateralKeeps ==
  ASSUME MorphoInv, NEW sender \in Users, NEW user \in Users, NEW assets \in Nat,
         NEW receiver \in Holders, WithdrawCollateral(sender, assets, user, receiver)
  PROVE  MorphoInv'
<1>1. Fits(AccruedMarket) /\ market' = AccruedMarket
  BY DEF WithdrawCollateral
<1>2. market' \in Totals /\ market'.totalBorrowAssets <= market'.totalSupplyAssets
  BY <1>1, AccruedTotals
<1>3. position' \in [Accounts -> Positions]
  <2>1. AccruedPosition \in [Accounts -> Positions] /\ user \in Accounts
    BY <1>1, AccruedTotals DEF Accounts
  <2>2. assets <= AccruedPosition[user].collateral
    BY <2>1, AccruedTypes DEF WithdrawCollateral
  <2>3. /\ AccruedPosition[user].collateral - assets \in Nat
        /\ AccruedPosition[user].collateral - assets <= MAX_UINT128
    BY <2>1, <2>2, MorphoAssumption DEF Positions
  <2>4. position' = [AccruedPosition EXCEPT ![user].collateral =
                       AccruedPosition[user].collateral - assets]
    BY DEF WithdrawCollateral
  <2>5. QED BY <2>1, <2>3, <2>4, UpdatedPosition
<1>4. balance' \in Balances /\ calls' \in Seq(Calls)
  BY PartTypes, PayTypes DEF WithdrawCollateral
<1>5. growth' = 0 /\ UNCHANGED <<fee, feeRecipient, isAuthorized, price>>
  BY DEF WithdrawCollateral
<1>6. QED BY <1>2, <1>3, <1>4, <1>5, InvariantKept

(* The incentive is a positive factor.                                      *)
LEMMA IncentivePositive == LiquidationIncentiveFactor \in Nat \ {0}
<1> DEFINE c == (3 * WAD) \div 10
<1>1. /\ WAD \in Nat \ {0} /\ WAD - LLTV \in 0..WAD
      /\ c \in Nat /\ c < WAD
      /\ (115 * WAD) \div 100 \in Nat \ {0}
  BY MorphoAssumption
<1> HIDE DEF c
<1>2. PICK r \in Nat : r = WMulDown(c, WAD - LLTV) /\ r <= c
  BY <1>1, FractionBounded
<1>3. PICK d \in Nat \ {0} : d = WAD - r /\ d <= WAD
  BY <1>1, <1>2
<1>4. WAD * WAD \in Nat /\ WAD * WAD >= WAD
  BY <1>1
<1>5. (WAD * WAD) \div d \in Nat \ {0}
  <2>1. PICK x \in Nat : x = WAD * WAD /\ x >= d
    BY <1>1, <1>3, <1>4
  <2>2. x \div d \in Nat \ {0}
    BY <1>3, <2>1
  <2>3. QED BY <2>1, <2>2
<1>6. WDivDown(WAD, WAD - WMulDown(c, WAD - LLTV)) = (WAD * WAD) \div d
  BY <1>2, <1>3 DEF WDivDown, MulDivDown
<1>7. QED BY <1>1, <1>5, <1>6 DEF LiquidationIncentiveFactor, Least, c

(* What a liquidation seizes or has repaid is natural.                      *)
LEMMA SeizedTypes ==
  ASSUME MorphoInv, NEW m \in Integral, NEW n \in Nat,
         m.totalBorrowAssets \in Nat, m.totalBorrowShares \in Nat
  PROVE  Seized(n, m) \in Nat /\ RepaidShares(n, m) \in Nat
<1>1. /\ price \in Nat \ {0} /\ ORACLE_PRICE_SCALE \in Nat \ {0} /\ WAD \in Nat \ {0}
      /\ LiquidationIncentiveFactor \in Nat \ {0}
  BY PartTypes, IncentivePositive, MorphoAssumption
<1>2. Seized(n, m) \in Nat
  <2>1. ToAssetsDown(n, m.totalBorrowAssets, m.totalBorrowShares) \in Nat
    BY ConversionNat
  <2>2. WMulDown(ToAssetsDown(n, m.totalBorrowAssets, m.totalBorrowShares),
                 LiquidationIncentiveFactor) \in Nat
    BY <1>1, <2>1, MulDivNat DEF WMulDown
  <2>3. QED BY <1>1, <2>2, MulDivNat DEF Seized
<1>3. RepaidShares(n, m) \in Nat
  <2>1. MulDivUp(n, price, ORACLE_PRICE_SCALE) \in Nat
    BY <1>1, MulDivNat
  <2>2. WDivUp(MulDivUp(n, price, ORACLE_PRICE_SCALE), LiquidationIncentiveFactor) \in Nat
    BY <1>1, <2>1, MulDivNat DEF WDivUp
  <2>3. QED BY <2>2, ConversionNat DEF RepaidShares
<1>4. QED BY <1>2, <1>3

(* The suppliers lose exactly what is no longer borrowed.                   *)
LEMMA WrittenOffTypes ==
  ASSUME NEW pos \in [Accounts -> Positions], NEW m \in Integral, NEW borrower \in Accounts,
         m.totalSupplyAssets \in Int, m.totalBorrowAssets \in Nat,
         m.totalBorrowShares \in Nat, m.totalBorrowAssets <= m.totalSupplyAssets
  PROVE  LET result == WrittenOff(pos, m, borrower) IN
         /\ result.position \in [Accounts -> Positions]
         /\ result.market \in Integral
         /\ result.market.totalBorrowAssets <= result.market.totalSupplyAssets
<1> DEFINE shares == pos[borrower].borrowShares
           assets == Least(m.totalBorrowAssets,
                           ToAssetsUp(shares, m.totalBorrowAssets, m.totalBorrowShares))
<1>1. shares \in Nat
  BY DEF Positions
<1>2. assets \in Nat
  BY <1>1, ConversionNat DEF Least
<1>3. CASE pos[borrower].collateral = 0
  <2> DEFINE written == [m EXCEPT !.totalBorrowAssets = m.totalBorrowAssets - assets,
                                  !.totalSupplyAssets = m.totalSupplyAssets - assets,
                                  !.totalBorrowShares = m.totalBorrowShares - shares]
  <2>1. WrittenOff(pos, m, borrower)
          = [position |-> [pos EXCEPT ![borrower].borrowShares = 0], market |-> written]
    BY <1>3 DEF WrittenOff
  <2>2. [pos EXCEPT ![borrower].borrowShares = 0] \in [Accounts -> Positions]
    BY UpdatedPosition
  <2>3. /\ m.totalBorrowAssets - assets \in Int /\ m.totalSupplyAssets - assets \in Int
        /\ m.totalBorrowShares - shares \in Int
        /\ m.totalBorrowAssets - assets <= m.totalSupplyAssets - assets
    BY <1>1, <1>2
  <2>4. /\ written \in Integral
        /\ written.totalBorrowAssets = m.totalBorrowAssets - assets
        /\ written.totalSupplyAssets = m.totalSupplyAssets - assets
    <3> DEFINE x == m.totalBorrowAssets - assets
               y == m.totalSupplyAssets - assets
               z == m.totalBorrowShares - shares
    <3>1. /\ written = [m EXCEPT !.totalBorrowAssets = x, !.totalSupplyAssets = y,
                                 !.totalBorrowShares = z]
          /\ x \in Int /\ y \in Int /\ z \in Int
      BY <2>3
    <3> HIDE DEF written, x, y, z
    <3>2. /\ written \in Integral
          /\ written.totalBorrowAssets = x /\ written.totalSupplyAssets = y
      BY <3>1 DEF Integral
    <3>3. QED BY <3>2 DEF x, y
  <2> HIDE DEF written
  <2>5. QED BY <2>1, <2>2, <2>3, <2>4
<1>4. CASE pos[borrower].collateral # 0
  <2>1. WrittenOff(pos, m, borrower) = [position |-> pos, market |-> m]
    BY <1>4 DEF WrittenOff
  <2>2. QED BY <2>1
<1>5. QED BY <1>3, <1>4

(* A liquidation repays, then takes the bad debt from both totals.          *)
LEMMA LiquidateKeeps ==
  ASSUME MorphoInv, NEW sender \in Users, NEW borrower \in Users, NEW seizedAssets \in Nat,
         NEW repaidShares \in Nat, NEW data,
         Liquidate(sender, borrower, seizedAssets, repaidShares, data)
  PROVE  MorphoInv'
<1> DEFINE m == AccruedMarket
           seized == IF seizedAssets > 0 THEN seizedAssets ELSE Seized(repaidShares, m)
           repaid == IF seizedAssets > 0 THEN RepaidShares(seizedAssets, m) ELSE repaidShares
           repaidAssets == ToAssetsUp(repaid, m.totalBorrowAssets, m.totalBorrowShares)
           pos == [AccruedPosition EXCEPT
                     ![borrower].borrowShares = AccruedPosition[borrower].borrowShares - repaid,
                     ![borrower].collateral = AccruedPosition[borrower].collateral - seized]
           left == ZeroFloorSub(m.totalBorrowAssets, repaidAssets)
           rest == [m EXCEPT !.totalBorrowShares = m.totalBorrowShares - repaid,
                             !.totalBorrowAssets = left]
           result == WrittenOff(pos, rest, borrower)
<1>1. /\ Fits(m) /\ Fits(rest)
      /\ repaid <= position[borrower].borrowShares
      /\ seized <= position[borrower].collateral
      /\ position' = result.position /\ market' = result.market /\ Fits(market')
      /\ balance["collateral"][MorphoAddress] >= seized
      /\ Collect(Transferred(balance, "collateral", MorphoAddress, sender, seized),
                 "loan", sender, repaidAssets, data)
      /\ growth' = 0 /\ UNCHANGED <<fee, feeRecipient, isAuthorized, price>>
  BY DEF Liquidate
<1>2. /\ m \in Integral
      /\ m.totalSupplyAssets \in Nat /\ m.totalBorrowAssets \in Nat /\ m.totalBorrowShares \in Nat
      /\ m.totalBorrowAssets <= m.totalSupplyAssets
      /\ AccruedPosition \in [Accounts -> Positions] /\ borrower \in Accounts
  BY <1>1, AccruedTotals DEF Accounts
<1>3. AccruedPosition[borrower].borrowShares = position[borrower].borrowShares /\
      AccruedPosition[borrower].collateral = position[borrower].collateral
  BY <1>2, AccruedTypes
<1> HIDE DEF m
<1>4. seized \in Nat /\ repaid \in Nat
  BY <1>2, SeizedTypes
<1>5. repaidAssets \in Nat
  BY <1>2, <1>4, ConversionNat
<1> HIDE DEF seized, repaid, repaidAssets
<1>6. left \in Nat /\ left <= m.totalSupplyAssets
  <2>1. left \in Nat /\ left <= m.totalBorrowAssets
    BY <1>2, <1>5, ZeroFloorSubNat
  <2> HIDE DEF left
  <2>2. QED BY <1>2, <2>1
<1> HIDE DEF left
<1>7. /\ rest \in Integral
      /\ rest.totalBorrowAssets = left /\ rest.totalSupplyAssets = m.totalSupplyAssets
  <2>1. m.totalBorrowShares - repaid \in Int /\ left \in Int
    BY <1>2, <1>4, <1>6
  <2> DEFINE x == m.totalBorrowShares - repaid
  <2>2. /\ rest = [m EXCEPT !.totalBorrowShares = x, !.totalBorrowAssets = left]
        /\ m \in Integral /\ x \in Int /\ left \in Int
    BY <1>2, <2>1
  <2> HIDE DEF rest, x
  <2>3. QED BY <2>2 DEF Integral
<1> HIDE DEF rest
<1>8. rest.totalBorrowShares \in Nat
  <2>1. rest \in Totals
    BY <1>1, <1>7, FitsTotals
  <2>2. QED BY <2>1, MorphoAssumption DEF Totals
<1>9. pos \in [Accounts -> Positions]
  <2>1. /\ AccruedPosition[borrower].borrowShares - repaid \in Nat
        /\ AccruedPosition[borrower].collateral - seized \in Nat
        /\ AccruedPosition[borrower].collateral - seized <= MAX_UINT128
    BY <1>1, <1>2, <1>3, <1>4, MorphoAssumption DEF Positions
  <2>2. [AccruedPosition EXCEPT ![borrower].borrowShares =
           AccruedPosition[borrower].borrowShares - repaid] \in [Accounts -> Positions]
    BY <1>2, <2>1, UpdatedPosition
  <2>3. QED BY <1>2, <2>1, <2>2, UpdatedPosition, Zenon
<1> HIDE DEF pos
<1>10. /\ position' \in [Accounts -> Positions] /\ market' \in Totals
       /\ market'.totalBorrowAssets <= market'.totalSupplyAssets
  <2>1. /\ rest.totalSupplyAssets \in Int /\ rest.totalBorrowAssets \in Nat
        /\ rest.totalBorrowAssets <= rest.totalSupplyAssets
    BY <1>2, <1>6, <1>7
  <2>2. /\ result.position \in [Accounts -> Positions] /\ result.market \in Integral
        /\ result.market.totalBorrowAssets <= result.market.totalSupplyAssets
    BY <1>2, <1>7, <1>8, <1>9, <2>1, WrittenOffTypes
  <2> HIDE DEF result
  <2>3. QED BY <1>1, <2>2, FitsTotals
<1>11. balance' \in Balances /\ calls' \in Seq(Calls)
  <2>1. Transferred(balance, "collateral", MorphoAddress, sender, seized) \in Balances
    BY <1>1, <1>4, PartTypes, TransferredTypes DEF Holders
  <2>2. QED BY <1>1, <1>5, <2>1, PartTypes, CollectTypes
<1>12. QED BY <1>1, <1>10, <1>11, InvariantKept

(* A flash loan moves tokens only.                                          *)
LEMMA FlashLoanKeeps ==
  ASSUME MorphoInv, NEW sender \in Users, NEW token \in {"loan", "collateral"},
         NEW assets \in Nat, FlashLoan(sender, token, assets)
  PROVE  MorphoInv'
<1>1. Transferred(balance, token, MorphoAddress, sender, assets) \in Balances
  BY PartTypes, TransferredTypes DEF FlashLoan, Holders
<1>2. balance' \in Balances /\ calls' \in Seq(Calls)
  BY <1>1, PartTypes, CollectTypes DEF FlashLoan
<1>3. UNCHANGED <<position, market, growth, fee, feeRecipient, isAuthorized, price>>
  BY DEF FlashLoan
<1>4. QED BY <1>2, <1>3, PartTypes, InvariantKept

(* So does the end of a callback.                                           *)
LEMMA EndCallbackKeeps ==
  ASSUME MorphoInv, EndCallback
  PROVE  MorphoInv'
<1>1. calls \in Seq(Calls) /\ calls # <<>> /\ balance \in Balances
  BY PartTypes DEF EndCallback
<1> DEFINE call == calls[Len(calls)]
<1>2. call \in Calls
  BY <1>1
<1>3. Front(calls) \in Seq(Calls)
  <2>1. Len(calls) - 1 <= Len(calls) /\ Len(calls) - 1 \in Nat
    BY <1>1
  <2>2. QED BY <1>1, <2>1 DEF Front
<1>4. /\ balance[call.token][call.sender] >= call.amount
      /\ balance' = Transferred(balance, call.token, call.sender, MorphoAddress, call.amount)
      /\ calls' = Front(calls)
      /\ UNCHANGED <<position, market, fee, feeRecipient, isAuthorized, growth, price>>
  BY DEF EndCallback, Last
<1>5. balance' \in Balances
  BY <1>1, <1>2, <1>4, TransferredTypes DEF Calls, Holders
<1>6. QED BY <1>3, <1>4, <1>5, PartTypes, InvariantKept

(* Accrual, with or without a new fee.                                      *)
LEMMA AccrualKeeps ==
  ASSUME MorphoInv, Fits(AccruedMarket), position' = AccruedPosition,
         market' = AccruedMarket, growth' = 0, fee' \in Fees \cup {0},
         UNCHANGED <<feeRecipient, isAuthorized, price, balance, calls>>
  PROVE  MorphoInv'
<1>1. /\ AccruedMarket \in Totals /\ AccruedPosition \in [Accounts -> Positions]
      /\ AccruedMarket.totalBorrowAssets <= AccruedMarket.totalSupplyAssets
  BY AccruedTotals
<1>2. QED BY <1>1 DEF MorphoInv, TypeOK, BorrowWithinSupply

-----------------------------------------------------------------------------
(* The specification.                                                       *)

(* The empty market satisfies the invariant.                                *)
LEMMA InitMorphoInv == Init => MorphoInv
<1> SUFFICES ASSUME Init PROVE MorphoInv
  OBVIOUS
<1>1. position \in [Accounts -> Positions]
  BY MorphoAssumption DEF Init, Positions
<1>2. market \in Totals /\ market.totalBorrowAssets <= market.totalSupplyAssets
  BY MorphoAssumption DEF Init, Totals
<1>3. /\ fee \in Fees \cup {0} /\ feeRecipient \in Accounts /\ isAuthorized \subseteq Users \X Users
      /\ growth \in Growths \cup {0} /\ price \in Prices /\ calls \in Seq(Calls)
  BY DEF Init, Accounts
<1>4. balance \in [{"loan", "collateral"} -> [Holders -> Nat]]
  <2> DEFINE loan == [h \in Holders |-> IF h \in Users THEN InitialLoan[h] ELSE OtherMarkets]
             collateral == [h \in Holders |-> IF h \in Users THEN InitialCollateral[h] ELSE 0]
  <2>1. loan \in [Holders -> Nat] /\ collateral \in [Holders -> Nat]
    BY MorphoAssumption
  <2>2. balance = [loan |-> loan, collateral |-> collateral]
    BY DEF Init
  <2> HIDE DEF loan, collateral
  <2>3. QED BY <2>1, <2>2
<1>5. QED BY <1>1, <1>2, <1>3, <1>4 DEF MorphoInv, TypeOK, BorrowWithinSupply

(* Every step keeps it.                                                     *)
LEMMA NextMorphoInv == MorphoInv /\ [Next]_vars => MorphoInv'
<1> SUFFICES ASSUME MorphoInv, [Next]_vars PROVE MorphoInv'
  OBVIOUS
<1>1. CASE CallMarket
  <2>1. PICK sender \in Users, user \in Users, assets \in 0..MaxAssets :
          \/ \E shares \in 0..MaxShares :
               \/ \E data \in Data :
                    \/ Supply(sender, assets, shares, user, data)
                    \/ Repay(sender, assets, shares, user, data)
                    \/ Liquidate(sender, user, assets, shares, data)
               \/ \E receiver \in Holders :
                    \/ Withdraw(sender, assets, shares, user, receiver)
                    \/ Borrow(sender, assets, shares, user, receiver)
          \/ \E data \in Data : SupplyCollateral(sender, assets, user, data)
          \/ \E receiver \in Holders : WithdrawCollateral(sender, assets, user, receiver)
    BY <1>1, MorphoAssumption DEF CallMarket
  <2>2. assets \in Nat
    BY MorphoAssumption
  <2>3. ASSUME NEW shares \in 0..MaxShares, NEW data \in Data,
               \/ Supply(sender, assets, shares, user, data)
               \/ Repay(sender, assets, shares, user, data)
               \/ Liquidate(sender, user, assets, shares, data)
        PROVE  MorphoInv'
    <3>1. shares \in Nat
      BY MorphoAssumption
    <3>2. QED BY <2>2, <2>3, <3>1, SupplyKeeps, RepayKeeps, LiquidateKeeps
  <2>4. ASSUME NEW shares \in 0..MaxShares, NEW receiver \in Holders,
               \/ Withdraw(sender, assets, shares, user, receiver)
               \/ Borrow(sender, assets, shares, user, receiver)
        PROVE  MorphoInv'
    <3>1. shares \in Nat
      BY MorphoAssumption
    <3>2. QED BY <2>2, <2>4, <3>1, WithdrawKeeps, BorrowKeeps
  <2>5. ASSUME NEW data \in Data, SupplyCollateral(sender, assets, user, data)
        PROVE  MorphoInv'
    BY <2>2, <2>5, SupplyCollateralKeeps
  <2>6. ASSUME NEW receiver \in Holders,
               WithdrawCollateral(sender, assets, user, receiver)
        PROVE  MorphoInv'
    BY <2>2, <2>6, WithdrawCollateralKeeps
  <2>7. QED BY <2>1, <2>3, <2>4, <2>5, <2>6
<1>2. ASSUME NEW sender \in Users, NEW token \in {"loan", "collateral"},
             NEW assets \in 1..MaxAssets, FlashLoan(sender, token, assets)
      PROVE  MorphoInv'
  <2>1. assets \in Nat
    BY MorphoAssumption
  <2>2. QED BY <1>2, <2>1, FlashLoanKeeps
<1>3. ASSUME NEW grant \in Grants, SetAuthorization(grant[1], grant[2])
      PROVE  MorphoInv'
  <2>1. grant[1] \in Users /\ grant[2] \in Users
    BY MorphoAssumption
  <2>2. isAuthorized' \subseteq Users \X Users
    BY <1>3, <2>1 DEF SetAuthorization, MorphoInv, TypeOK
  <2>3. UNCHANGED <<position, market, fee, feeRecipient, growth, price, balance, calls>>
    BY <1>3 DEF SetAuthorization
  <2>4. QED BY <2>2, <2>3 DEF MorphoInv, TypeOK, BorrowWithinSupply
<1>4. CASE AccrueInterest
  <2>1. fee' \in Fees \cup {0}
    BY <1>4 DEF AccrueInterest, MorphoInv, TypeOK
  <2>2. QED BY <1>4, <2>1, AccrualKeeps DEF AccrueInterest
<1>5. ASSUME NEW newFee \in Fees, SetFee(newFee)
      PROVE  MorphoInv'
  BY <1>5, AccrualKeeps DEF SetFee
<1>6. ASSUME NEW newFeeRecipient \in FeeRecipients, SetFeeRecipient(newFeeRecipient)
      PROVE  MorphoInv'
  <2>1. newFeeRecipient \in Accounts
    BY MorphoAssumption DEF Accounts
  <2>2. QED BY <1>6, <2>1 DEF SetFeeRecipient, MorphoInv, TypeOK, BorrowWithinSupply
<1>7. CASE EndCallback
  BY <1>7, EndCallbackKeeps
<1>8. CASE CallOther
  BY <1>2, <1>3, <1>4, <1>5, <1>6, <1>7, <1>8 DEF CallOther
<1>9. CASE Environment
  <2>1. ASSUME NEW g \in Growths, TimePasses(g) PROVE MorphoInv'
    BY <2>1 DEF TimePasses, MorphoInv, TypeOK, BorrowWithinSupply
  <2>2. ASSUME NEW p \in Prices, SetPrice(p) PROVE MorphoInv'
    BY <2>2 DEF SetPrice, MorphoInv, TypeOK, BorrowWithinSupply
  <2>3. QED BY <1>9, <2>1, <2>2 DEF Environment
<1>10. CASE UNCHANGED vars
  BY <1>10 DEF vars, MorphoInv, TypeOK, BorrowWithinSupply
<1>11. QED BY <1>1, <1>8, <1>9, <1>10 DEF Next

(* The parts have their types: no total leaves its width, no balance and no *)
(* position falls below zero, within callbacks too.                         *)
THEOREM TypeCorrect == Spec => []TypeOK
<1>1. Spec => []MorphoInv
  BY InitMorphoInv, NextMorphoInv, PTL DEF Spec
<1>2. MorphoInv => TypeOK
  BY DEF MorphoInv
<1>3. QED BY <1>1, <1>2, PTL

(* The market never lends more than was supplied to it: interest adds to    *)
(* both totals, bad debt is taken from both, and every operation that lends *)
(* or withdraws compares them.                                              *)
THEOREM LentWithinSupply == Spec => []BorrowWithinSupply
<1>1. Spec => []MorphoInv
  BY InitMorphoInv, NextMorphoInv, PTL DEF Spec
<1>2. MorphoInv => BorrowWithinSupply
  BY DEF MorphoInv
<1>3. QED BY <1>1, <1>2, PTL

-----------------------------------------------------------------------------
(* Products, quotients and ratios of natural numbers.                       *)

(* Products keep the order of their factors.                                *)
LEMMA ProductOrder ==
  ASSUME NEW x \in Nat, NEW y \in Nat, NEW z \in Nat, x <= y
  PROVE  x * z <= y * z
<1>1. PICK d \in Nat : y = x + d
  <2>1. y - x \in Nat /\ y = x + (y - x)
    OBVIOUS
  <2>2. QED BY <2>1
<1>2. y * z = x * z + d * z
  BY <1>1
<1>3. d * z \in Nat /\ x * z \in Nat
  BY <1>1
<1>4. QED BY <1>2, <1>3

(* A positive factor can be cancelled.                                      *)
LEMMA ProductCancel ==
  ASSUME NEW x \in Nat, NEW y \in Nat, NEW z \in Nat \ {0}, x * z <= y * z
  PROVE  x <= y
<1>1. SUFFICES ASSUME x > y PROVE FALSE
  OBVIOUS
<1>2. PICK d \in Nat : x = y + 1 + d
  <2>1. x - y - 1 \in Nat /\ x = y + 1 + (x - y - 1)
    BY <1>1
  <2>2. QED BY <2>1
<1>3. x * z = y * z + z + d * z
  BY <1>2
<1>4. d * z \in Nat /\ y * z \in Nat
  BY <1>2
<1>5. QED BY <1>3, <1>4

(* Rounding down gives the greatest whole quotient that is not too large.   *)
LEMMA RoundedDown ==
  ASSUME NEW n \in Nat, NEW d \in Nat \ {0}
  PROVE  /\ n \div d \in Nat
         /\ (n \div d) * d <= n
         /\ \A k \in Nat : k * d <= n => k <= n \div d
<1>1. PICK q \in Nat : q = n \div d
  OBVIOUS
<1>2. q * d <= n /\ n < q * d + d
  BY <1>1
<1>3. ASSUME NEW k \in Nat, k * d <= n PROVE k <= q
  <2>1. q * d + d = (q + 1) * d /\ k * d \in Nat /\ (q + 1) * d \in Nat
    OBVIOUS
  <2>2. SUFFICES ASSUME q + 1 <= k PROVE FALSE
    OBVIOUS
  <2>3. (q + 1) * d <= k * d
    BY <2>2, ProductOrder
  <2>4. QED BY <1>2, <1>3, <2>1, <2>3
<1>4. QED BY <1>1, <1>2, <1>3

(* Rounding up gives the least whole quotient that is not too small.        *)
LEMMA RoundedUp ==
  ASSUME NEW n \in Nat, NEW d \in Nat \ {0}
  PROVE  /\ (n + (d - 1)) \div d \in Nat
         /\ n <= ((n + (d - 1)) \div d) * d
         /\ \A k \in Nat : n <= k * d => (n + (d - 1)) \div d <= k
<1>1. n + (d - 1) \in Nat
  OBVIOUS
<1>2. PICK q \in Nat : q = (n + (d - 1)) \div d
  BY <1>1
<1>3. q * d <= n + (d - 1) /\ n + (d - 1) < q * d + d
  BY <1>1, <1>2
<1>4. n <= q * d
  <2>1. q * d \in Nat
    OBVIOUS
  <2>2. QED BY <1>3, <2>1
<1>5. ASSUME NEW k \in Nat, n <= k * d PROVE q <= k
  <2>1. SUFFICES ASSUME k + 1 <= q PROVE FALSE
    OBVIOUS
  <2>2. (k + 1) * d <= q * d
    BY <2>1, ProductOrder
  <2>3. (k + 1) * d = k * d + d /\ k * d \in Nat /\ q * d \in Nat
    OBVIOUS
  <2>4. QED BY <1>3, <1>5, <2>2, <2>3
<1>6. QED BY <1>2, <1>4, <1>5

(* a assets for s shares, compared with b for t.                            *)
NotBelow(b, t, a, s) == b * s >= a * t

(* Prices compare like numbers.                                             *)
LEMMA NotBelowTransitive ==
  ASSUME NEW a \in Nat, NEW s \in Nat, NEW b \in Nat, NEW t \in Nat \ {0},
         NEW c \in Nat, NEW u \in Nat,
         NotBelow(b, t, a, s), NotBelow(c, u, b, t)
  PROVE  NotBelow(c, u, a, s)
<1>1. b * s >= a * t /\ c * t >= b * u
  BY DEF NotBelow
<1>2. /\ a * t \in Nat /\ b * s \in Nat /\ c * t \in Nat /\ b * u \in Nat
      /\ a * u \in Nat /\ c * s \in Nat
  OBVIOUS
<1>3. (a * t) * u <= (b * s) * u
  BY <1>1, <1>2, ProductOrder
<1>4. (b * u) * s <= (c * t) * s
  BY <1>1, <1>2, ProductOrder
<1>5. (a * t) * u = (a * u) * t /\ (b * s) * u = (b * u) * s /\ (c * t) * s = (c * s) * t
  OBVIOUS
<1>6. (a * u) * t \in Nat /\ (b * u) * s \in Nat /\ (c * s) * t \in Nat
  BY <1>2
<1>7. (a * u) * t <= (c * s) * t
  BY <1>3, <1>4, <1>5, <1>6
<1>8. a * u <= c * s
  BY <1>2, <1>7, ProductCancel
<1>9. QED BY <1>2, <1>8 DEF NotBelow

-----------------------------------------------------------------------------
(* Sums over the positions.                                                 *)

Total(pos, field) == SumFunctionOnSet([u \in Accounts |-> pos[u][field]], Accounts)

Fields == {"supplyShares", "borrowShares", "collateral"}

(* One account's fields differ by these amounts.                            *)
Shifted(pos, after, u, field, n) ==
  \A v \in Accounts : /\ pos[v][field] \in Int
                      /\ after[v][field] = IF v = u THEN pos[v][field] + n ELSE pos[v][field]

(* There are finitely many accounts.                                        *)
LEMMA AccountsFinite == IsFiniteSet(Accounts)
BY MorphoAssumption, FS_AddElement DEF Accounts

(* Then the total does too.                                                 *)
LEMMA TotalShift ==
  ASSUME NEW pos, NEW after, NEW u \in Accounts, NEW field, NEW n,
         n \in Int, Shifted(pos, after, u, field, n)
  PROVE  Total(after, field) = Total(pos, field) + n
<1> DEFINE f == [v \in Accounts |-> pos[v][field]]
           g == [v \in Accounts |-> after[v][field]]
<1>1. \A v \in Accounts : /\ f[v] \in Int
                          /\ g[v] = IF v = u THEN f[v] + n ELSE f[v]
  BY DEF Shifted
<1> HIDE DEF f, g
<1>2. SumFunctionOnSet(g, Accounts) = SumFunctionOnSet(f, Accounts) + n
  BY <1>1, AccountsFinite, SumShift
<1>3. QED BY <1>2 DEF Total, f, g

(* The totals of integral positions are integers.                           *)
LEMMA TotalNat ==
  ASSUME NEW pos \in [Accounts -> Positions], NEW field \in Fields
  PROVE  /\ Total(pos, field) \in Nat
         /\ \A u \in Accounts : pos[u][field] \in Nat /\ pos[u][field] <= Total(pos, field)
<1> DEFINE f == [v \in Accounts |-> pos[v][field]]
<1>1. \A v \in Accounts : f[v] \in Nat
  BY MorphoAssumption DEF Positions, Fields
<1>2. SumFunctionOnSet(f, Accounts) \in Nat
  BY <1>1, AccountsFinite, SumNat
<1>3. \A v \in Accounts : f[v] <= SumFunctionOnSet(f, Accounts)
  BY <1>1, AccountsFinite, SumTerm
<1>4. QED BY <1>1, <1>2, <1>3 DEF Total

-----------------------------------------------------------------------------
(* What the contract holds of a token once the open callbacks have paid.    *)

OwedBy(call, token) == IF call.token = token THEN call.amount ELSE 0

OwedIn(cs, token) == SumFunctionOnSet([i \in DOMAIN cs |-> OwedBy(cs[i], token)], DOMAIN cs)

HeldIn(balances, cs, token) == balances[token][MorphoAddress] + OwedIn(cs, token)

(* A callback owes a natural number.                                        *)
LEMMA OwedByNat ==
  ASSUME NEW call \in Calls, NEW token
  PROVE  OwedBy(call, token) \in Nat
<1>1. call.amount \in Nat /\ 0 \in Nat
  BY DEF Calls
<1>2. QED BY <1>1, Zenon DEF OwedBy

(* What is owed is a natural number.                                        *)
LEMMA OwedNat ==
  ASSUME NEW cs \in Seq(Calls), NEW token
  PROVE  OwedIn(cs, token) \in Nat
<1> DEFINE f == [i \in DOMAIN cs |-> OwedBy(cs[i], token)]
<1>1. \A i \in DOMAIN cs : f[i] \in Nat
  BY OwedByNat
<1>2. IsFiniteSet(DOMAIN cs)
  BY FS_Interval
<1>3. SumFunctionOnSet(f, DOMAIN cs) \in Nat
  BY <1>1, <1>2, SumNat
<1>4. QED BY <1>3 DEF OwedIn

(* A new callback owes its amount.                                          *)
LEMMA OwedAppend ==
  ASSUME NEW cs \in Seq(Calls), NEW call \in Calls, NEW token
  PROVE  OwedIn(Append(cs, call), token) = OwedIn(cs, token) + OwedBy(call, token)
<1> DEFINE n == Len(cs)
           f == [i \in 1..n |-> OwedBy(cs[i], token)]
           g == [i \in 1..(n + 1) |-> OwedBy(Append(cs, call)[i], token)]
<1>1. n \in Nat /\ DOMAIN cs = 1..n /\ DOMAIN Append(cs, call) = 1..(n + 1)
  OBVIOUS
<1>2. OwedIn(cs, token) = SumFunctionOnSet(f, 1..n) /\
      OwedIn(Append(cs, call), token) = SumFunctionOnSet(g, 1..(n + 1))
  BY <1>1 DEF OwedIn
<1>3. OwedBy(call, token) \in Nat /\ \A i \in 1..n : OwedBy(cs[i], token) \in Nat
  <2>1. OwedBy(call, token) \in Nat
    BY OwedByNat
  <2>2. \A i \in 1..n : OwedBy(cs[i], token) \in Nat
    BY <1>1, OwedByNat
  <2>3. QED BY <2>1, <2>2
<1>4. /\ g[n + 1] = OwedBy(call, token)
      /\ \A i \in 1..n : g[i] = f[i] /\ f[i] \in Nat
  BY <1>1, <1>3
<1>5. (1..(n + 1)) \ {n + 1} = 1..n /\ n + 1 \in 1..(n + 1)
  BY <1>1
<1>6. IsFiniteSet(1..n) /\ IsFiniteSet(1..(n + 1))
  BY <1>1, FS_Interval
<1> HIDE DEF f, g, n
<1>7. \A i \in 1..(n + 1) : g[i] \in Int
  BY <1>1, <1>3, <1>4
<1>8. SumFunctionOnSet(g, 1..(n + 1)) = g[n + 1] + SumFunctionOnSet(g, 1..n)
  <2> DEFINE S == 1..(n + 1)
  <2>1. n + 1 \in S /\ IsFiniteSet(S) /\ S \ {n + 1} = 1..n /\ \A i \in S : g[i] \in Int
    BY <1>5, <1>6, <1>7
  <2> HIDE DEF S
  <2>2. SumFunctionOnSet(g, S) = g[n + 1] + SumFunctionOnSet(g, S \ {n + 1})
    BY <2>1, SumRemove
  <2>3. QED BY <2>1, <2>2 DEF S
<1>9. SumFunctionOnSet(g, 1..n) = SumFunctionOnSet(f, 1..n)
  BY <1>4, <1>6, SumSame
<1>10. SumFunctionOnSet(f, 1..n) \in Nat
  BY <1>4, <1>6, SumNat
<1>11. QED BY <1>2, <1>3, <1>4, <1>8, <1>9, <1>10

(* A transfer to the contract.                                              *)
LEMMA TransferredTo ==
  ASSUME NEW balances \in Balances, NEW token \in {"loan", "collateral"},
         NEW from \in Holders, from # MorphoAddress, NEW amount \in Nat,
         NEW tok \in {"loan", "collateral"}
  PROVE  Transferred(balances, token, from, MorphoAddress, amount)[tok][MorphoAddress]
           = balances[tok][MorphoAddress] + (IF tok = token THEN amount ELSE 0)
<1> DEFINE b == [balances EXCEPT ![token][from] = @ - amount]
           c == [b EXCEPT ![token][MorphoAddress] = b[token][MorphoAddress] + amount]
<1>1. MorphoAddress \in Holders
  BY DEF Holders
<1>2. balances[tok] \in [Holders -> Nat]
  BY DEF Balances
<1>3. b[tok][MorphoAddress] = balances[tok][MorphoAddress] /\ b[tok][MorphoAddress] \in Nat
  BY <1>1, <1>2 DEF Balances
<1>4. DOMAIN b = {"loan", "collateral"} /\ DOMAIN b[token] = Holders
  BY DEF Balances
<1>5. Transferred(balances, token, from, MorphoAddress, amount) = c
  BY DEF Transferred
<1> HIDE DEF b
<1>6. c[tok][MorphoAddress] = b[tok][MorphoAddress] + (IF tok = token THEN amount ELSE 0)
  <2>1. CASE tok = token
    BY <1>1, <1>3, <1>4, <2>1
  <2>2. CASE tok # token
    BY <1>1, <1>3, <1>4, <2>2
  <2>3. QED BY <2>1, <2>2
<1>7. QED BY <1>3, <1>5, <1>6

(* A transfer from the contract.                                            *)
LEMMA TransferredFrom ==
  ASSUME NEW balances \in Balances, NEW token \in {"loan", "collateral"},
         NEW to \in Holders, to # MorphoAddress, NEW amount \in Nat,
         NEW tok \in {"loan", "collateral"}
  PROVE  Transferred(balances, token, MorphoAddress, to, amount)[tok][MorphoAddress]
           = balances[tok][MorphoAddress] - (IF tok = token THEN amount ELSE 0)
<1> DEFINE b == [balances EXCEPT ![token][MorphoAddress] = @ - amount]
           c == [b EXCEPT ![token][to] = b[token][to] + amount]
<1>1. MorphoAddress \in Holders
  BY DEF Holders
<1>2. balances[tok] \in [Holders -> Nat]
  BY DEF Balances
<1>3. b[tok][MorphoAddress]
        = balances[tok][MorphoAddress] - (IF tok = token THEN amount ELSE 0)
  <2>1. CASE tok = token
    BY <1>1, <1>2, <2>1 DEF Balances
  <2>2. CASE tok # token
    BY <1>1, <1>2, <2>2 DEF Balances
  <2>3. QED BY <2>1, <2>2
<1>4. DOMAIN b = {"loan", "collateral"} /\ DOMAIN b[token] = Holders
  BY DEF Balances
<1>5. Transferred(balances, token, MorphoAddress, to, amount) = c
  BY DEF Transferred
<1> HIDE DEF b
<1>6. c[tok][MorphoAddress] = b[tok][MorphoAddress]
  <2>1. CASE tok = token
    BY <1>1, <1>4, <2>1
  <2>2. CASE tok # token
    BY <1>1, <1>4, <2>2
  <2>3. QED BY <2>1, <2>2
<1>7. QED BY <1>3, <1>5, <1>6

(* A transfer of the contract to itself.                                    *)
LEMMA TransferredToItself ==
  ASSUME NEW balances \in Balances, NEW token \in {"loan", "collateral"}, NEW amount \in Nat,
         NEW tok \in {"loan", "collateral"}
  PROVE  Transferred(balances, token, MorphoAddress, MorphoAddress, amount)[tok][MorphoAddress]
           = balances[tok][MorphoAddress]
<1> DEFINE less == balances[token][MorphoAddress] - amount
           b == [balances EXCEPT ![token][MorphoAddress] = less]
           c == [b EXCEPT ![token][MorphoAddress] = b[token][MorphoAddress] + amount]
<1>1. MorphoAddress \in Holders /\ DOMAIN balances = {"loan", "collateral"}
      /\ DOMAIN balances[token] = Holders /\ balances[token][MorphoAddress] \in Nat
  BY DEF Balances, Holders
<1>2. less \in Int /\ less + amount = balances[token][MorphoAddress]
  BY <1>1
<1>3. Transferred(balances, token, MorphoAddress, MorphoAddress, amount) = c
  BY DEF Transferred
<1> HIDE DEF less
<1>4. /\ b[token][MorphoAddress] = less
      /\ DOMAIN b = {"loan", "collateral"} /\ DOMAIN b[token] = Holders
      /\ tok # token => b[tok] = balances[tok]
  BY <1>1
<1> HIDE DEF b
<1>5. CASE tok = token
  <2>1. c[tok][MorphoAddress] = b[token][MorphoAddress] + amount
    BY <1>1, <1>4, <1>5
  <2>2. QED BY <1>2, <1>3, <1>4, <1>5, <2>1
<1>6. CASE tok # token
  <2>1. c[tok] = b[tok]
    BY <1>4, <1>6
  <2>2. QED BY <1>3, <1>4, <1>6, <2>1
<1>7. QED BY <1>5, <1>6

(* What is collected, now or after a callback, is held.                     *)
LEMMA CollectHeld ==
  ASSUME NEW balances \in Balances, NEW token \in {"loan", "collateral"},
         NEW sender \in Users, NEW amount \in Nat, NEW data,
         calls \in Seq(Calls), Collect(balances, token, sender, amount, data),
         NEW tok \in {"loan", "collateral"}
  PROVE  HeldIn(balance', calls', tok)
           = HeldIn(balances, calls, tok) + (IF tok = token THEN amount ELSE 0)
<1>1. sender # MorphoAddress /\ MorphoAddress \in Holders /\ sender \in Holders
  BY MorphoAssumption DEF Holders
<1>2. OwedIn(calls, tok) \in Nat /\ balances[tok][MorphoAddress] \in Nat
  BY <1>1, OwedNat DEF Balances
<1>3. CASE /\ calls' = Append(calls, [token |-> token, sender |-> sender, amount |-> amount])
           /\ balance' = balances
  <2> DEFINE call == [token |-> token, sender |-> sender, amount |-> amount]
  <2>1. call \in Calls /\ OwedBy(call, tok) = IF tok = token THEN amount ELSE 0
    BY DEF Calls, OwedBy
  <2> HIDE DEF call
  <2>2. OwedIn(Append(calls, call), tok) = OwedIn(calls, tok) + OwedBy(call, tok)
    BY <2>1, OwedAppend
  <2>3. HeldIn(balance', calls', tok)
          = balances[tok][MorphoAddress] + (OwedIn(calls, tok) + OwedBy(call, tok))
    BY <1>3, <2>2 DEF HeldIn, call
  <2>4. OwedBy(call, tok) \in Nat
    BY <2>1
  <2>5. QED BY <1>2, <2>1, <2>3, <2>4 DEF HeldIn
<1>4. CASE /\ balances[token][sender] >= amount
           /\ balance' = Transferred(balances, token, sender, MorphoAddress, amount)
           /\ UNCHANGED calls
  <2>1. balance'[tok][MorphoAddress]
          = balances[tok][MorphoAddress] + (IF tok = token THEN amount ELSE 0)
    BY <1>1, <1>4, TransferredTo
  <2>2. QED BY <1>2, <1>4, <2>1 DEF HeldIn
<1>5. QED BY <1>3, <1>4 DEF Collect

(* What is paid to a user is not held any more.                             *)
LEMMA PaidHeld ==
  ASSUME NEW balances \in Balances, NEW token \in {"loan", "collateral"},
         NEW receiver \in Users, NEW amount \in Nat, NEW cs \in Seq(Calls),
         NEW tok \in {"loan", "collateral"}
  PROVE  HeldIn(Transferred(balances, token, MorphoAddress, receiver, amount), cs, tok)
           = HeldIn(balances, cs, tok) - (IF tok = token THEN amount ELSE 0)
<1>1. receiver # MorphoAddress /\ MorphoAddress \in Holders /\ receiver \in Holders
  BY MorphoAssumption DEF Holders
<1>2. OwedIn(cs, tok) \in Nat /\ balances[tok][MorphoAddress] \in Nat
  BY <1>1, OwedNat DEF Balances
<1>3. Transferred(balances, token, MorphoAddress, receiver, amount)[tok][MorphoAddress]
          = balances[tok][MorphoAddress] - (IF tok = token THEN amount ELSE 0)
  BY <1>1, TransferredFrom
<1>4. QED BY <1>2, <1>3 DEF HeldIn

-----------------------------------------------------------------------------
(* What an operation does to the accounts.                                  *)

(* `pos` and `m` account for what the contract holds.                       *)
Sound(pos, m, balances, cs) ==
  /\ m.totalSupplyShares = Total(pos, "supplyShares")
  /\ m.totalBorrowShares = Total(pos, "borrowShares")
  /\ HeldIn(balances, cs, "collateral") >= Total(pos, "collateral")
  /\ HeldIn(balances, cs, "loan") >= OtherMarkets + m.totalSupplyAssets - m.totalBorrowAssets

(* One account differs by these shares and this collateral.                 *)
PositionMoves(pos, after, u, supplied, borrowed, collateral) ==
  /\ u \in Accounts /\ supplied \in Int /\ borrowed \in Int /\ collateral \in Int
  /\ Shifted(pos, after, u, "supplyShares", supplied)
  /\ Shifted(pos, after, u, "borrowShares", borrowed)
  /\ Shifted(pos, after, u, "collateral", collateral)

(* The totals differ by these assets and shares.                            *)
MarketMoves(m, after, supplyAssets, supplyShares, borrowAssets, borrowShares) ==
  /\ supplyAssets \in Int /\ borrowAssets \in Int
  /\ after.totalSupplyAssets = m.totalSupplyAssets + supplyAssets
  /\ after.totalSupplyShares = m.totalSupplyShares + supplyShares
  /\ after.totalBorrowAssets = m.totalBorrowAssets + borrowAssets
  /\ after.totalBorrowShares = m.totalBorrowShares + borrowShares

(* The contract receives at least these tokens, now or when a callback      *)
(* returns: what it pays to itself, it keeps.                               *)
TokensMove(loan, collateral) ==
  /\ loan \in Int /\ collateral \in Int
  /\ HeldIn(balance', calls', "loan") \in Int /\ HeldIn(balance', calls', "collateral") \in Int
  /\ HeldIn(balance', calls', "loan") >= HeldIn(balance, calls, "loan") + loan
  /\ HeldIn(balance', calls', "collateral") >= HeldIn(balance, calls, "collateral") + collateral

(* The sum of what is held is a number.                                     *)
LEMMA HeldNat ==
  ASSUME MorphoInv, NEW token \in {"loan", "collateral"}
  PROVE  HeldIn(balance, calls, token) \in Nat
<1>1. MorphoAddress \in Holders
  BY DEF Holders
<1>2. balance[token][MorphoAddress] \in Nat /\ OwedIn(calls, token) \in Nat
  BY <1>1, PartTypes, OwedNat DEF Balances
<1>3. QED BY <1>2 DEF HeldIn

(* The accounts stay sound when shares move alike in the position and the   *)
(* totals, and the loan tokens cover what is supplied and not lent.         *)
LEMMA MovesSound ==
  ASSUME MorphoInv, NEW pos \in [Accounts -> Positions], NEW m \in Integral,
         Sound(pos, m, balance, calls),
         NEW u, NEW ss, NEW bs, NEW c, PositionMoves(pos, position', u, ss, bs, c),
         NEW sa, NEW ba, MarketMoves(m, market', sa, ss, ba, bs),
         NEW loan, TokensMove(loan, c), loan >= sa - ba
  PROVE  Sound(position', market', balance', calls')
<1>1. /\ Total(position', "supplyShares") = Total(pos, "supplyShares") + ss
      /\ Total(position', "borrowShares") = Total(pos, "borrowShares") + bs
      /\ Total(position', "collateral") = Total(pos, "collateral") + c
  BY TotalShift DEF PositionMoves
<1>2. HeldIn(balance, calls, "loan") \in Nat /\ HeldIn(balance, calls, "collateral") \in Nat
  BY HeldNat
<1>3. HeldIn(balance', calls', "loan")
        >= OtherMarkets + market'.totalSupplyAssets - market'.totalBorrowAssets
  <2>1. m.totalSupplyAssets \in Int /\ m.totalBorrowAssets \in Int /\ OtherMarkets \in Nat
    BY MorphoAssumption DEF Integral
  <2>2. QED BY <1>2, <2>1 DEF Sound, MarketMoves, TokensMove
<1>4. HeldIn(balance', calls', "collateral") >= Total(position', "collateral")
  <2>1. Total(pos, "collateral") \in Nat
    BY TotalNat DEF Fields
  <2>2. QED BY <1>1, <1>2, <2>1 DEF Sound, TokensMove
<1>5. QED BY <1>1, <1>3, <1>4 DEF Sound, MarketMoves, TokensMove

(* The accounting of the model, in these terms.                             *)
LEMMA SoundTerms ==
  Sound(position, market, balance, calls) <=> TotalsMatchPositions /\ Backed
BY DEF Sound, TotalsMatchPositions, Backed, Sum, Total, HeldIn, Owed, OwedIn, OwedBy

(* One changed field.                                                       *)
LEMMA FieldMoves ==
  ASSUME NEW pos \in [Accounts -> Positions], NEW u \in Accounts, NEW n \in Int
  PROVE  /\ PositionMoves(pos, [pos EXCEPT ![u].supplyShares = @ + n], u, n, 0, 0)
         /\ PositionMoves(pos, [pos EXCEPT ![u].borrowShares = @ + n], u, 0, n, 0)
         /\ PositionMoves(pos, [pos EXCEPT ![u].collateral = @ + n], u, 0, 0, n)
<1>1. \A v \in Accounts : /\ pos[v].supplyShares \in Int /\ pos[v].borrowShares \in Int
                          /\ pos[v].collateral \in Int
                          /\ pos[v] \in Positions
  BY MorphoAssumption DEF Positions
<1>2. QED BY <1>1 DEF PositionMoves, Shifted, Positions

(* Interest and fees keep the accounts sound: lent and supplied assets grow *)
(* alike, and the shares of the fee are the recipient's.                    *)
LEMMA AccruedSound ==
  ASSUME MorphoInv, Sound(position, market, balance, calls)
  PROVE  Sound(AccruedPosition, AccruedMarket, balance, calls)
<1>1. /\ Interest \in Int /\ FeeShares \in Int /\ feeRecipient \in Accounts
      /\ position \in [Accounts -> Positions] /\ market \in Integral
  BY AccruedTypes, PartTypes DEF MorphoInv, TypeOK
<1>2. PositionMoves(position, AccruedPosition, feeRecipient, FeeShares, 0, 0)
  BY <1>1, FieldMoves DEF AccruedPosition
<1>3. /\ Total(AccruedPosition, "supplyShares") = Total(position, "supplyShares") + FeeShares
      /\ Total(AccruedPosition, "borrowShares") = Total(position, "borrowShares") + 0
      /\ Total(AccruedPosition, "collateral") = Total(position, "collateral") + 0
  BY <1>2, TotalShift DEF PositionMoves
<1>4. /\ Total(position, "borrowShares") \in Nat /\ Total(position, "collateral") \in Nat
  BY <1>1, TotalNat DEF Fields
<1>5. /\ AccruedMarket.totalSupplyShares = market.totalSupplyShares + FeeShares
      /\ AccruedMarket.totalBorrowShares = market.totalBorrowShares
      /\ AccruedMarket.totalSupplyAssets - AccruedMarket.totalBorrowAssets
            = market.totalSupplyAssets - market.totalBorrowAssets
  BY <1>1 DEF AccruedMarket, Integral
<1>6. /\ AccruedMarket.totalSupplyAssets \in Int /\ AccruedMarket.totalBorrowAssets \in Int
      /\ market.totalSupplyAssets \in Int /\ market.totalBorrowAssets \in Int
      /\ OtherMarkets \in Int
  BY <1>1, AccruedTypes, MorphoAssumption DEF Integral
<1>7. OtherMarkets + AccruedMarket.totalSupplyAssets - AccruedMarket.totalBorrowAssets
        = OtherMarkets + market.totalSupplyAssets - market.totalBorrowAssets
  BY <1>5, <1>6
<1>8. QED BY <1>3, <1>4, <1>5, <1>7 DEF Sound

-----------------------------------------------------------------------------
(* Rounding never favours the caller.                                       *)

(* A conversion that rounds down is at most the exact amount, one that      *)
(* rounds up at least.                                                      *)
LEMMA ConversionBounds ==
  ASSUME NEW x \in Nat, NEW a \in Nat, NEW s \in Nat
  PROVE  /\ ToSharesDown(x, a, s) * (a + VIRTUAL_ASSETS) <= x * (s + VIRTUAL_SHARES)
         /\ x * (s + VIRTUAL_SHARES) <= ToSharesUp(x, a, s) * (a + VIRTUAL_ASSETS)
         /\ ToAssetsDown(x, a, s) * (s + VIRTUAL_SHARES) <= x * (a + VIRTUAL_ASSETS)
         /\ x * (a + VIRTUAL_ASSETS) <= ToAssetsUp(x, a, s) * (s + VIRTUAL_SHARES)
<1>1. PICK d \in Nat \ {0} : d = a + VIRTUAL_ASSETS
  BY DEF VIRTUAL_ASSETS
<1>2. PICK e \in Nat \ {0} : e = s + VIRTUAL_SHARES
  BY MorphoAssumption
<1>3. x * d \in Nat /\ x * e \in Nat
  OBVIOUS
<1>4. /\ ((x * e) \div d) * d <= x * e
      /\ x * e <= ((x * e + (d - 1)) \div d) * d
      /\ ((x * d) \div e) * e <= x * d
      /\ x * d <= ((x * d + (e - 1)) \div e) * e
  BY <1>3, RoundedDown, RoundedUp
<1>5. QED
  BY <1>1, <1>2, <1>4 DEF ToSharesDown, ToSharesUp, ToAssetsDown, ToAssetsUp,
                          MulDivDown, MulDivUp

(* What is paid to the contract is worth its shares, and what it pays is    *)
(* worth no more than them.                                                 *)
LEMMA PaidBounds ==
  ASSUME NEW assets \in Nat, NEW shares \in Nat, NEW a \in Nat, NEW s \in Nat
  PROVE  /\ PaidIn(assets, shares, a, s).shares * (a + VIRTUAL_ASSETS)
              <= PaidIn(assets, shares, a, s).assets * (s + VIRTUAL_SHARES)
         /\ PaidOut(assets, shares, a, s).assets * (s + VIRTUAL_SHARES)
              <= PaidOut(assets, shares, a, s).shares * (a + VIRTUAL_ASSETS)
<1>1. CASE assets > 0
  BY <1>1, ConversionBounds DEF PaidIn, PaidOut
<1>2. CASE ~(assets > 0)
  BY <1>2, ConversionBounds DEF PaidIn, PaidOut
<1>3. QED BY <1>1, <1>2

(* How a price of A assets for S shares moves with them.                    *)
LEMMA PriceMoves ==
  ASSUME NEW A \in Int, NEW S \in Int, NEW a \in Int, NEW s \in Int
  PROVE  /\ A * s <= a * S => NotBelow(A + a, S + s, A, S)
         /\ a * S <= A * s => NotBelow(A, S, A + a, S + s)
<1>1. (A + a) * S = A * S + a * S /\ A * (S + s) = A * S + A * s
  OBVIOUS
<1>2. A * S \in Int /\ a * S \in Int /\ A * s \in Int
  OBVIOUS
<1>3. QED BY <1>1, <1>2 DEF NotBelow

(* A debt costs no more at a lower price of a share, and fewer shares of it *)
(* cost no more either.                                                     *)
LEMMA DebtCheaper ==
  ASSUME NEW x \in Nat, NEW y \in Nat, y <= x,
         NEW a \in Nat, NEW s \in Nat, NEW b \in Nat, NEW t \in Nat,
         NotBelow(a + VIRTUAL_ASSETS, s + VIRTUAL_SHARES,
                  b + VIRTUAL_ASSETS, t + VIRTUAL_SHARES)
  PROVE  ToAssetsUp(y, b, t) <= ToAssetsUp(x, a, s)
<1>1. PICK A \in Nat \ {0}, B \in Nat \ {0}, S \in Nat \ {0}, T \in Nat \ {0} :
        /\ A = a + VIRTUAL_ASSETS /\ B = b + VIRTUAL_ASSETS
        /\ S = s + VIRTUAL_SHARES /\ T = t + VIRTUAL_SHARES
  <2>1. /\ a + VIRTUAL_ASSETS \in Nat \ {0} /\ b + VIRTUAL_ASSETS \in Nat \ {0}
        /\ s + VIRTUAL_SHARES \in Nat \ {0} /\ t + VIRTUAL_SHARES \in Nat \ {0}
    BY MorphoAssumption DEF VIRTUAL_ASSETS
  <2>2. QED BY <2>1
<1>2. B * S <= A * T
  BY <1>1 DEF NotBelow
<1>3. PICK q \in Nat : q = ToAssetsUp(x, a, s)
  BY ConversionNat
<1>4. x * A <= q * S
  BY <1>1, <1>3, ConversionBounds
<1>5. y * B <= q * T
  <2>1. /\ (y * B) * S = y * (B * S) /\ y * (A * T) = (y * A) * T
        /\ (q * S) * T = (q * T) * S
    OBVIOUS
  <2>2. /\ y * B \in Nat /\ B * S \in Nat /\ A * T \in Nat /\ y * A \in Nat /\ x * A \in Nat
        /\ q * S \in Nat /\ q * T \in Nat
    OBVIOUS
  <2>3. (B * S) * y <= (A * T) * y
    BY <1>2, <2>2, ProductOrder
  <2>4. y * A <= x * A
    BY ProductOrder
  <2>5. y * A <= q * S
    BY <1>4, <2>2, <2>4
  <2>6. (y * A) * T <= (q * S) * T
    BY <2>2, <2>5, ProductOrder
  <2>7. (B * S) * y = y * (B * S) /\ (A * T) * y = y * (A * T)
    OBVIOUS
  <2>8. (y * B) * S \in Nat /\ (y * A) * T \in Nat /\ (q * T) * S \in Nat
    BY <2>2
  <2>9. (y * B) * S <= (q * T) * S
    BY <2>1, <2>3, <2>6, <2>7, <2>8
  <2>10. QED BY <2>2, <2>9, ProductCancel
<1>6. y * B \in Nat
  OBVIOUS
<1>7. (y * B + (T - 1)) \div T <= q
  BY <1>5, <1>6, RoundedUp
<1>8. ToAssetsUp(y, b, t) = (y * B + (T - 1)) \div T
  BY <1>1 DEF ToAssetsUp, MulDivUp
<1>9. QED BY <1>3, <1>7, <1>8

(* A debt is worth at least one, and at most one when nothing is left of    *)
(* the total.                                                               *)
LEMMA LeastDebt ==
  ASSUME NEW x \in Nat, NEW a \in Nat, NEW s \in Nat
  PROVE  /\ x > 0 => ToAssetsUp(x, a, s) >= 1
         /\ x <= s => ToAssetsUp(x, 0, s) <= 1
         /\ ToAssetsUp(0, a, s) = 0
<1>1. PICK A \in Nat \ {0}, S \in Nat \ {0} :
        A = a + VIRTUAL_ASSETS /\ S = s + VIRTUAL_SHARES
  BY MorphoAssumption DEF VIRTUAL_ASSETS
<1>2. ASSUME x > 0 PROVE ToAssetsUp(x, a, s) >= 1
  <2>1. PICK q \in Nat : q = ToAssetsUp(x, a, s)
    BY ConversionNat
  <2>2. x * A <= q * S
    BY <1>1, <2>1, ConversionBounds
  <2>3. CASE q = 0
    <3>1. q * S = 0
      BY <2>3
    <3>2. PICK y \in Nat : x = y + 1
      <4>1. x - 1 \in Nat /\ x = (x - 1) + 1
        BY <1>2
      <4>2. QED BY <4>1
    <3>3. x * A = y * A + A /\ y * A \in Nat
      BY <3>2
    <3>4. QED BY <2>2, <3>1, <3>3
  <2>4. QED BY <2>1, <2>3
<1>3. ASSUME x <= s PROVE ToAssetsUp(x, 0, s) <= 1
  <2>1. x * 1 \in Nat /\ x * 1 <= 1 * S
    BY <1>1, <1>3, MorphoAssumption
  <2>2. (x * 1 + (S - 1)) \div S <= 1
    BY <2>1, RoundedUp
  <2>3. ToAssetsUp(x, 0, s) = (x * 1 + (S - 1)) \div S
    BY <1>1 DEF ToAssetsUp, MulDivUp, VIRTUAL_ASSETS
  <2>4. QED BY <2>2, <2>3
<1>4. ToAssetsUp(0, a, s) = 0
  <2>1. 0 * A \in Nat /\ 0 * A <= 0 * S
    OBVIOUS
  <2>2. (0 * A + (S - 1)) \div S <= 0
    BY <2>1, RoundedUp
  <2>3. ToAssetsUp(0, a, s) = (0 * A + (S - 1)) \div S
    BY <1>1 DEF ToAssetsUp, MulDivUp
  <2>4. ToAssetsUp(0, a, s) \in Nat
    BY ConversionNat
  <2>5. QED BY <2>2, <2>3, <2>4
<1>5. QED BY <1>2, <1>3, <1>4

-----------------------------------------------------------------------------
(* The price of a share.                                                    *)

(* A supply share is worth no less afterwards.                              *)
SuppliersKept(m, after) ==
  NotBelow(after.totalSupplyAssets + VIRTUAL_ASSETS, after.totalSupplyShares + VIRTUAL_SHARES,
           m.totalSupplyAssets + VIRTUAL_ASSETS, m.totalSupplyShares + VIRTUAL_SHARES)

(* A borrow share costs no more, or all that was borrowed is paid.          *)
DebtorsKept(m, after) ==
  \/ after.totalBorrowAssets = 0
  \/ NotBelow(m.totalBorrowAssets + VIRTUAL_ASSETS, m.totalBorrowShares + VIRTUAL_SHARES,
              after.totalBorrowAssets + VIRTUAL_ASSETS, after.totalBorrowShares + VIRTUAL_SHARES)

(* A total moves against its shares.                                        *)
LEMMA SuppliersMove ==
  ASSUME NEW m, NEW after, m \in Integral, after \in Integral, NEW a \in Int, NEW s \in Int,
         after.totalSupplyAssets = m.totalSupplyAssets + a,
         after.totalSupplyShares = m.totalSupplyShares + s,
         (m.totalSupplyAssets + VIRTUAL_ASSETS) * s <= a * (m.totalSupplyShares + VIRTUAL_SHARES)
  PROVE  SuppliersKept(m, after)
<1>1. m.totalSupplyAssets \in Int /\ m.totalSupplyShares \in Int
  BY DEF Integral
<1>2. VIRTUAL_ASSETS \in Int /\ VIRTUAL_SHARES \in Int
  BY MorphoAssumption DEF VIRTUAL_ASSETS
<1> DEFINE A == m.totalSupplyAssets + VIRTUAL_ASSETS
           S == m.totalSupplyShares + VIRTUAL_SHARES
<1>3. A \in Int /\ S \in Int /\ A * s <= a * S
  BY <1>1, <1>2
<1>4. /\ after.totalSupplyAssets + VIRTUAL_ASSETS = A + a
      /\ after.totalSupplyShares + VIRTUAL_SHARES = S + s
  BY <1>1, <1>2
<1> HIDE DEF A, S
<1>5. NotBelow(A + a, S + s, A, S)
  BY <1>3, PriceMoves
<1>6. QED BY <1>4, <1>5 DEF SuppliersKept, A, S

(* The same for borrow shares, in the other direction.                      *)
LEMMA DebtorsMove ==
  ASSUME NEW m, NEW after, m \in Integral, after \in Integral, NEW a \in Int, NEW s \in Int,
         after.totalBorrowAssets = m.totalBorrowAssets + a,
         after.totalBorrowShares = m.totalBorrowShares + s,
         a * (m.totalBorrowShares + VIRTUAL_SHARES) <= (m.totalBorrowAssets + VIRTUAL_ASSETS) * s
  PROVE  DebtorsKept(m, after)
<1>1. m.totalBorrowAssets \in Int /\ m.totalBorrowShares \in Int
  BY DEF Integral
<1>2. VIRTUAL_ASSETS \in Int /\ VIRTUAL_SHARES \in Int
  BY MorphoAssumption DEF VIRTUAL_ASSETS
<1> DEFINE A == m.totalBorrowAssets + VIRTUAL_ASSETS
           S == m.totalBorrowShares + VIRTUAL_SHARES
<1>3. A \in Int /\ S \in Int /\ a * S <= A * s
  BY <1>1, <1>2
<1>4. /\ after.totalBorrowAssets + VIRTUAL_ASSETS = A + a
      /\ after.totalBorrowShares + VIRTUAL_SHARES = S + s
  BY <1>1, <1>2
<1> HIDE DEF A, S
<1>5. NotBelow(A, S, A + a, S + s)
  BY <1>3, PriceMoves
<1>6. QED BY <1>4, <1>5 DEF DebtorsKept, A, S

(* What a debt of x shares costs is not raised, if the shares exist.        *)
LEMMA DebtKept ==
  ASSUME NEW m \in Totals, NEW after \in Totals, DebtorsKept(m, after),
         NEW x \in Nat, NEW y \in Nat, y <= x, y <= after.totalBorrowShares
  PROVE  ToAssetsUp(y, after.totalBorrowAssets, after.totalBorrowShares)
           <= ToAssetsUp(x, m.totalBorrowAssets, m.totalBorrowShares)
<1>1. /\ m.totalBorrowAssets \in Nat /\ m.totalBorrowShares \in Nat
      /\ after.totalBorrowAssets \in Nat /\ after.totalBorrowShares \in Nat
  BY MorphoAssumption DEF Totals
<1>2. CASE after.totalBorrowAssets = 0
  <2>1. /\ ToAssetsUp(y, 0, after.totalBorrowShares) <= 1
        /\ y = 0 => ToAssetsUp(y, 0, after.totalBorrowShares) = 0
    <3>1. 0 \in Nat
      OBVIOUS
    <3>2. QED BY <1>1, <3>1, LeastDebt
  <2>2. /\ x > 0 => ToAssetsUp(x, m.totalBorrowAssets, m.totalBorrowShares) >= 1
        /\ ToAssetsUp(x, m.totalBorrowAssets, m.totalBorrowShares) \in Nat
        /\ ToAssetsUp(y, 0, after.totalBorrowShares) \in Nat
    BY <1>1, LeastDebt, ConversionNat
  <2>3. QED BY <1>2, <2>1, <2>2
<1>3. CASE NotBelow(m.totalBorrowAssets + VIRTUAL_ASSETS, m.totalBorrowShares + VIRTUAL_SHARES,
                    after.totalBorrowAssets + VIRTUAL_ASSETS,
                    after.totalBorrowShares + VIRTUAL_SHARES)
  BY <1>1, <1>3, DebtCheaper
<1>4. QED BY <1>2, <1>3 DEF DebtorsKept

-----------------------------------------------------------------------------
(* Health.                                                                  *)

(* What a borrower may borrow against its collateral.                       *)
MaxBorrow(collateral) == WMulDown(MulDivDown(collateral, price, ORACLE_PRICE_SCALE), LLTV)

(* It grows with the collateral, from nothing.                              *)
LEMMA MaxBorrowGrows ==
  ASSUME MorphoInv, NEW c \in Nat, NEW d \in Nat, c <= d
  PROVE  /\ MaxBorrow(c) \in Nat /\ MaxBorrow(c) <= MaxBorrow(d) /\ MaxBorrow(0) = 0
<1>1. /\ price \in Nat /\ ORACLE_PRICE_SCALE \in Nat \ {0} /\ WAD \in Nat \ {0} /\ LLTV \in Nat
  BY PartTypes, MorphoAssumption
<1>2. ASSUME NEW x \in Nat, NEW y \in Nat, x <= y, NEW r \in Nat, NEW e \in Nat \ {0}
      PROVE  /\ (x * r) \div e \in Nat /\ (y * r) \div e \in Nat
             /\ (x * r) \div e <= (y * r) \div e
  <2>1. x * r \in Nat /\ y * r \in Nat /\ x * r <= y * r
    BY <1>2, ProductOrder
  <2>2. PICK q \in Nat : q = (x * r) \div e /\ q * e <= x * r
    BY <2>1, RoundedDown
  <2>3. q * e \in Nat /\ q * e <= y * r
    BY <2>1, <2>2
  <2>4. q <= (y * r) \div e
    BY <2>1, <2>3, RoundedDown
  <2>5. QED BY <2>1, <2>2, <2>4, RoundedDown
<1> DEFINE worth(x) == (x * price) \div ORACLE_PRICE_SCALE
<1>3. worth(c) \in Nat /\ worth(d) \in Nat /\ worth(c) <= worth(d)
  BY <1>1, <1>2
<1>4. worth(0) = 0
  <2>1. 0 * price = 0 /\ 0 \div ORACLE_PRICE_SCALE = 0
    BY <1>1
  <2>2. QED BY <2>1
<1> HIDE DEF worth
<1>5. /\ (worth(c) * LLTV) \div WAD \in Nat
      /\ (worth(c) * LLTV) \div WAD <= (worth(d) * LLTV) \div WAD
  BY <1>1, <1>2, <1>3
<1>6. (0 * LLTV) \div WAD = 0
  <2>1. 0 * LLTV = 0 /\ 0 \div WAD = 0
    BY <1>1
  <2>2. QED BY <2>1
<1>7. MaxBorrow(c) = (worth(c) * LLTV) \div WAD /\ MaxBorrow(d) = (worth(d) * LLTV) \div WAD
      /\ MaxBorrow(0) = (worth(0) * LLTV) \div WAD
  BY DEF MaxBorrow, WMulDown, MulDivDown, worth
<1>8. QED BY <1>4, <1>5, <1>6, <1>7

(* IsHealthy in these terms.                                                *)
LEMMA HealthTerms ==
  ASSUME NEW pos, NEW m, NEW u
  PROVE  IsHealthy(pos, m, u)
           <=> MaxBorrow(pos[u].collateral)
                 >= ToAssetsUp(pos[u].borrowShares, m.totalBorrowAssets, m.totalBorrowShares)
BY DEF IsHealthy, MaxBorrow

(* A position stays healthy when it has no more debt and no less collateral.*)
LEMMA HealthCarried ==
  ASSUME MorphoInv, NEW pos \in [Accounts -> Positions], NEW after \in [Accounts -> Positions],
         NEW m \in Totals, NEW n \in Totals, DebtorsKept(m, n),
         NEW u \in Accounts, after[u].borrowShares <= pos[u].borrowShares,
         after[u].collateral >= pos[u].collateral,
         after[u].borrowShares <= n.totalBorrowShares, IsHealthy(pos, m, u)
  PROVE  IsHealthy(after, n, u)
<1>1. PICK x \in Nat, y \in Nat, c \in Nat, d \in Nat :
        /\ x = pos[u].borrowShares /\ y = after[u].borrowShares
        /\ c = pos[u].collateral /\ d = after[u].collateral
  BY MorphoAssumption DEF Positions
<1>2. /\ m.totalBorrowAssets \in Nat /\ m.totalBorrowShares \in Nat
      /\ n.totalBorrowAssets \in Nat /\ n.totalBorrowShares \in Nat
  BY MorphoAssumption DEF Totals
<1>3. PICK p \in Nat, q \in Nat :
        /\ p = ToAssetsUp(x, m.totalBorrowAssets, m.totalBorrowShares)
        /\ q = ToAssetsUp(y, n.totalBorrowAssets, n.totalBorrowShares)
  BY <1>2, ConversionNat
<1>4. q <= p
  BY <1>1, <1>3, DebtKept
<1>5. MaxBorrow(c) \in Nat /\ MaxBorrow(d) \in Nat /\ MaxBorrow(c) <= MaxBorrow(d)
  BY <1>1, MaxBorrowGrows
<1>6. MaxBorrow(c) >= p
  BY <1>1, <1>3, HealthTerms
<1>7. MaxBorrow(d) >= q
  BY <1>3, <1>4, <1>5, <1>6
<1>8. QED BY <1>1, <1>3, <1>7, HealthTerms

(* A healthy position with debt has collateral, and an unhealthy one debt.  *)
LEMMA HealthMeans ==
  ASSUME MorphoInv, NEW pos \in [Accounts -> Positions], NEW m \in Totals, NEW u \in Accounts
  PROVE  /\ IsHealthy(pos, m, u) /\ pos[u].borrowShares > 0 => pos[u].collateral > 0
         /\ ~IsHealthy(pos, m, u) => pos[u].borrowShares > 0
<1>1. PICK x \in Nat, c \in Nat : x = pos[u].borrowShares /\ c = pos[u].collateral
  BY MorphoAssumption DEF Positions
<1>2. m.totalBorrowAssets \in Nat /\ m.totalBorrowShares \in Nat
  BY MorphoAssumption DEF Totals
<1>3. PICK p \in Nat : p = ToAssetsUp(x, m.totalBorrowAssets, m.totalBorrowShares)
  BY <1>2, ConversionNat
<1>4. (x > 0 => p >= 1) /\ (x = 0 => p = 0)
  BY <1>2, <1>3, LeastDebt
<1>5. MaxBorrow(c) \in Nat /\ MaxBorrow(0) = 0
  BY MaxBorrowGrows
<1>6. IsHealthy(pos, m, u) <=> MaxBorrow(c) >= p
  BY <1>1, <1>3, HealthTerms
<1>7. QED BY <1>1, <1>4, <1>5, <1>6

-----------------------------------------------------------------------------
(* What each operation does to the accounts, once interest is accrued.      *)

Effect(u, supplyShares, borrowShares, collateral, supplyAssets, borrowAssets, loan) ==
  /\ PositionMoves(AccruedPosition, position', u, supplyShares, borrowShares, collateral)
  /\ MarketMoves(AccruedMarket, market', supplyAssets, supplyShares, borrowAssets, borrowShares)
  /\ TokensMove(loan, collateral)

(* No side of the market pays for the operation.                            *)
PricesKept(m, after) == SuppliersKept(m, after) /\ DebtorsKept(m, after)

(* Tokens that come in, now or after the callback.                          *)
LEMMA CollectMoves ==
  ASSUME MorphoInv, NEW token \in {"loan", "collateral"}, NEW sender \in Users,
         NEW amount \in Nat, NEW data, Collect(balance, token, sender, amount, data)
  PROVE  /\ token = "loan" => TokensMove(amount, 0)
         /\ token = "collateral" => TokensMove(0, amount)
<1>1. \A tok \in {"loan", "collateral"} :
        HeldIn(balance', calls', tok)
          = HeldIn(balance, calls, tok) + (IF tok = token THEN amount ELSE 0)
  BY PartTypes, CollectHeld
<1>2. QED BY <1>1, HeldNat DEF TokensMove

(* Tokens that go out.                                                      *)
LEMMA PayMoves ==
  ASSUME MorphoInv, NEW token \in {"loan", "collateral"}, NEW receiver \in Holders,
         NEW amount \in Nat, Pay(token, receiver, amount), UNCHANGED calls
  PROVE  /\ token = "loan" => TokensMove(-amount, 0)
         /\ token = "collateral" => TokensMove(0, -amount)
<1>1. ASSUME NEW tok \in {"loan", "collateral"}
      PROVE  /\ HeldIn(balance', calls', tok) \in Int
             /\ HeldIn(balance', calls', tok)
                  >= HeldIn(balance, calls, tok) - (IF tok = token THEN amount ELSE 0)
  <2>1. HeldIn(balance, calls, tok) \in Nat
    BY HeldNat
  <2>2. CASE receiver \in Users
    <3>1. HeldIn(balance', calls', tok)
            = HeldIn(balance, calls, tok) - (IF tok = token THEN amount ELSE 0)
      BY <2>2, PartTypes, PaidHeld DEF Pay
    <3>2. QED BY <2>1, <3>1
  <2>3. CASE receiver = MorphoAddress
    <3>1. balance'[tok][MorphoAddress] = balance[tok][MorphoAddress]
      BY <2>3, PartTypes, TransferredToItself DEF Pay
    <3>2. HeldIn(balance', calls', tok) = HeldIn(balance, calls, tok)
      BY <3>1 DEF HeldIn
    <3>3. QED BY <2>1, <3>2
  <2>4. QED BY <2>2, <2>3 DEF Holders
<1>2. HeldIn(balance, calls, "loan") \in Nat /\ HeldIn(balance, calls, "collateral") \in Nat
  BY HeldNat
<1>3. QED BY <1>1, <1>2 DEF TokensMove

(* Where nothing moves, no price does.                                      *)
LEMMA StillKept ==
  ASSUME NEW m \in Totals, NEW after
  PROVE  /\ /\ after.totalSupplyAssets = m.totalSupplyAssets
            /\ after.totalSupplyShares = m.totalSupplyShares
            => SuppliersKept(m, after)
         /\ /\ after.totalBorrowAssets = m.totalBorrowAssets
            /\ after.totalBorrowShares = m.totalBorrowShares
            => DebtorsKept(m, after)
<1>1. /\ m.totalSupplyAssets + VIRTUAL_ASSETS \in Int
      /\ m.totalSupplyShares + VIRTUAL_SHARES \in Int
      /\ m.totalBorrowAssets + VIRTUAL_ASSETS \in Int
      /\ m.totalBorrowShares + VIRTUAL_SHARES \in Int
  BY MorphoAssumption DEF Totals, VIRTUAL_ASSETS
<1>2. \A x \in Int, y \in Int : NotBelow(x, y, x, y)
  BY DEF NotBelow
<1>3. QED BY <1>1, <1>2 DEF SuppliersKept, DebtorsKept

(* One side of the totals moves.                                            *)
LEMMA SupplySideMoves ==
  ASSUME NEW m \in Integral, NEW a \in Int, NEW s \in Int
  PROVE  LET after == [m EXCEPT !.totalSupplyShares = m.totalSupplyShares + s,
                                !.totalSupplyAssets = m.totalSupplyAssets + a]
         IN  MarketMoves(m, after, a, s, 0, 0) /\ after \in Integral
<1> DEFINE x == m.totalSupplyShares + s
           y == m.totalSupplyAssets + a
           after == [m EXCEPT !.totalSupplyShares = x, !.totalSupplyAssets = y]
<1>1. x \in Int /\ y \in Int /\ m.totalBorrowShares \in Int /\ m.totalBorrowAssets \in Int
  BY DEF Integral
<1> HIDE DEF x, y
<1>2. /\ after.totalSupplyShares = x /\ after.totalSupplyAssets = y
      /\ after.totalBorrowShares = m.totalBorrowShares
      /\ after.totalBorrowAssets = m.totalBorrowAssets
      /\ after \in Integral
  BY <1>1 DEF Integral
<1> HIDE DEF after
<1>3. MarketMoves(m, after, a, s, 0, 0)
  BY <1>1, <1>2 DEF MarketMoves, x, y
<1>4. QED BY <1>2, <1>3 DEF after, x, y

(* The same for what is borrowed.                                           *)
LEMMA BorrowSideMoves ==
  ASSUME NEW m \in Integral, NEW a \in Int, NEW s \in Int
  PROVE  LET after == [m EXCEPT !.totalBorrowShares = m.totalBorrowShares + s,
                                !.totalBorrowAssets = m.totalBorrowAssets + a]
         IN  MarketMoves(m, after, 0, 0, a, s) /\ after \in Integral
<1> DEFINE x == m.totalBorrowShares + s
           y == m.totalBorrowAssets + a
           after == [m EXCEPT !.totalBorrowShares = x, !.totalBorrowAssets = y]
<1>1. x \in Int /\ y \in Int /\ m.totalSupplyShares \in Int /\ m.totalSupplyAssets \in Int
  BY DEF Integral
<1> HIDE DEF x, y
<1>2. /\ after.totalBorrowShares = x /\ after.totalBorrowAssets = y
      /\ after.totalSupplyShares = m.totalSupplyShares
      /\ after.totalSupplyAssets = m.totalSupplyAssets
      /\ after \in Integral
  BY <1>1 DEF Integral
<1> HIDE DEF after
<1>3. MarketMoves(m, after, 0, 0, a, s)
  BY <1>1, <1>2 DEF MarketMoves, x, y
<1>4. QED BY <1>2, <1>3 DEF after, x, y

(* Supplying adds shares that are worth at most what is paid for them.      *)
LEMMA SupplyEffect ==
  ASSUME MorphoInv, NEW sender \in Users, NEW user \in Users, NEW assets \in Nat,
         NEW shares \in Nat, NEW data, Supply(sender, assets, shares, user, data)
  PROVE  /\ \E a \in Nat, s \in Nat : Effect(user, s, 0, 0, a, 0, a)
         /\ PricesKept(AccruedMarket, market')
<1> DEFINE m == AccruedMarket
           paid == PaidIn(assets, shares, m.totalSupplyAssets, m.totalSupplyShares)
           a == paid.assets
           s == paid.shares
<1>1. /\ m \in Totals /\ m \in Integral /\ AccruedPosition \in [Accounts -> Positions]
      /\ m.totalSupplyAssets \in Nat /\ m.totalSupplyShares \in Nat
  BY AccruedTotals DEF Supply
<1>2. a \in Nat /\ s \in Nat
  BY <1>1, PaidTypes
<1>3. s * (m.totalSupplyAssets + VIRTUAL_ASSETS) <= a * (m.totalSupplyShares + VIRTUAL_SHARES)
  BY <1>1, PaidBounds
<1>4. Collect(balance, "loan", sender, a, data)
  BY DEF Supply
<1>5. /\ market' = [m EXCEPT !.totalSupplyShares = m.totalSupplyShares + s,
                             !.totalSupplyAssets = m.totalSupplyAssets + a]
      /\ position' = [AccruedPosition EXCEPT ![user].supplyShares = @ + s]
  BY DEF Supply
<1>6. user \in Accounts
  BY DEF Accounts
<1> HIDE DEF m, a, s, paid
<1>7. MarketMoves(m, market', a, s, 0, 0) /\ market' \in Integral
  <2> DEFINE after == [m EXCEPT !.totalSupplyShares = m.totalSupplyShares + s,
                                !.totalSupplyAssets = m.totalSupplyAssets + a]
  <2>1. MarketMoves(m, after, a, s, 0, 0) /\ after \in Integral
    <3>1. m \in Integral /\ a \in Int /\ s \in Int
      BY <1>1, <1>2
    <3>2. QED BY <3>1, SupplySideMoves
  <2>2. QED BY <1>5, <2>1
<1>8. PositionMoves(AccruedPosition, position', user, s, 0, 0)
  <2> DEFINE p == AccruedPosition
             after == [p EXCEPT ![user].supplyShares = @ + s]
  <2>1. p \in [Accounts -> Positions] /\ s \in Int
    BY <1>1, <1>2
  <2>2. position' = after
    BY <1>5
  <2> HIDE DEF p
  <2>3. PositionMoves(p, after, user, s, 0, 0)
    BY <1>6, <2>1, FieldMoves
  <2>4. QED BY <2>2, <2>3 DEF p
<1>9. TokensMove(a, 0)
  BY <1>2, <1>4, CollectMoves
<1>10. SuppliersKept(m, market')
  <2>1. (m.totalSupplyAssets + VIRTUAL_ASSETS) * s
          = s * (m.totalSupplyAssets + VIRTUAL_ASSETS)
    BY <1>1, <1>2 DEF VIRTUAL_ASSETS
  <2>2. QED BY <1>1, <1>2, <1>3, <1>7, <2>1, SuppliersMove DEF MarketMoves
<1>11. DebtorsKept(m, market')
  <2>1. m.totalBorrowAssets \in Int /\ m.totalBorrowShares \in Int
    BY <1>1 DEF Integral
  <2>2. QED BY <1>1, <1>7, <2>1, StillKept DEF MarketMoves
<1>12. QED BY <1>2, <1>7, <1>8, <1>9, <1>10, <1>11 DEF Effect, PricesKept, m

(* Withdrawing takes shares that are worth at least what is paid out.       *)
LEMMA WithdrawEffect ==
  ASSUME MorphoInv, NEW sender \in Users, NEW user \in Users, NEW assets \in Nat,
         NEW shares \in Nat, NEW receiver \in Holders,
         Withdraw(sender, assets, shares, user, receiver)
  PROVE  /\ \E a \in Nat, s \in Nat : Effect(user, -s, 0, 0, -a, 0, -a)
         /\ PricesKept(AccruedMarket, market')
<1> DEFINE m == AccruedMarket
           p == AccruedPosition
           paid == PaidOut(assets, shares, m.totalSupplyAssets, m.totalSupplyShares)
           a == paid.assets
           s == paid.shares
<1>1. /\ m \in Totals /\ m \in Integral /\ p \in [Accounts -> Positions]
      /\ m.totalSupplyAssets \in Nat /\ m.totalSupplyShares \in Nat
  BY AccruedTotals DEF Withdraw
<1>2. a \in Nat /\ s \in Nat
  BY <1>1, PaidTypes
<1>3. a * (m.totalSupplyShares + VIRTUAL_SHARES) <= s * (m.totalSupplyAssets + VIRTUAL_ASSETS)
  BY <1>1, PaidBounds
<1>4. Pay("loan", receiver, a) /\ UNCHANGED calls
  BY DEF Withdraw
<1>5. /\ market' = [m EXCEPT !.totalSupplyShares = m.totalSupplyShares - s,
                             !.totalSupplyAssets = m.totalSupplyAssets - a]
      /\ position' = [p EXCEPT ![user].supplyShares = p[user].supplyShares - s]
  BY DEF Withdraw
<1>6. user \in Accounts
  BY DEF Accounts
<1> HIDE DEF m, p, a, s, paid
<1>7. /\ m.totalSupplyShares - s = m.totalSupplyShares + (-s)
      /\ m.totalSupplyAssets - a = m.totalSupplyAssets + (-a)
      /\ p[user].supplyShares - s = p[user].supplyShares + (-s)
      /\ -a \in Int /\ -s \in Int
  BY <1>1, <1>2, <1>6 DEF Positions
<1>8. MarketMoves(m, market', -a, -s, 0, 0) /\ market' \in Integral
  <2> DEFINE after == [m EXCEPT !.totalSupplyShares = m.totalSupplyShares + (-s),
                                !.totalSupplyAssets = m.totalSupplyAssets + (-a)]
  <2>1. MarketMoves(m, after, -a, -s, 0, 0) /\ after \in Integral
    BY <1>1, <1>7, SupplySideMoves
  <2>2. QED BY <1>5, <1>7, <2>1
<1>9. PositionMoves(p, position', user, -s, 0, 0)
  <2> DEFINE after == [p EXCEPT ![user].supplyShares = p[user].supplyShares + (-s)]
  <2>1. PositionMoves(p, after, user, -s, 0, 0)
    BY <1>1, <1>6, <1>7, FieldMoves
  <2>2. QED BY <1>5, <1>7, <2>1
<1>10. TokensMove(-a, 0)
  BY <1>2, <1>4, PayMoves
<1>11. SuppliersKept(m, market')
  <2>1. (m.totalSupplyAssets + VIRTUAL_ASSETS) * (-s)
          <= (-a) * (m.totalSupplyShares + VIRTUAL_SHARES)
    <3>1. /\ m.totalSupplyAssets + VIRTUAL_ASSETS \in Int
          /\ m.totalSupplyShares + VIRTUAL_SHARES \in Int
      BY <1>1, MorphoAssumption DEF VIRTUAL_ASSETS
    <3>2. \A x \in Int, y \in Int : x * (-y) = -(y * x) /\ (-y) * x = -(y * x) /\ x * y \in Int
      OBVIOUS
    <3>3. \A x \in Int, y \in Int : x <= y => -y <= -x
      OBVIOUS
    <3>4. QED BY <1>2, <1>3, <3>1, <3>2, <3>3
  <2>2. QED BY <1>1, <1>7, <1>8, <2>1, SuppliersMove DEF MarketMoves
<1>12. DebtorsKept(m, market')
  <2>1. m.totalBorrowAssets \in Int /\ m.totalBorrowShares \in Int
    BY <1>1 DEF Integral
  <2>2. QED BY <1>1, <1>8, <2>1, StillKept DEF MarketMoves
<1>13. QED BY <1>2, <1>8, <1>9, <1>10, <1>11, <1>12 DEF Effect, PricesKept, m, p

(* Borrowing adds shares that cost at least what is lent, and leaves the    *)
(* borrower healthy.                                                        *)
LEMMA BorrowEffect ==
  ASSUME MorphoInv, NEW sender \in Users, NEW user \in Users, NEW assets \in Nat,
         NEW shares \in Nat, NEW receiver \in Holders,
         Borrow(sender, assets, shares, user, receiver)
  PROVE  /\ \E a \in Nat, s \in Nat : Effect(user, 0, s, 0, 0, a, -a)
         /\ PricesKept(AccruedMarket, market')
         /\ IsHealthy(position', market', user)
<1> DEFINE m == AccruedMarket
           p == AccruedPosition
           paid == PaidOut(assets, shares, m.totalBorrowAssets, m.totalBorrowShares)
           a == paid.assets
           s == paid.shares
<1>1. /\ m \in Totals /\ m \in Integral /\ p \in [Accounts -> Positions]
      /\ m.totalBorrowAssets \in Nat /\ m.totalBorrowShares \in Nat
  BY AccruedTotals DEF Borrow
<1>2. a \in Nat /\ s \in Nat
  BY <1>1, PaidTypes
<1>3. a * (m.totalBorrowShares + VIRTUAL_SHARES) <= s * (m.totalBorrowAssets + VIRTUAL_ASSETS)
  BY <1>1, PaidBounds
<1>4. Pay("loan", receiver, a) /\ UNCHANGED calls
  BY DEF Borrow
<1>5. /\ market' = [m EXCEPT !.totalBorrowShares = m.totalBorrowShares + s,
                             !.totalBorrowAssets = m.totalBorrowAssets + a]
      /\ position' = [p EXCEPT ![user].borrowShares = p[user].borrowShares + s]
      /\ IsHealthy(position', market', user)
  BY DEF Borrow
<1>6. user \in Accounts
  BY DEF Accounts
<1> HIDE DEF m, p, a, s, paid
<1>7. MarketMoves(m, market', 0, 0, a, s) /\ market' \in Integral
  <2> DEFINE after == [m EXCEPT !.totalBorrowShares = m.totalBorrowShares + s,
                                !.totalBorrowAssets = m.totalBorrowAssets + a]
  <2>1. m \in Integral /\ a \in Int /\ s \in Int
    BY <1>1, <1>2
  <2>2. MarketMoves(m, after, 0, 0, a, s) /\ after \in Integral
    BY <2>1, BorrowSideMoves
  <2>3. QED BY <1>5, <2>2
<1>8. PositionMoves(p, position', user, 0, s, 0)
  <2> DEFINE after == [p EXCEPT ![user].borrowShares = p[user].borrowShares + s]
  <2>1. p \in [Accounts -> Positions] /\ s \in Int
    BY <1>1, <1>2
  <2>2. PositionMoves(p, after, user, 0, s, 0)
    BY <1>6, <2>1, FieldMoves
  <2>3. QED BY <1>5, <2>2
<1>9. TokensMove(-a, 0)
  BY <1>2, <1>4, PayMoves
<1>10. DebtorsKept(m, market')
  <2>1. /\ a * (m.totalBorrowShares + VIRTUAL_SHARES)
             <= (m.totalBorrowAssets + VIRTUAL_ASSETS) * s
        /\ a \in Int /\ s \in Int
    <3>1. (m.totalBorrowAssets + VIRTUAL_ASSETS) * s = s * (m.totalBorrowAssets + VIRTUAL_ASSETS)
      BY <1>1, <1>2 DEF VIRTUAL_ASSETS
    <3>2. QED BY <1>2, <1>3, <3>1
  <2>2. QED BY <1>1, <1>7, <2>1, DebtorsMove DEF MarketMoves
<1>11. SuppliersKept(m, market')
  <2>1. m.totalSupplyAssets \in Int /\ m.totalSupplyShares \in Int
    BY <1>1 DEF Integral
  <2>2. QED BY <1>1, <1>7, <2>1, StillKept DEF MarketMoves
<1>12. QED BY <1>2, <1>5, <1>7, <1>8, <1>9, <1>10, <1>11 DEF Effect, PricesKept, m, p

(* A payment takes borrow shares that cost at most what is paid, or all     *)
(* that is owed.                                                            *)
LEMMA DebtPaid ==
  ASSUME NEW m \in Totals, NEW after \in Integral, NEW paid \in Nat, NEW s \in Nat,
         s * (m.totalBorrowAssets + VIRTUAL_ASSETS)
           <= paid * (m.totalBorrowShares + VIRTUAL_SHARES),
         after.totalBorrowAssets = m.totalBorrowAssets - Least(m.totalBorrowAssets, paid),
         after.totalBorrowShares = m.totalBorrowShares - s
  PROVE  DebtorsKept(m, after)
<1>1. PICK A \in Nat, S \in Nat : A = m.totalBorrowAssets /\ S = m.totalBorrowShares
  BY MorphoAssumption DEF Totals
<1>2. CASE paid < A
  <2>1. PICK a \in Int, t \in Int : a = -paid /\ t = -s
    OBVIOUS
  <2>2. /\ after.totalBorrowAssets = A + a /\ after.totalBorrowShares = S + t
    BY <1>1, <1>2, <2>1 DEF Least
  <2>3. a * (S + VIRTUAL_SHARES) <= (A + VIRTUAL_ASSETS) * t
    <3>1. A + VIRTUAL_ASSETS \in Int /\ S + VIRTUAL_SHARES \in Int
      BY <1>1, MorphoAssumption DEF VIRTUAL_ASSETS
    <3>2. \A x \in Int, y \in Int : x * (-y) = -(y * x) /\ (-y) * x = -(y * x) /\ x * y \in Int
      OBVIOUS
    <3>3. \A x \in Int, y \in Int : x <= y => -y <= -x
      OBVIOUS
    <3>4. QED BY <1>1, <2>1, <3>1, <3>2, <3>3
  <2>4. m \in Integral
    BY MorphoAssumption DEF Totals, Integral
  <2>5. QED BY <1>1, <2>2, <2>3, <2>4, DebtorsMove
<1>3. CASE ~(paid < A)
  <2>1. after.totalBorrowAssets = 0
    BY <1>1, <1>3 DEF Least
  <2>2. QED BY <2>1 DEF DebtorsKept
<1>4. QED BY <1>2, <1>3

(* What is paid beyond the total is not taken from it.                      *)
LEMMA ZeroFloor ==
  ASSUME NEW x \in Nat, NEW y \in Nat
  PROVE  /\ Least(x, y) \in Nat /\ Least(x, y) <= x /\ Least(x, y) <= y
         /\ ZeroFloorSub(x, y) = x - Least(x, y) /\ ZeroFloorSub(x, y) = x + (-Least(x, y))
BY DEF Least, ZeroFloorSub

(* Repaying takes shares of a debt for at least what they cost.             *)
LEMMA RepayEffect ==
  ASSUME MorphoInv, NEW sender \in Users, NEW user \in Users, NEW assets \in Nat,
         NEW shares \in Nat, NEW data, Repay(sender, assets, shares, user, data)
  PROVE  /\ \E a \in Nat, b \in Nat, s \in Nat :
              b <= a /\ Effect(user, 0, -s, 0, 0, -b, a)
         /\ PricesKept(AccruedMarket, market')
<1> DEFINE m == AccruedMarket
           p == AccruedPosition
           paid == PaidIn(assets, shares, m.totalBorrowAssets, m.totalBorrowShares)
           a == paid.assets
           s == paid.shares
           b == Least(m.totalBorrowAssets, a)
<1>1. /\ m \in Totals /\ m \in Integral /\ p \in [Accounts -> Positions]
      /\ m.totalBorrowAssets \in Nat /\ m.totalBorrowShares \in Nat
  BY AccruedTotals DEF Repay
<1>2. a \in Nat /\ s \in Nat
  BY <1>1, PaidTypes
<1>3. s * (m.totalBorrowAssets + VIRTUAL_ASSETS) <= a * (m.totalBorrowShares + VIRTUAL_SHARES)
  BY <1>1, PaidBounds
<1>4. Collect(balance, "loan", sender, a, data)
  BY DEF Repay
<1>5. /\ market' = [m EXCEPT !.totalBorrowShares = m.totalBorrowShares - s,
                             !.totalBorrowAssets = ZeroFloorSub(m.totalBorrowAssets, a)]
      /\ position' = [p EXCEPT ![user].borrowShares = p[user].borrowShares - s]
  BY DEF Repay
<1>6. user \in Accounts
  BY DEF Accounts
<1> HIDE DEF m, p, a, s, paid
<1>7. /\ b \in Nat /\ b <= a
      /\ ZeroFloorSub(m.totalBorrowAssets, a) = m.totalBorrowAssets + (-b)
  BY <1>1, <1>2, ZeroFloor
<1>8. /\ m.totalBorrowShares - s = m.totalBorrowShares + (-s)
      /\ p[user].borrowShares - s = p[user].borrowShares + (-s)
      /\ -b \in Int /\ -s \in Int
      /\ m.totalBorrowAssets + (-b) = m.totalBorrowAssets - b
  BY <1>1, <1>2, <1>6, <1>7 DEF Positions
<1>9. MarketMoves(m, market', 0, 0, -b, -s) /\ market' \in Integral
  <2> HIDE DEF b
  <2> DEFINE after == [m EXCEPT !.totalBorrowShares = m.totalBorrowShares + (-s),
                                !.totalBorrowAssets = m.totalBorrowAssets + (-b)]
  <2>1. MarketMoves(m, after, 0, 0, -b, -s) /\ after \in Integral
    BY <1>1, <1>8, BorrowSideMoves
  <2>2. QED BY <1>5, <1>7, <1>8, <2>1
<1>10. PositionMoves(p, position', user, 0, -s, 0)
  <2> DEFINE after == [p EXCEPT ![user].borrowShares = p[user].borrowShares + (-s)]
  <2>1. PositionMoves(p, after, user, 0, -s, 0)
    BY <1>1, <1>6, <1>8, FieldMoves
  <2>2. QED BY <1>5, <1>8, <2>1
<1>11. TokensMove(a, 0)
  BY <1>2, <1>4, CollectMoves
<1>12. DebtorsKept(m, market')
  <2>1. /\ market'.totalBorrowAssets = m.totalBorrowAssets - b
        /\ market'.totalBorrowShares = m.totalBorrowShares - s
    BY <1>8, <1>9 DEF MarketMoves
  <2>2. QED BY <1>1, <1>2, <1>3, <1>9, <2>1, DebtPaid
<1>13. SuppliersKept(m, market')
  <2>1. m.totalSupplyAssets \in Int /\ m.totalSupplyShares \in Int
    BY <1>1 DEF Integral
  <2>2. QED BY <1>1, <1>9, <2>1, StillKept DEF MarketMoves
<1>14. QED
  BY <1>2, <1>7, <1>9, <1>10, <1>11, <1>12, <1>13 DEF Effect, PricesKept, m, p

(* Collateral comes in, and no interest is accrued.                         *)
LEMMA SupplyCollateralEffect ==
  ASSUME MorphoInv, NEW sender \in Users, NEW user \in Users, NEW assets \in Nat,
         NEW data, SupplyCollateral(sender, assets, user, data)
  PROVE  /\ PositionMoves(position, position', user, 0, 0, assets)
         /\ TokensMove(0, assets) /\ market' = market
<1>1. user \in Accounts /\ position \in [Accounts -> Positions] /\ assets \in Int
  BY PartTypes DEF Accounts
<1> DEFINE after == [position EXCEPT ![user].collateral = position[user].collateral + assets]
<1>2. PositionMoves(position, after, user, 0, 0, assets)
  BY <1>1, FieldMoves
<1>3. position' = after /\ market' = market
  BY DEF SupplyCollateral
<1>4. TokensMove(0, assets)
  BY CollectMoves DEF SupplyCollateral
<1>5. QED BY <1>2, <1>3, <1>4

(* Totals that do not move.                                                 *)
LEMMA StillMoves ==
  ASSUME NEW m \in Integral
  PROVE  MarketMoves(m, m, 0, 0, 0, 0)
BY DEF MarketMoves, Integral

(* Collateral goes out, and the borrower stays healthy.                     *)
LEMMA WithdrawCollateralEffect ==
  ASSUME MorphoInv, NEW sender \in Users, NEW user \in Users, NEW assets \in Nat,
         NEW receiver \in Holders, WithdrawCollateral(sender, assets, user, receiver)
  PROVE  /\ Effect(user, 0, 0, -assets, 0, 0, 0)
         /\ PricesKept(AccruedMarket, market')
         /\ IsHealthy(position', market', user)
         /\ IsHealthy(AccruedPosition, AccruedMarket, user)
<1> DEFINE m == AccruedMarket
           p == AccruedPosition
<1>1. /\ m \in Totals /\ m \in Integral /\ p \in [Accounts -> Positions] /\ user \in Accounts
  BY AccruedTotals DEF WithdrawCollateral, Accounts
<1>2. /\ position' = [p EXCEPT ![user].collateral = p[user].collateral - assets]
      /\ market' = m /\ IsHealthy(position', market', user)
      /\ Pay("collateral", receiver, assets) /\ UNCHANGED calls
  BY DEF WithdrawCollateral
<1> HIDE DEF m, p
<1>3. p[user].collateral - assets = p[user].collateral + (-assets) /\ -assets \in Int
  BY <1>1, MorphoAssumption DEF Positions
<1>4. PositionMoves(p, position', user, 0, 0, -assets)
  <2> DEFINE after == [p EXCEPT ![user].collateral = p[user].collateral + (-assets)]
  <2>1. PositionMoves(p, after, user, 0, 0, -assets)
    BY <1>1, <1>3, FieldMoves
  <2>2. QED BY <1>2, <1>3, <2>1
<1>5. TokensMove(0, -assets)
  BY <1>2, PayMoves
<1>6. MarketMoves(m, market', 0, 0, 0, 0)
  BY <1>1, <1>2, StillMoves
<1>7. PricesKept(m, market')
  BY <1>1, <1>2, StillKept DEF PricesKept
<1>8. IsHealthy(p, m, user)
  <2> DEFINE q == position'
  <2>1. IsHealthy(q, m, user) /\ q = [p EXCEPT ![user].collateral = p[user].collateral - assets]
    BY <1>2
  <2>2. assets <= p[user].collateral
    BY AccruedTypes DEF WithdrawCollateral, Accounts, p
  <2> HIDE DEF q
  <2>3. /\ q[user].borrowShares = p[user].borrowShares
        /\ q[user].collateral = p[user].collateral - assets
    BY <1>1, <2>1 DEF Positions
  <2>4. PICK c \in Nat, d \in Nat, x \in Nat, a \in Nat, n \in Nat :
          /\ c = q[user].collateral /\ d = p[user].collateral /\ c <= d
          /\ x = p[user].borrowShares /\ a = m.totalBorrowAssets /\ n = m.totalBorrowShares
    <3>1. p[user].collateral \in Nat /\ p[user].borrowShares \in Nat
      BY <1>1, MorphoAssumption DEF Positions
    <3>2. p[user].collateral - assets \in Nat /\ p[user].collateral - assets <= p[user].collateral
      BY <2>2, <3>1
    <3>3. m.totalBorrowAssets \in Nat /\ m.totalBorrowShares \in Nat
      BY <1>1, MorphoAssumption DEF Totals
    <3>4. QED BY <2>3, <3>1, <3>2, <3>3
  <2>5. MaxBorrow(c) >= ToAssetsUp(x, a, n)
    BY <2>1, <2>3, <2>4, HealthTerms
  <2>6. /\ MaxBorrow(c) \in Nat /\ MaxBorrow(d) \in Nat /\ MaxBorrow(c) <= MaxBorrow(d)
        /\ ToAssetsUp(x, a, n) \in Nat
    <3>1. c <= d
      BY <2>4
    <3>2. MaxBorrow(c) \in Nat /\ MaxBorrow(c) <= MaxBorrow(d)
      BY <3>1, MaxBorrowGrows
    <3>3. d <= d /\ MaxBorrow(d) \in Nat
      BY MaxBorrowGrows
    <3>4. QED BY <3>2, <3>3, ConversionNat
  <2>7. MaxBorrow(d) >= ToAssetsUp(x, a, n)
    BY <2>5, <2>6
  <2>8. QED BY <2>4, <2>7, HealthTerms
<1>9. QED BY <1>2, <1>4, <1>5, <1>6, <1>7, <1>8 DEF Effect, m, p

(* A flash loan is held as long as it is owed.                              *)
LEMMA FlashLoanEffect ==
  ASSUME MorphoInv, NEW sender \in Users, NEW token \in {"loan", "collateral"},
         NEW assets \in Nat, FlashLoan(sender, token, assets)
  PROVE  TokensMove(0, 0)
<1> DEFINE lent == Transferred(balance, token, MorphoAddress, sender, assets)
<1>1. Collect(lent, token, sender, assets, TRUE) /\ lent \in Balances
  BY PartTypes, TransferredTypes DEF FlashLoan, Holders
<1>2. \A tok \in {"loan", "collateral"} :
        HeldIn(lent, calls, tok)
          = HeldIn(balance, calls, tok) - (IF tok = token THEN assets ELSE 0)
  BY PartTypes, PaidHeld
<1> HIDE DEF lent
<1>3. \A tok \in {"loan", "collateral"} :
        HeldIn(balance', calls', tok)
          = HeldIn(lent, calls, tok) + (IF tok = token THEN assets ELSE 0)
  BY <1>1, PartTypes, CollectHeld
<1>4. \A tok \in {"loan", "collateral"} : HeldIn(balance', calls', tok) = HeldIn(balance, calls, tok)
  <2>1. ASSUME NEW tok \in {"loan", "collateral"}
        PROVE  HeldIn(balance', calls', tok) = HeldIn(balance, calls, tok)
    <3>1. HeldIn(balance, calls, tok) \in Nat
      BY HeldNat
    <3>2. QED BY <1>2, <1>3, <3>1
  <2>2. QED BY <2>1
<1>5. QED BY <1>4, HeldNat DEF TokensMove

(* What a callback owed is collected when it returns.                       *)
LEMMA EndCallbackEffect ==
  ASSUME MorphoInv, EndCallback
  PROVE  TokensMove(0, 0)
<1> DEFINE call == calls[Len(calls)]
<1>1. calls \in Seq(Calls) /\ calls # <<>> /\ balance \in Balances
  BY PartTypes DEF EndCallback
<1>2. call \in Calls
  BY <1>1
<1>3. /\ Front(calls) \in Seq(Calls) /\ calls = Append(Front(calls), call)
  <2>1. Len(calls) - 1 <= Len(calls) /\ Len(calls) - 1 \in Nat
    BY <1>1
  <2>2. QED BY <1>1, <2>1 DEF Front
<1>4. /\ balance' = Transferred(balance, call.token, call.sender, MorphoAddress, call.amount)
      /\ calls' = Front(calls)
  BY DEF EndCallback, Last
<1> HIDE DEF call
<1>5. /\ call.token \in {"loan", "collateral"} /\ call.amount \in Nat
      /\ call.sender \in Holders /\ call.sender # MorphoAddress
  BY <1>2, MorphoAssumption DEF Calls, Holders
<1>6. ASSUME NEW tok \in {"loan", "collateral"}
      PROVE  HeldIn(balance', calls', tok) = HeldIn(balance, calls, tok)
  <2> DEFINE f == Front(calls)
  <2>1. OwedIn(Append(f, call), tok) = OwedIn(f, tok) + OwedBy(call, tok)
    BY <1>2, <1>3, OwedAppend
  <2>2. OwedIn(f, tok) \in Nat
    BY <1>3, OwedNat
  <2>3. Append(f, call) = calls /\ calls' = f
    BY <1>3, <1>4
  <2> HIDE DEF f
  <2>4. balance'[tok][MorphoAddress]
          = balance[tok][MorphoAddress] + (IF tok = call.token THEN call.amount ELSE 0)
    BY <1>1, <1>4, <1>5, TransferredTo
  <2>5. MorphoAddress \in Holders
    BY DEF Holders
  <2>6. balance[tok][MorphoAddress] \in Nat
    BY <1>1, <2>5 DEF Balances
  <2>7. OwedBy(call, tok) \in Nat
        /\ OwedBy(call, tok) = IF tok = call.token THEN call.amount ELSE 0
    <3>1. OwedBy(call, tok) \in Nat
      BY <1>2, OwedByNat
    <3>2. QED BY <3>1 DEF OwedBy
  <2>8. QED BY <2>1, <2>2, <2>3, <2>4, <2>6, <2>7 DEF HeldIn
<1>7. QED BY <1>6, HeldNat DEF TokensMove

(* The suppliers get the interest, less than the shares of the fee cost.    *)
LEMMA AccrualKeepsPrices ==
  ASSUME MorphoInv
  PROVE  SuppliersKept(market, AccruedMarket)
<1> DEFINE i == Interest
           f == WMulDown(i, fee)
           s == FeeShares
<1>1. i \in Nat /\ s \in Nat /\ market \in Integral /\ market \in Totals /\ AccruedMarket \in Integral
  BY AccruedTypes, PartTypes
<1>2. f \in Nat /\ f <= i
  <2>1. WAD \div 4 \in Nat /\ WAD \div 4 <= WAD
    BY MorphoAssumption
  <2>2. fee \in 0..WAD
    BY <2>1, MorphoAssumption DEF MorphoInv, TypeOK
  <2>3. QED BY <1>1, <2>2, FractionBounded
<1>3. /\ AccruedMarket.totalSupplyAssets = market.totalSupplyAssets + i
      /\ AccruedMarket.totalSupplyShares = market.totalSupplyShares + s
  BY <1>1 DEF AccruedMarket, Integral
<1>4. PICK A \in Nat, S \in Nat : A = market.totalSupplyAssets /\ S = market.totalSupplyShares
  BY <1>1, MorphoAssumption DEF Totals
<1>5. s = ToSharesDown(f, A + i - f, S)
  BY <1>4 DEF FeeShares
<1> HIDE DEF i, f, s
<1>6. PICK d \in Nat : i = f + d
  <2>1. i - f \in Nat /\ i = f + (i - f)
    BY <1>1, <1>2
  <2>2. QED BY <2>1
<1>7. s * (A + d + VIRTUAL_ASSETS) <= f * (S + VIRTUAL_SHARES)
  <2>1. A + i - f = A + d /\ A + d \in Nat
    BY <1>2, <1>6
  <2>2. QED BY <1>2, <1>5, <2>1, ConversionBounds
<1>8. (A + VIRTUAL_ASSETS) * s <= i * (S + VIRTUAL_SHARES)
  <2>1. PICK B \in Nat, T \in Nat : B = A + VIRTUAL_ASSETS /\ T = S + VIRTUAL_SHARES
    BY MorphoAssumption DEF VIRTUAL_ASSETS
  <2>2. A + d + VIRTUAL_ASSETS = B + d
    BY <2>1 DEF VIRTUAL_ASSETS
  <2>3. s * (B + d) <= f * T
    BY <1>7, <2>1, <2>2
  <2>4. s * (B + d) = B * s + s * d /\ i * T = f * T + d * T
    BY <1>1, <1>2, <1>6
  <2>5. s * d \in Nat /\ B * s \in Nat /\ d * T \in Nat /\ f * T \in Nat
    BY <1>1, <1>2
  <2>6. B * s <= i * T
    BY <2>3, <2>4, <2>5
  <2>7. QED BY <2>1, <2>6
<1>9. QED BY <1>1, <1>3, <1>4, <1>8, SuppliersMove

(* Without growth, accrual changes nothing.                                 *)
LEMMA NoGrowth ==
  ASSUME MorphoInv, growth = 0
  PROVE  AccruedMarket = market /\ AccruedPosition = position
<1>1. /\ market \in Integral /\ market \in Totals /\ position \in [Accounts -> Positions]
      /\ feeRecipient \in Accounts /\ WAD \in Nat \ {0} /\ fee \in Int
  <2>1. WAD \div 4 \in Nat
    BY MorphoAssumption
  <2>2. QED BY <2>1, PartTypes, MorphoAssumption DEF MorphoInv, TypeOK
<1>2. PICK A \in Nat, S \in Nat : A = market.totalSupplyAssets /\ S = market.totalSupplyShares
  BY <1>1, MorphoAssumption DEF Totals
<1>3. Interest = 0
  <2>1. market.totalBorrowAssets \in Int
    BY <1>1 DEF Integral
  <2>2. market.totalBorrowAssets * 0 = 0 /\ 0 \div WAD = 0
    BY <1>1, <2>1
  <2>3. QED BY <2>2 DEF Interest, WMulDown, MulDivDown
<1>4. WMulDown(0, fee) = 0
  <2>1. 0 * fee = 0 /\ 0 \div WAD = 0
    BY <1>1
  <2>2. QED BY <2>1 DEF WMulDown, MulDivDown
<1>5. FeeShares = 0
  <2>1. FeeShares = ToSharesDown(0, A + 0 - 0, S)
    BY <1>2, <1>3, <1>4 DEF FeeShares
  <2>2. PICK d \in Nat \ {0}, x \in Nat :
          d = A + 0 - 0 + VIRTUAL_ASSETS /\ x = S + VIRTUAL_SHARES
    BY MorphoAssumption DEF VIRTUAL_ASSETS
  <2>3. FeeShares = (0 * x) \div d
    BY <2>1, <2>2 DEF ToSharesDown, MulDivDown, VIRTUAL_ASSETS
  <2>4. 0 * x = 0 /\ 0 \div d = 0
    OBVIOUS
  <2>5. QED BY <2>3, <2>4
<1>6. AccruedMarket = market
  <2>1. /\ market.totalBorrowAssets + 0 = market.totalBorrowAssets
        /\ market.totalSupplyAssets + 0 = market.totalSupplyAssets
        /\ market.totalSupplyShares + 0 = market.totalSupplyShares
    BY <1>1 DEF Integral
  <2>2. AccruedMarket = [market EXCEPT !.totalBorrowAssets = market.totalBorrowAssets,
                                       !.totalSupplyAssets = market.totalSupplyAssets,
                                       !.totalSupplyShares = market.totalSupplyShares]
    BY <1>3, <1>5, <2>1 DEF AccruedMarket
  <2>3. QED BY <1>1, <2>2 DEF Integral
<1>7. AccruedPosition = position
  <2>1. position[feeRecipient] \in Positions
    BY <1>1
  <2>2. /\ [position[feeRecipient] EXCEPT !.supplyShares = @ + 0] = position[feeRecipient]
        /\ AccruedPosition = [position EXCEPT ![feeRecipient].supplyShares = @ + 0]
    BY <1>5, <2>1 DEF AccruedPosition, Positions
  <2>3. AccruedPosition = [position EXCEPT ![feeRecipient] = position[feeRecipient]]
    BY <2>2
  <2>4. QED BY <1>1, <2>3
<1>8. QED BY <1>6, <1>7

-----------------------------------------------------------------------------
(* Two changes in a row.                                                    *)

(* Changes of one account add up.                                           *)
LEMMA PositionMovesTwice ==
  ASSUME NEW pos, NEW after, NEW last, NEW u,
         NEW ss, NEW bs, NEW c, PositionMoves(pos, after, u, ss, bs, c),
         NEW tt, NEW ct, NEW d, PositionMoves(after, last, u, tt, ct, d)
  PROVE  PositionMoves(pos, last, u, ss + tt, bs + ct, c + d)
<1>1. ASSUME NEW field, NEW m, NEW n, m \in Int, n \in Int,
             Shifted(pos, after, u, field, m), Shifted(after, last, u, field, n)
      PROVE  Shifted(pos, last, u, field, m + n)
  BY <1>1 DEF Shifted
<1>2. QED BY <1>1 DEF PositionMoves

(* So do changes of the totals.                                             *)
LEMMA MarketMovesTwice ==
  ASSUME NEW m \in Integral, NEW n, NEW o, NEW sa, NEW ss, NEW ba, NEW bs,
         ss \in Int, bs \in Int, MarketMoves(m, n, sa, ss, ba, bs),
         NEW ta, NEW ts, NEW ca, NEW cs, ts \in Int, cs \in Int,
         MarketMoves(n, o, ta, ts, ca, cs)
  PROVE  MarketMoves(m, o, sa + ta, ss + ts, ba + ca, bs + cs)
BY DEF MarketMoves, Integral

(* And prices that are kept twice are kept.                                 *)
LEMMA PricesKeptTwice ==
  ASSUME NEW m \in Totals, NEW n \in Totals, NEW o \in Totals
  PROVE  /\ SuppliersKept(m, n) /\ SuppliersKept(n, o) => SuppliersKept(m, o)
         /\ /\ DebtorsKept(m, n) /\ DebtorsKept(n, o)
            /\ o.totalBorrowAssets <= n.totalBorrowAssets
            => DebtorsKept(m, o)
<1>1. ASSUME NEW t \in Totals
      PROVE  /\ t.totalSupplyAssets + VIRTUAL_ASSETS \in Nat
             /\ t.totalSupplyShares + VIRTUAL_SHARES \in Nat \ {0}
             /\ t.totalBorrowAssets + VIRTUAL_ASSETS \in Nat
             /\ t.totalBorrowShares + VIRTUAL_SHARES \in Nat \ {0}
             /\ t.totalBorrowAssets \in Nat
  BY MorphoAssumption DEF Totals, VIRTUAL_ASSETS
<1>2. SuppliersKept(m, n) /\ SuppliersKept(n, o) => SuppliersKept(m, o)
  BY <1>1, NotBelowTransitive DEF SuppliersKept
<1>3. ASSUME DebtorsKept(m, n), DebtorsKept(n, o), o.totalBorrowAssets <= n.totalBorrowAssets
      PROVE  DebtorsKept(m, o)
  <2>1. CASE o.totalBorrowAssets = 0
    BY <2>1 DEF DebtorsKept
  <2>2. CASE o.totalBorrowAssets # 0
    <3>1. n.totalBorrowAssets # 0
      BY <1>1, <1>3, <2>2
    <3>2. /\ NotBelow(m.totalBorrowAssets + VIRTUAL_ASSETS,
                      m.totalBorrowShares + VIRTUAL_SHARES,
                      n.totalBorrowAssets + VIRTUAL_ASSETS,
                      n.totalBorrowShares + VIRTUAL_SHARES)
          /\ NotBelow(n.totalBorrowAssets + VIRTUAL_ASSETS,
                      n.totalBorrowShares + VIRTUAL_SHARES,
                      o.totalBorrowAssets + VIRTUAL_ASSETS,
                      o.totalBorrowShares + VIRTUAL_SHARES)
      BY <1>3, <2>2, <3>1 DEF DebtorsKept
    <3>3. QED BY <1>1, <3>2, NotBelowTransitive DEF DebtorsKept
  <2>3. QED BY <2>1, <2>2
<1>4. QED BY <1>2, <1>3

(* Writing off takes the same assets from both totals, with the shares of   *)
(* the debt.                                                                *)
LEMMA WrittenOffEffect ==
  ASSUME NEW pos \in [Accounts -> Positions], NEW m \in Totals, NEW borrower \in Accounts,
         NEW result, result = WrittenOff(pos, m, borrower)
  PROVE  /\ \E bad \in Nat, s \in Nat :
              /\ PositionMoves(pos, result.position, borrower, 0, -s, 0)
              /\ MarketMoves(m, result.market, -bad, 0, -bad, -s)
         /\ DebtorsKept(m, result.market)
         /\ pos[borrower].collateral = 0 => result.position[borrower].borrowShares = 0
         /\ pos[borrower].collateral # 0 => result.market = m
<1>1. /\ m.totalBorrowAssets \in Nat /\ m.totalBorrowShares \in Nat /\ m \in Integral
      /\ m.totalSupplyAssets \in Nat /\ m.totalSupplyShares \in Nat
  BY MorphoAssumption DEF Totals, Integral
<1>2. CASE pos[borrower].collateral = 0
  <2> DEFINE s == pos[borrower].borrowShares
             cost == ToAssetsUp(s, m.totalBorrowAssets, m.totalBorrowShares)
             bad == Least(m.totalBorrowAssets, cost)
             written == [pos EXCEPT ![borrower].borrowShares = 0]
             rest == [m EXCEPT !.totalBorrowAssets = m.totalBorrowAssets - bad,
                               !.totalSupplyAssets = m.totalSupplyAssets - bad,
                               !.totalBorrowShares = m.totalBorrowShares - s]
  <2>1. result = [position |-> written, market |-> rest]
    BY <1>2 DEF WrittenOff
  <2>2. s \in Nat
    BY DEF Positions
  <2>3. /\ cost \in Nat
        /\ s * (m.totalBorrowAssets + VIRTUAL_ASSETS)
             <= cost * (m.totalBorrowShares + VIRTUAL_SHARES)
    BY <1>1, <2>2, ConversionNat, ConversionBounds
  <2>4. PositionMoves(pos, written, borrower, 0, -s, 0)
        /\ written[borrower].borrowShares = 0
    <3> DEFINE after == [pos EXCEPT ![borrower].borrowShares = @ + (-s)]
    <3>1. pos[borrower].borrowShares + (-s) = 0 /\ -s \in Int
      BY <2>2
    <3>2. PositionMoves(pos, after, borrower, 0, -s, 0)
      BY <3>1, FieldMoves
    <3>3. written = after
      BY <3>1
    <3>4. written[borrower].borrowShares = 0
      BY DEF Positions
    <3>5. QED BY <3>2, <3>3, <3>4
  <2> HIDE DEF s, cost, written
  <2>5. bad \in Nat /\ bad <= m.totalBorrowAssets
    BY <1>1, <2>3, ZeroFloor
  <2>6. MarketMoves(m, rest, -bad, 0, -bad, -s) /\ rest \in Integral
    <3> HIDE DEF bad
    <3> DEFINE x == m.totalBorrowAssets - bad
               y == m.totalSupplyAssets - bad
               z == m.totalBorrowShares - s
    <3>1. /\ x \in Int /\ y \in Int /\ z \in Int /\ -bad \in Int
          /\ x = m.totalBorrowAssets + (-bad) /\ y = m.totalSupplyAssets + (-bad)
          /\ z = m.totalBorrowShares + (-s)
          /\ m.totalSupplyShares = m.totalSupplyShares + 0
      BY <1>1, <2>2, <2>5
    <3>2. rest = [m EXCEPT !.totalBorrowAssets = x, !.totalSupplyAssets = y,
                           !.totalBorrowShares = z]
      OBVIOUS
    <3> HIDE DEF x, y, z, rest
    <3>3. /\ rest.totalBorrowAssets = x /\ rest.totalSupplyAssets = y
          /\ rest.totalBorrowShares = z /\ rest.totalSupplyShares = m.totalSupplyShares
          /\ rest \in Integral
      BY <1>1, <3>1, <3>2 DEF Integral
    <3>4. QED BY <3>1, <3>3 DEF MarketMoves
  <2>7. DebtorsKept(m, rest)
    <3>1. /\ rest.totalBorrowAssets = m.totalBorrowAssets - bad
          /\ rest.totalBorrowShares = m.totalBorrowShares - s
      <4> DEFINE x == m.totalBorrowAssets - bad
                 y == m.totalSupplyAssets - bad
                 z == m.totalBorrowShares - s
      <4> HIDE DEF x, y, z
      <4>1. rest.totalBorrowAssets = x /\ rest.totalBorrowShares = z
        BY <1>1 DEF Integral, x, y, z
      <4>2. QED BY <4>1 DEF x, z
    <3> HIDE DEF rest
    <3>2. QED BY <2>2, <2>3, <2>6, <3>1, DebtPaid
  <2> HIDE DEF bad, rest
  <2>8. QED BY <1>2, <2>1, <2>2, <2>4, <2>5, <2>6, <2>7
<1>3. CASE pos[borrower].collateral # 0
  <2>1. result = [position |-> pos, market |-> m]
    BY <1>3 DEF WrittenOff
  <2>2. MarketMoves(m, m, 0, 0, 0, 0) /\ DebtorsKept(m, m)
    BY <1>1, StillMoves, StillKept
  <2>3. PositionMoves(pos, pos, borrower, 0, 0, 0)
    BY MorphoAssumption DEF PositionMoves, Shifted, Positions
  <2>4. PICK z \in Nat : z = 0 /\ -z = 0
    OBVIOUS
  <2>5. /\ PositionMoves(pos, result.position, borrower, 0, -z, 0)
        /\ MarketMoves(m, result.market, -z, 0, -z, -z)
    BY <2>1, <2>2, <2>3, <2>4
  <2>6. DebtorsKept(m, result.market) /\ result.market = m
    BY <2>1, <2>2
  <2>7. QED BY <1>3, <2>5, <2>6
<1>4. QED BY <1>2, <1>3

-----------------------------------------------------------------------------
(* Liquidation.                                                             *)

(* A liquidator that receives this collateral pays this much for it, at the *)
(* oracle's price and with the incentive.                                   *)
PaidFor(collateral, loan) ==
  collateral * price * WAD <= loan * LiquidationIncentiveFactor * ORACLE_PRICE_SCALE

(* What is left of a chain of roundings in the same direction.              *)
LEMMA RoundingChain ==
  ASSUME NEW c \in Nat, NEW p \in Nat, NEW q \in Nat, NEW e \in Nat, c * p <= q * e,
         NEW w \in Nat, NEW x \in Nat, NEW f \in Nat, q * w <= x * f,
         NEW a \in Nat, x <= a
  PROVE  c * p * w <= a * f * e
<1>1. /\ c * p \in Nat /\ q * e \in Nat /\ q * w \in Nat /\ x * f \in Nat /\ a * f \in Nat
  OBVIOUS
<1>2. (c * p) * w <= (q * e) * w
  BY <1>1, ProductOrder
<1>3. (q * e) * w = (q * w) * e
  OBVIOUS
<1>4. (q * w) * e <= (x * f) * e
  BY <1>1, ProductOrder
<1>5. (x * f) * e <= (a * f) * e
  BY <1>1, ProductOrder
<1>6. /\ (c * p) * w \in Nat /\ (q * e) * w \in Nat /\ (x * f) * e \in Nat /\ (a * f) * e \in Nat
  BY <1>1
<1>7. QED BY <1>2, <1>3, <1>4, <1>5, <1>6

(* Converting back and forth against a user never gains.                    *)
LEMMA BackAndForth ==
  ASSUME NEW x \in Nat, NEW a \in Nat, NEW s \in Nat
  PROVE  /\ ToAssetsDown(x, a, s) <= ToAssetsUp(x, a, s)
         /\ x <= ToAssetsUp(ToSharesUp(x, a, s), a, s)
<1>1. PICK A \in Nat \ {0}, S \in Nat \ {0} :
        A = a + VIRTUAL_ASSETS /\ S = s + VIRTUAL_SHARES
  BY MorphoAssumption DEF VIRTUAL_ASSETS
<1>2. PICK d \in Nat, u \in Nat, r \in Nat :
        d = ToAssetsDown(x, a, s) /\ u = ToAssetsUp(x, a, s) /\ r = ToSharesUp(x, a, s)
  BY ConversionNat
<1>3. PICK b \in Nat : b = ToAssetsUp(r, a, s)
  BY ConversionNat
<1>4. d * S <= x * A /\ x * A <= u * S /\ x * S <= r * A
  BY <1>1, <1>2, ConversionBounds
<1>5. r * A <= b * S
  BY <1>1, <1>3, ConversionBounds
<1>6. /\ d * S \in Nat /\ x * A \in Nat /\ u * S \in Nat /\ x * S \in Nat /\ r * A \in Nat
      /\ b * S \in Nat
  OBVIOUS
<1>7. d * S <= u * S /\ x * S <= b * S
  BY <1>4, <1>5, <1>6
<1>8. d <= u /\ x <= b
  BY <1>7, ProductCancel
<1>9. QED BY <1>2, <1>3, <1>8

(* Whether the shares to repay or the collateral to seize is asked for, the *)
(* other is rounded against the liquidator.                                 *)
LEMMA SeizureValue ==
  ASSUME MorphoInv, NEW m \in Totals, NEW n \in Nat
  PROVE  /\ PaidFor(Seized(n, m), ToAssetsUp(n, m.totalBorrowAssets, m.totalBorrowShares))
         /\ PaidFor(n, ToAssetsUp(RepaidShares(n, m), m.totalBorrowAssets, m.totalBorrowShares))
<1>1. PICK p \in Nat \ {0}, w \in Nat \ {0}, e \in Nat \ {0}, f \in Nat \ {0},
           a \in Nat, s \in Nat :
        /\ p = price /\ w = WAD /\ e = ORACLE_PRICE_SCALE /\ f = LiquidationIncentiveFactor
        /\ a = m.totalBorrowAssets /\ s = m.totalBorrowShares
  <2>1. /\ price \in Nat \ {0} /\ WAD \in Nat \ {0} /\ ORACLE_PRICE_SCALE \in Nat \ {0}
        /\ LiquidationIncentiveFactor \in Nat \ {0}
    BY PartTypes, MorphoAssumption, IncentivePositive
  <2>2. m.totalBorrowAssets \in Nat /\ m.totalBorrowShares \in Nat
    BY MorphoAssumption DEF Totals
  <2>3. QED BY <2>1, <2>2
<1>2. PaidFor(Seized(n, m), ToAssetsUp(n, a, s))
  <2>1. PICK d \in Nat, u \in Nat : d = ToAssetsDown(n, a, s) /\ u = ToAssetsUp(n, a, s) /\ d <= u
    <3>1. /\ ToAssetsDown(n, a, s) \in Nat /\ ToAssetsUp(n, a, s) \in Nat
          /\ ToAssetsDown(n, a, s) <= ToAssetsUp(n, a, s)
      BY ConversionNat, BackAndForth
    <3>2. QED BY <3>1
  <2>2. d * f \in Nat
    OBVIOUS
  <2>3. PICK q \in Nat : q = (d * f) \div w /\ q * w <= d * f
    BY <2>2, RoundedDown
  <2>4. q * e \in Nat
    OBVIOUS
  <2>5. PICK c \in Nat : c = (q * e) \div p /\ c * p <= q * e
    BY <2>4, RoundedDown
  <2>6. c * p * w <= u * f * e
    BY <2>1, <2>3, <2>5, RoundingChain
  <2>7. Seized(n, m) = c
    BY <1>1, <2>1, <2>3, <2>5 DEF Seized, WMulDown, MulDivDown
  <2>8. QED BY <1>1, <2>1, <2>6, <2>7 DEF PaidFor
<1>3. PaidFor(n, ToAssetsUp(RepaidShares(n, m), a, s))
  <2>1. n * p \in Nat
    OBVIOUS
  <2>2. PICK q \in Nat : q = (n * p + (e - 1)) \div e /\ n * p <= q * e
    BY <2>1, RoundedUp
  <2>3. q * w \in Nat
    OBVIOUS
  <2>4. PICK x \in Nat : x = (q * w + (f - 1)) \div f /\ q * w <= x * f
    BY <2>3, RoundedUp
  <2>5. PICK b \in Nat : b = ToAssetsUp(ToSharesUp(x, a, s), a, s) /\ x <= b
    <3>1. ToSharesUp(x, a, s) \in Nat /\ x <= ToAssetsUp(ToSharesUp(x, a, s), a, s)
      BY ConversionNat, BackAndForth
    <3>2. ToAssetsUp(ToSharesUp(x, a, s), a, s) \in Nat
      BY <3>1, ConversionNat
    <3>3. QED BY <3>1, <3>2
  <2>6. n * p * w <= b * f * e
    BY <2>2, <2>4, <2>5, RoundingChain
  <2>7. RepaidShares(n, m) = ToSharesUp(x, a, s)
    BY <1>1, <2>2, <2>4 DEF RepaidShares, WDivUp, MulDivUp
  <2>8. QED BY <1>1, <2>5, <2>6, <2>7 DEF PaidFor
<1>4. QED BY <1>1, <1>2, <1>3

(* A liquidation repays and seizes, and may then write off.                 *)
LEMMA LiquidateEffect ==
  ASSUME MorphoInv, NEW sender \in Users, NEW borrower \in Users, NEW seizedAssets \in Nat,
         NEW repaidShares \in Nat, NEW data,
         Liquidate(sender, borrower, seizedAssets, repaidShares, data)
  PROVE  /\ \E s \in Nat, c \in Nat, a \in Nat, b \in Nat, bad \in Nat :
              /\ b <= a /\ PaidFor(c, a) /\ Effect(borrower, 0, -s, -c, -bad, -(b + bad), a)
              /\ HeldIn(balance', calls', "loan") = HeldIn(balance, calls, "loan") + a
         /\ DebtorsKept(AccruedMarket, market')
         /\ ~IsHealthy(AccruedPosition, AccruedMarket, borrower)
         /\ position'[borrower].collateral = 0 => position'[borrower].borrowShares = 0
         /\ position'[borrower].collateral # 0 => SuppliersKept(AccruedMarket, market')
<1> DEFINE m == AccruedMarket
           p == AccruedPosition
           seized == IF seizedAssets > 0 THEN seizedAssets ELSE Seized(repaidShares, m)
           repaid == IF seizedAssets > 0 THEN RepaidShares(seizedAssets, m) ELSE repaidShares
           a == ToAssetsUp(repaid, m.totalBorrowAssets, m.totalBorrowShares)
           b == Least(m.totalBorrowAssets, a)
           pos == [p EXCEPT ![borrower].borrowShares = p[borrower].borrowShares - repaid,
                            ![borrower].collateral = p[borrower].collateral - seized]
           rest == [m EXCEPT !.totalBorrowShares = m.totalBorrowShares - repaid,
                             !.totalBorrowAssets = ZeroFloorSub(m.totalBorrowAssets, a)]
           result == WrittenOff(pos, rest, borrower)
<1>1. /\ Fits(m) /\ Fits(rest) /\ ~IsHealthy(p, m, borrower)
      /\ repaid <= position[borrower].borrowShares
      /\ seized <= position[borrower].collateral
      /\ position' = result.position /\ market' = result.market
      /\ balance["collateral"][MorphoAddress] >= seized
      /\ Collect(Transferred(balance, "collateral", MorphoAddress, sender, seized),
                 "loan", sender, a, data)
  BY DEF Liquidate
<1>2. /\ m \in Totals /\ m \in Integral /\ p \in [Accounts -> Positions] /\ borrower \in Accounts
      /\ m.totalBorrowAssets \in Nat /\ m.totalBorrowShares \in Nat
  BY <1>1, AccruedTotals DEF Accounts
<1>3. /\ p[borrower].borrowShares = position[borrower].borrowShares
      /\ p[borrower].collateral = position[borrower].collateral
  BY <1>2, AccruedTypes
<1> HIDE DEF m, p
<1>4. seized \in Nat /\ repaid \in Nat
  BY <1>2, SeizedTypes
<1>5. /\ a \in Nat
      /\ repaid * (m.totalBorrowAssets + VIRTUAL_ASSETS)
           <= a * (m.totalBorrowShares + VIRTUAL_SHARES)
  BY <1>2, <1>4, ConversionNat, ConversionBounds
<1>6. PaidFor(seized, a)
  BY <1>2, <1>4, SeizureValue
<1> HIDE DEF seized, repaid, a
<1>7. /\ b \in Nat /\ b <= a
      /\ ZeroFloorSub(m.totalBorrowAssets, a) = m.totalBorrowAssets + (-b)
      /\ ZeroFloorSub(m.totalBorrowAssets, a) = m.totalBorrowAssets - b
  BY <1>2, <1>5, ZeroFloor
<1>8. /\ m.totalBorrowShares - repaid = m.totalBorrowShares + (-repaid)
      /\ p[borrower].borrowShares - repaid = p[borrower].borrowShares + (-repaid)
      /\ p[borrower].collateral - seized = p[borrower].collateral + (-seized)
      /\ -b \in Int /\ -repaid \in Int /\ -seized \in Int
      /\ m.totalBorrowAssets + (-b) = m.totalBorrowAssets - b
  BY <1>2, <1>4, <1>7, MorphoAssumption DEF Positions
<1>9. /\ MarketMoves(m, rest, 0, 0, -b, -repaid) /\ rest \in Totals /\ rest \in Integral
      /\ DebtorsKept(m, rest) /\ SuppliersKept(m, rest)
  <2> HIDE DEF b
  <2> DEFINE after == [m EXCEPT !.totalBorrowShares = m.totalBorrowShares + (-repaid),
                                !.totalBorrowAssets = m.totalBorrowAssets + (-b)]
  <2>1. MarketMoves(m, after, 0, 0, -b, -repaid) /\ after \in Integral
    BY <1>2, <1>8, BorrowSideMoves
  <2>2. rest = after
    BY <1>7, <1>8
  <2> HIDE DEF rest, after
  <2>3. rest \in Totals
    BY <1>1, <2>1, <2>2, FitsTotals
  <2>4. /\ rest.totalBorrowAssets = m.totalBorrowAssets - b
        /\ rest.totalBorrowShares = m.totalBorrowShares - repaid
    BY <1>8, <2>1, <2>2 DEF MarketMoves
  <2>5. DebtorsKept(m, rest)
    BY <1>2, <1>4, <1>5, <2>1, <2>2, <2>4, DebtPaid DEF b
  <2>6. SuppliersKept(m, rest)
    <3>1. m.totalSupplyAssets \in Int /\ m.totalSupplyShares \in Int
      BY <1>2 DEF Integral
    <3>2. QED BY <1>2, <2>1, <2>2, <3>1, StillKept DEF MarketMoves
  <2>7. QED BY <2>1, <2>2, <2>3, <2>5, <2>6
<1>10. /\ pos \in [Accounts -> Positions]
      /\ PositionMoves(p, pos, borrower, 0, -repaid, -seized)
  <2>1. /\ p[borrower].borrowShares - repaid \in Nat
        /\ p[borrower].collateral - seized \in Nat
        /\ p[borrower].collateral - seized <= MAX_UINT128
    BY <1>1, <1>2, <1>3, <1>4, MorphoAssumption DEF Positions
  <2> DEFINE once == [p EXCEPT ![borrower].borrowShares = p[borrower].borrowShares + (-repaid)]
             twice == [once EXCEPT ![borrower].collateral =
                         once[borrower].collateral + (-seized)]
  <2>2. once \in [Accounts -> Positions] /\ PositionMoves(p, once, borrower, 0, -repaid, 0)
    BY <1>2, <1>8, <2>1, UpdatedPosition, FieldMoves
  <2>3. once[borrower].collateral = p[borrower].collateral
    BY <1>2 DEF Positions
  <2>4. pos = [once EXCEPT ![borrower].collateral = p[borrower].collateral - seized]
    BY <1>8
  <2> HIDE DEF once, pos
  <2>5. pos \in [Accounts -> Positions]
    BY <1>2, <2>1, <2>2, <2>4, UpdatedPosition
  <2>6. pos = twice
    BY <1>8, <2>3, <2>4
  <2>7. PositionMoves(once, twice, borrower, 0, 0, -seized)
    BY <1>2, <1>8, <2>2, FieldMoves
  <2>8. PositionMoves(p, twice, borrower, 0 + 0, (-repaid) + 0, 0 + (-seized))
    BY <2>2, <2>7, PositionMovesTwice
  <2>9. 0 + 0 = 0 /\ (-repaid) + 0 = -repaid /\ 0 + (-seized) = -seized
    BY <1>4
  <2>10. QED BY <2>5, <2>6, <2>8, <2>9
<1> HIDE DEF pos, rest, b, result
<1>11. PICK bad \in Nat, s \in Nat :
         /\ PositionMoves(pos, position', borrower, 0, -s, 0)
         /\ MarketMoves(rest, market', -bad, 0, -bad, -s)
  <2>1. result = WrittenOff(pos, rest, borrower)
    BY DEF result
  <2>2. PICK bad \in Nat, s \in Nat :
          /\ PositionMoves(pos, result.position, borrower, 0, -s, 0)
          /\ MarketMoves(rest, result.market, -bad, 0, -bad, -s)
    BY <1>2, <1>9, <1>10, <2>1, WrittenOffEffect
  <2>3. QED BY <1>1, <2>2
<1>12. /\ DebtorsKept(rest, market')
       /\ pos[borrower].collateral = 0 => position'[borrower].borrowShares = 0
       /\ pos[borrower].collateral # 0 => market' = rest
  <2>1. result = WrittenOff(pos, rest, borrower)
    BY DEF result
  <2>2. QED BY <1>1, <1>2, <1>9, <1>10, <2>1, WrittenOffEffect
<1>13. PositionMoves(p, position', borrower, 0, -(repaid + s), -seized)
  <2>1. PositionMoves(p, position', borrower, 0 + 0, (-repaid) + (-s), (-seized) + 0)
    BY <1>10, <1>11, PositionMovesTwice
  <2>2. 0 + 0 = 0 /\ (-repaid) + (-s) = -(repaid + s) /\ (-seized) + 0 = -seized
    BY <1>4
  <2>3. QED BY <2>1, <2>2
<1>14. MarketMoves(m, market', -bad, 0, -(b + bad), -(repaid + s))
  <2>1. 0 \in Int /\ -repaid \in Int /\ -s \in Int
    BY <1>4
  <2>2. MarketMoves(m, market', 0 + (-bad), 0 + 0, (-b) + (-bad), (-repaid) + (-s))
    BY <1>2, <1>9, <1>11, <2>1, MarketMovesTwice
  <2>3. /\ 0 + (-bad) = -bad /\ 0 + 0 = 0 /\ (-b) + (-bad) = -(b + bad)
        /\ (-repaid) + (-s) = -(repaid + s)
    BY <1>4, <1>7
  <2>4. QED BY <2>2, <2>3
<1>15. /\ TokensMove(a, -seized)
       /\ HeldIn(balance', calls', "loan") = HeldIn(balance, calls, "loan") + a
  <2> DEFINE lent == Transferred(balance, "collateral", MorphoAddress, sender, seized)
  <2>1. lent \in Balances
    BY <1>1, <1>4, PartTypes, TransferredTypes DEF Holders
  <2>2. \A tok \in {"loan", "collateral"} :
          HeldIn(lent, calls, tok)
            = HeldIn(balance, calls, tok) - (IF tok = "collateral" THEN seized ELSE 0)
    BY <1>4, PartTypes, PaidHeld
  <2>3. \A tok \in {"loan", "collateral"} :
          HeldIn(balance', calls', tok)
            = HeldIn(lent, calls, tok) + (IF tok = "loan" THEN a ELSE 0)
    BY <1>1, <1>5, <2>1, PartTypes, CollectHeld
  <2> HIDE DEF lent
  <2>4. QED BY <1>4, <1>5, <2>2, <2>3, HeldNat DEF TokensMove
<1>16. DebtorsKept(m, market')
  <2>1. market' \in Totals
    <3>1. MorphoInv'
      BY LiquidateKeeps
    <3>2. QED BY <3>1 DEF MorphoInv, TypeOK
  <2>2. market'.totalBorrowAssets <= rest.totalBorrowAssets
    <3>1. rest.totalBorrowAssets \in Int
      BY <1>9 DEF Integral
    <3>2. QED BY <1>11, <3>1 DEF MarketMoves
  <2>3. QED BY <1>2, <1>9, <1>12, <2>1, <2>2, PricesKeptTwice
<1>17. position'[borrower].collateral = pos[borrower].collateral
  BY <1>2, <1>11 DEF PositionMoves, Shifted
<1>18. position'[borrower].collateral # 0 => SuppliersKept(m, market')
  BY <1>9, <1>12, <1>17
<1>19. Effect(borrower, 0, -(repaid + s), -seized, -bad, -(b + bad), a)
  BY <1>13, <1>14, <1>15 DEF Effect, m, p
<1>20. repaid + s \in Nat
  BY <1>4
<1>21. PICK t \in Nat : t = repaid + s
  BY <1>20
<1>22. \E x \in Nat, c \in Nat, y \in Nat, z \in Nat, w \in Nat :
         /\ z <= y /\ PaidFor(c, y) /\ Effect(borrower, 0, -x, -c, -w, -(z + w), y)
         /\ HeldIn(balance', calls', "loan") = HeldIn(balance, calls, "loan") + y
  <2>1. /\ b <= a /\ PaidFor(seized, a) /\ Effect(borrower, 0, -t, -seized, -bad, -(b + bad), a)
        /\ HeldIn(balance', calls', "loan") = HeldIn(balance, calls, "loan") + a
    BY <1>6, <1>7, <1>15, <1>19, <1>21
  <2>2. seized \in Nat /\ a \in Nat /\ b \in Nat
    BY <1>4, <1>5, <1>7
  <2>3. QED BY <2>1, <2>2
<1>23. QED
  BY <1>1, <1>12, <1>16, <1>17, <1>18, <1>22 DEF m, p

-----------------------------------------------------------------------------
(* The kinds of steps.                                                      *)

(* It neither adds to the debt of an account nor takes its collateral.      *)
Spares(u, borrowShares, collateral) ==
  /\ borrowShares <= 0 /\ collateral >= 0
  /\ SuppliersKept(AccruedMarket, market')

(* It is refused unless the account is healthy afterwards, and takes no     *)
(* collateral of one that was not healthy before.                           *)
Examines(u, collateral) ==
  /\ IsHealthy(position', market', u)
  /\ collateral < 0 => IsHealthy(AccruedPosition, AccruedMarket, u)
  /\ SuppliersKept(AccruedMarket, market')

(* It takes collateral of an unhealthy account against payment, and with    *)
(* the last of it ends the debt, at the cost of the suppliers.              *)
Liquidates(u, borrowShares, collateral, loan) ==
  /\ u \in Users /\ borrowShares <= 0 /\ PaidFor(-collateral, loan)
  /\ HeldIn(balance', calls', "loan") = HeldIn(balance, calls, "loan") + loan
  /\ ~IsHealthy(AccruedPosition, AccruedMarket, u)
  /\ position'[u].collateral = 0 => position'[u].borrowShares = 0
  /\ position'[u].collateral # 0 => SuppliersKept(AccruedMarket, market')

(* An operation on one account of the market, after interest is accrued.    *)
MarketStep ==
  \E u \in Accounts, ss \in Int, bs \in Int, c \in Int, sa \in Int, ba \in Int, loan \in Int :
    /\ Effect(u, ss, bs, c, sa, ba, loan) /\ loan >= sa - ba
    /\ DebtorsKept(AccruedMarket, market')
    /\ Fits(AccruedMarket)
    /\ Spares(u, bs, c) \/ Examines(u, c) \/ Liquidates(u, bs, c, loan)

(* Collateral that comes in.                                                *)
CollateralStep ==
  \E u \in Accounts, c \in Nat :
    /\ PositionMoves(position, position', u, 0, 0, c)
    /\ TokensMove(0, c) /\ market' = market

(* Anything else only exchanges tokens for what is owed.                    *)
QuietStep == position' = position /\ market' = market /\ TokensMove(0, 0)

(* Where no tokens move.                                                    *)
LEMMA NoTokensMove ==
  ASSUME MorphoInv, UNCHANGED <<balance, calls>>
  PROVE  TokensMove(0, 0)
<1>1. HeldIn(balance, calls, "loan") \in Nat /\ HeldIn(balance, calls, "collateral") \in Nat
  BY HeldNat
<1>2. QED BY <1>1 DEF TokensMove, HeldIn

(* Accrual alone is such an operation.                                      *)
LEMMA AccrualStep ==
  ASSUME MorphoInv, Fits(AccruedMarket), position' = AccruedPosition,
         market' = AccruedMarket, UNCHANGED <<balance, calls>>
  PROVE  MarketStep
<1> DEFINE m == AccruedMarket
           p == AccruedPosition
<1>1. m \in Integral /\ m \in Totals /\ p \in [Accounts -> Positions] /\ ZeroAddress \in Accounts
  BY AccruedTotals DEF Accounts
<1>2. position' = p /\ market' = m
  OBVIOUS
<1> HIDE DEF m, p
<1>3. MarketMoves(m, market', 0, 0, 0, 0) /\ SuppliersKept(m, market') /\ DebtorsKept(m, market')
  BY <1>1, <1>2, StillMoves, StillKept
<1>4. PositionMoves(p, position', ZeroAddress, 0, 0, 0)
  BY <1>1, <1>2, MorphoAssumption DEF PositionMoves, Shifted, Positions
<1>5. Effect(ZeroAddress, 0, 0, 0, 0, 0, 0)
  BY <1>3, <1>4, NoTokensMove DEF Effect, m, p
<1>6. Spares(ZeroAddress, 0, 0)
  BY <1>3 DEF Spares, m
<1>7. 0 \in Int /\ 0 >= 0 - 0
  OBVIOUS
<1>8. QED BY <1>1, <1>3, <1>5, <1>6, <1>7 DEF MarketStep, m

(* An operation is one of the kinds.                                        *)
LEMMA CallMarketSteps ==
  ASSUME MorphoInv, CallMarket
  PROVE  MarketStep \/ CollateralStep
<1>1. PICK sender \in Users, user \in Users, assets \in 0..MaxAssets :
        \/ \E shares \in 0..MaxShares :
             \/ \E data \in Data :
                  \/ Supply(sender, assets, shares, user, data)
                  \/ Repay(sender, assets, shares, user, data)
                  \/ Liquidate(sender, user, assets, shares, data)
             \/ \E receiver \in Holders :
                  \/ Withdraw(sender, assets, shares, user, receiver)
                  \/ Borrow(sender, assets, shares, user, receiver)
        \/ \E data \in Data : SupplyCollateral(sender, assets, user, data)
        \/ \E receiver \in Holders : WithdrawCollateral(sender, assets, user, receiver)
  BY MorphoAssumption DEF CallMarket
<1>2. assets \in Nat /\ user \in Accounts /\ 0 \in Int
  BY MorphoAssumption DEF Accounts
<1>3. ASSUME NEW shares \in 0..MaxShares, NEW data, Supply(sender, assets, shares, user, data)
      PROVE  MarketStep
  <2>1. shares \in Nat /\ Fits(AccruedMarket)
    BY <1>3, MorphoAssumption DEF Supply
  <2>2. PICK a \in Nat, s \in Nat : Effect(user, s, 0, 0, a, 0, a)
    BY <1>2, <1>3, <2>1, SupplyEffect
  <2>3. SuppliersKept(AccruedMarket, market') /\ DebtorsKept(AccruedMarket, market')
    BY <1>2, <1>3, <2>1, SupplyEffect DEF PricesKept
  <2>4. Spares(user, 0, 0)
    BY <2>3 DEF Spares
  <2>5. a \in Int /\ s \in Int /\ a >= a - 0
    OBVIOUS
  <2>6. QED BY <1>2, <2>1, <2>2, <2>3, <2>4, <2>5 DEF MarketStep
<1>4. ASSUME NEW shares \in 0..MaxShares, NEW data, Repay(sender, assets, shares, user, data)
      PROVE  MarketStep
  <2>1. shares \in Nat /\ Fits(AccruedMarket)
    BY <1>4, MorphoAssumption DEF Repay
  <2>2. PICK a \in Nat, b \in Nat, s \in Nat : b <= a /\ Effect(user, 0, -s, 0, 0, -b, a)
    BY <1>2, <1>4, <2>1, RepayEffect
  <2>3. SuppliersKept(AccruedMarket, market') /\ DebtorsKept(AccruedMarket, market')
    BY <1>2, <1>4, <2>1, RepayEffect DEF PricesKept
  <2>4. -s \in Int /\ -s <= 0 /\ -b \in Int /\ a \in Int /\ a >= 0 - (-b)
    BY <2>2
  <2>5. Spares(user, -s, 0)
    BY <2>3, <2>4 DEF Spares
  <2>6. QED BY <1>2, <2>1, <2>2, <2>3, <2>4, <2>5 DEF MarketStep
<1>5. ASSUME NEW shares \in 0..MaxShares, NEW data,
             Liquidate(sender, user, assets, shares, data)
      PROVE  MarketStep
  <2>1. shares \in Nat /\ Fits(AccruedMarket)
    BY <1>5, MorphoAssumption DEF Liquidate
  <2>2. PICK s \in Nat, c \in Nat, a \in Nat, b \in Nat, bad \in Nat :
          /\ b <= a /\ PaidFor(c, a) /\ Effect(user, 0, -s, -c, -bad, -(b + bad), a)
          /\ HeldIn(balance', calls', "loan") = HeldIn(balance, calls, "loan") + a
    BY <1>2, <1>5, <2>1, LiquidateEffect
  <2>3. -s \in Int /\ -s <= 0 /\ -c \in Int /\ -bad \in Int /\ -(b + bad) \in Int /\ a \in Int
        /\ a >= (-bad) - (-(b + bad)) /\ -(-c) = c
    BY <2>2
  <2>4. DebtorsKept(AccruedMarket, market') /\ Liquidates(user, -s, -c, a)
    BY <1>2, <1>5, <2>1, <2>2, <2>3, LiquidateEffect DEF Liquidates
  <2>5. QED BY <1>2, <2>1, <2>2, <2>3, <2>4 DEF MarketStep
<1>6. ASSUME NEW shares \in 0..MaxShares, NEW receiver \in Holders,
             Withdraw(sender, assets, shares, user, receiver)
      PROVE  MarketStep
  <2>1. shares \in Nat /\ Fits(AccruedMarket)
    BY <1>6, MorphoAssumption DEF Withdraw
  <2>2. PICK a \in Nat, s \in Nat : Effect(user, -s, 0, 0, -a, 0, -a)
    BY <1>2, <1>6, <2>1, WithdrawEffect
  <2>3. SuppliersKept(AccruedMarket, market') /\ DebtorsKept(AccruedMarket, market')
    BY <1>2, <1>6, <2>1, WithdrawEffect DEF PricesKept
  <2>4. Spares(user, 0, 0)
    BY <2>3 DEF Spares
  <2>5. -a \in Int /\ -s \in Int /\ -a >= (-a) - 0
    OBVIOUS
  <2>6. QED BY <1>2, <2>1, <2>2, <2>3, <2>4, <2>5 DEF MarketStep
<1>7. ASSUME NEW shares \in 0..MaxShares, NEW receiver \in Holders,
             Borrow(sender, assets, shares, user, receiver)
      PROVE  MarketStep
  <2>1. shares \in Nat /\ Fits(AccruedMarket)
    BY <1>7, MorphoAssumption DEF Borrow
  <2>2. PICK a \in Nat, s \in Nat : Effect(user, 0, s, 0, 0, a, -a)
    BY <1>2, <1>7, <2>1, BorrowEffect
  <2>3. DebtorsKept(AccruedMarket, market') /\ Examines(user, 0)
    BY <1>2, <1>7, <2>1, BorrowEffect DEF PricesKept, Examines
  <2>4. -a \in Int /\ a \in Int /\ s \in Int /\ -a >= 0 - a
    OBVIOUS
  <2>5. QED BY <1>2, <2>1, <2>2, <2>3, <2>4 DEF MarketStep
<1>8. ASSUME NEW data, SupplyCollateral(sender, assets, user, data)
      PROVE  CollateralStep
  BY <1>2, <1>8, SupplyCollateralEffect DEF CollateralStep
<1>9. ASSUME NEW receiver \in Holders,
             WithdrawCollateral(sender, assets, user, receiver)
      PROVE  MarketStep
  <2>1. Fits(AccruedMarket)
    BY <1>9 DEF WithdrawCollateral
  <2>2. Effect(user, 0, 0, -assets, 0, 0, 0)
    BY <1>2, <1>9, <2>1, WithdrawCollateralEffect
  <2>3. DebtorsKept(AccruedMarket, market') /\ Examines(user, -assets)
    BY <1>2, <1>9, <2>1, WithdrawCollateralEffect DEF PricesKept, Examines
  <2>4. -assets \in Int /\ 0 >= 0 - 0
    BY <1>2
  <2>5. QED BY <1>2, <2>1, <2>2, <2>3, <2>4 DEF MarketStep
<1>10. QED BY <1>1, <1>3, <1>4, <1>5, <1>6, <1>7, <1>8, <1>9

(* So is every step.                                                        *)
LEMMA Steps ==
  ASSUME MorphoInv, [Next]_vars
  PROVE  MarketStep \/ CollateralStep \/ QuietStep
<1>1. CASE CallMarket
  BY <1>1, CallMarketSteps
<1>2. CASE CallOther
  <2>1. ASSUME NEW sender \in Users, NEW token \in {"loan", "collateral"},
               NEW assets \in 1..MaxAssets, FlashLoan(sender, token, assets)
        PROVE  QuietStep
    <3>1. assets \in Nat
      BY MorphoAssumption
    <3>2. TokensMove(0, 0)
      BY <2>1, <3>1, FlashLoanEffect
    <3>3. QED BY <2>1, <3>2 DEF FlashLoan, QuietStep
  <2>2. ASSUME NEW grant \in Grants, SetAuthorization(grant[1], grant[2])
        PROVE  QuietStep
    BY <2>2, NoTokensMove DEF SetAuthorization, QuietStep
  <2>3. ASSUME AccrueInterest \/ \E newFee \in Fees : SetFee(newFee)
        PROVE  MarketStep
    BY <2>3, AccrualStep DEF AccrueInterest, SetFee
  <2>4. ASSUME NEW newFeeRecipient \in FeeRecipients, SetFeeRecipient(newFeeRecipient)
        PROVE  QuietStep
    BY <2>4, NoTokensMove DEF SetFeeRecipient, QuietStep
  <2>5. ASSUME EndCallback
        PROVE  QuietStep
    BY <2>5, EndCallbackEffect DEF EndCallback, QuietStep
  <2>6. QED BY <1>2, <2>1, <2>2, <2>3, <2>4, <2>5 DEF CallOther
<1>3. CASE Environment
  <2>1. UNCHANGED <<position, market, balance, calls>>
    BY <1>3 DEF Environment, TimePasses, SetPrice
  <2>2. QED BY <2>1, NoTokensMove DEF QuietStep
<1>4. CASE UNCHANGED vars
  <2>1. UNCHANGED <<position, market, balance, calls>>
    BY <1>4 DEF vars
  <2>2. QED BY <2>1, NoTokensMove DEF QuietStep
<1>5. QED BY <1>1, <1>2, <1>3, <1>4 DEF Next

-----------------------------------------------------------------------------
(* The invariant of the accounts.                                           *)

AccountsInv == MorphoInv /\ Sound(position, market, balance, calls) /\ DebtHasCollateral

(* At first nothing is held in the market.                                  *)
LEMMA InitAccounts == Init => AccountsInv
<1> SUFFICES ASSUME Init PROVE AccountsInv
  OBVIOUS
<1>1. MorphoInv
  BY InitMorphoInv
<1>2. ASSUME NEW field \in Fields PROVE Total(position, field) = 0
  <2> DEFINE f == [u \in Accounts |-> position[u][field]]
  <2>1. \A u \in Accounts : f[u] = 0
    BY DEF Init, Fields
  <2>2. SumFunctionOnSet(f, Accounts) = 0
    BY <2>1, AccountsFinite, SumZero
  <2>3. QED BY <2>2 DEF Total
<1>3. ASSUME NEW token PROVE OwedIn(calls, token) = 0
  <2>1. calls = <<>> /\ DOMAIN calls = {}
    BY DEF Init
  <2>2. QED BY <2>1, SumEmpty DEF OwedIn
<1>4. HeldIn(balance, calls, "loan") = OtherMarkets /\ HeldIn(balance, calls, "collateral") = 0
  <2>1. MorphoAddress \in Holders /\ MorphoAddress \notin Users /\ OtherMarkets \in Nat
    BY MorphoAssumption DEF Holders
  <2>2. balance["loan"][MorphoAddress] = OtherMarkets /\ balance["collateral"][MorphoAddress] = 0
    BY <2>1 DEF Init
  <2>3. QED BY <1>3, <2>1, <2>2 DEF HeldIn
<1>5. market.totalSupplyAssets = 0 /\ market.totalSupplyShares = 0
      /\ market.totalBorrowAssets = 0 /\ market.totalBorrowShares = 0 /\ OtherMarkets \in Nat
  BY MorphoAssumption DEF Init
<1>6. Sound(position, market, balance, calls)
  BY <1>2, <1>4, <1>5 DEF Sound, Fields
<1>7. DebtHasCollateral
  BY DEF Init, DebtHasCollateral
<1>8. QED BY <1>1, <1>6, <1>7 DEF AccountsInv

(* Totals, positions and tokens move together.                              *)
LEMMA StepsSound ==
  ASSUME MorphoInv, Sound(position, market, balance, calls),
         MarketStep \/ CollateralStep \/ QuietStep
  PROVE  Sound(position', market', balance', calls')
<1>1. CASE MarketStep
  <2> DEFINE m == AccruedMarket
             p == AccruedPosition
  <2>1. PICK u \in Accounts, ss \in Int, bs \in Int, c \in Int, sa \in Int, ba \in Int,
             loan \in Int :
          Effect(u, ss, bs, c, sa, ba, loan) /\ loan >= sa - ba /\ Fits(m)
    BY <1>1 DEF MarketStep
  <2>2. m \in Integral /\ p \in [Accounts -> Positions] /\ Sound(p, m, balance, calls)
    BY <2>1, AccruedTotals, AccruedSound
  <2>3. /\ PositionMoves(p, position', u, ss, bs, c)
        /\ MarketMoves(m, market', sa, ss, ba, bs) /\ TokensMove(loan, c)
    BY <2>1 DEF Effect
  <2> HIDE DEF m, p
  <2>4. QED BY <2>1, <2>2, <2>3, MovesSound
<1>2. CASE CollateralStep
  <2>1. PICK u \in Accounts, c \in Nat :
          /\ PositionMoves(position, position', u, 0, 0, c)
          /\ TokensMove(0, c) /\ market' = market
    BY <1>2 DEF CollateralStep
  <2>2. market \in Integral /\ position \in [Accounts -> Positions]
    BY PartTypes
  <2>3. MarketMoves(market, market', 0, 0, 0, 0) /\ 0 >= 0 - 0
    BY <2>1, <2>2, StillMoves
  <2>4. QED BY <2>1, <2>2, <2>3, MovesSound
<1>3. CASE QuietStep
  <2>1. market \in Integral /\ position \in [Accounts -> Positions]
    BY PartTypes
  <2>2. UNCHANGED <<position, market>> /\ TokensMove(0, 0)
    BY <1>3 DEF QuietStep
  <2>3. PositionMoves(position, position', ZeroAddress, 0, 0, 0)
    BY <2>1, <2>2, MorphoAssumption DEF PositionMoves, Shifted, Positions, Accounts
  <2>4. MarketMoves(market, market', 0, 0, 0, 0) /\ 0 >= 0 - 0 /\ 0 \in Int
    BY <2>1, <2>2, StillMoves
  <2>5. QED BY <2>1, <2>2, <2>3, <2>4, MovesSound
<1>4. QED BY <1>1, <1>2, <1>3

(* The accounts that an operation leaves alone, and the one it acts for.    *)
LEMMA MovedAccounts ==
  ASSUME NEW pos \in [Accounts -> Positions], NEW after, NEW u \in Accounts,
         NEW ss, NEW bs, NEW c, PositionMoves(pos, after, u, ss, bs, c), NEW v \in Accounts
  PROVE  /\ pos[v].borrowShares \in Nat /\ pos[v].collateral \in Nat
         /\ v # u => /\ after[v].borrowShares = pos[v].borrowShares
                     /\ after[v].collateral = pos[v].collateral
         /\ v = u => /\ after[v].borrowShares = pos[v].borrowShares + bs
                     /\ after[v].collateral = pos[v].collateral + c
BY MorphoAssumption DEF PositionMoves, Shifted, Positions

(* No debt is left without collateral.                                      *)
LEMMA StepsKeepCollateral ==
  ASSUME MorphoInv, MorphoInv', DebtHasCollateral, MarketStep \/ CollateralStep \/ QuietStep
  PROVE  DebtHasCollateral'
<1>1. position' \in [Accounts -> Positions] /\ market' \in Totals
  BY DEF MorphoInv, TypeOK
<1>2. position \in [Accounts -> Positions]
  BY PartTypes
<1>3. CASE MarketStep
  <2> DEFINE p == AccruedPosition
  <2>1. PICK u \in Accounts, ss \in Int, bs \in Int, c \in Int, sa \in Int, ba \in Int,
             loan \in Int :
          /\ Effect(u, ss, bs, c, sa, ba, loan)
          /\ Spares(u, bs, c) \/ Examines(u, c) \/ Liquidates(u, bs, c, loan)
    BY <1>3 DEF MarketStep
  <2>2. /\ p \in [Accounts -> Positions]
        /\ \A v \in Accounts : /\ p[v].borrowShares = position[v].borrowShares
                               /\ p[v].collateral = position[v].collateral
    BY AccruedTypes
  <2>3. PositionMoves(p, position', u, ss, bs, c)
    BY <2>1 DEF Effect
  <2> HIDE DEF p
  <2>4. ASSUME NEW v \in Accounts, position'[v].borrowShares > 0
        PROVE  position'[v].collateral > 0
    <3>1. /\ p[v].borrowShares \in Nat /\ p[v].collateral \in Nat
          /\ p[v].borrowShares > 0 => p[v].collateral > 0
      BY <1>2, <2>2, <2>3, MovedAccounts DEF DebtHasCollateral
    <3>2. CASE v # u
      BY <2>2, <2>3, <2>4, <3>1, <3>2, MovedAccounts
    <3>3. CASE v = u /\ Spares(u, bs, c)
      <4>1. /\ position'[v].borrowShares = p[v].borrowShares + bs
            /\ position'[v].collateral = p[v].collateral + c
        BY <2>2, <2>3, <3>3, MovedAccounts
      <4>2. bs <= 0 /\ c >= 0
        BY <3>3 DEF Spares
      <4>3. QED BY <2>4, <3>1, <4>1, <4>2
    <3>4. CASE v = u /\ Examines(u, c)
      <4>1. IsHealthy(position', market', v)
        BY <3>4 DEF Examines
      <4> DEFINE q == position'
                 n == market'
      <4>2. /\ q \in [Accounts -> Positions] /\ n \in Totals
            /\ IsHealthy(q, n, v) /\ q[v].borrowShares > 0
        BY <1>1, <2>4, <4>1
      <4> HIDE DEF q, n
      <4>3. q[v].collateral > 0
        BY <4>2, HealthMeans
      <4>4. QED BY <4>3 DEF q
    <3>5. CASE v = u /\ Liquidates(u, bs, c, loan)
      <4>1. position'[v].collateral # 0 /\ position'[v].collateral \in Nat
        BY <1>1, <2>4, <3>5, MorphoAssumption DEF Liquidates, Positions
      <4>2. QED BY <4>1
    <3>6. QED BY <2>1, <3>2, <3>3, <3>4, <3>5
  <2>5. QED BY <2>4 DEF DebtHasCollateral
<1>4. CASE CollateralStep
  <2>1. PICK u \in Accounts, c \in Nat : PositionMoves(position, position', u, 0, 0, c)
    BY <1>4 DEF CollateralStep
  <2>2. \A v \in Accounts : /\ position'[v].borrowShares = position[v].borrowShares
                            /\ position'[v].collateral >= position[v].collateral
                            /\ position[v].borrowShares \in Nat /\ position[v].collateral \in Nat
    BY <1>2, <2>1, MovedAccounts
  <2>3. \A v \in Accounts : position'[v].collateral \in Nat
    BY <1>1, MorphoAssumption DEF Positions
  <2>4. QED BY <2>2, <2>3 DEF DebtHasCollateral
<1>5. CASE QuietStep
  BY <1>5 DEF QuietStep, DebtHasCollateral
<1>6. QED BY <1>3, <1>4, <1>5

(* Every step keeps the invariant of the accounts.                          *)
LEMMA NextAccounts == AccountsInv /\ [Next]_vars => AccountsInv'
<1> SUFFICES ASSUME AccountsInv, [Next]_vars PROVE AccountsInv'
  OBVIOUS
<1>1. MorphoInv /\ MorphoInv'
  BY NextMorphoInv DEF AccountsInv
<1>2. MarketStep \/ CollateralStep \/ QuietStep
  BY <1>1, Steps
<1>3. Sound(position', market', balance', calls')
  BY <1>1, <1>2, StepsSound DEF AccountsInv
<1>4. DebtHasCollateral'
  BY <1>1, <1>2, StepsKeepCollateral DEF AccountsInv
<1>5. Sound(position, market, balance, calls)'
  BY <1>3
<1>6. QED BY <1>1, <1>4, <1>5 DEF AccountsInv

(* The totals of the market are the sums of the positions: every operation  *)
(* moves both alike, the shares of fees and of bad debt included.           *)
THEOREM TotalsKept == Spec => []TotalsMatchPositions
<1>1. Spec => []AccountsInv
  BY InitAccounts, NextAccounts, PTL DEF Spec
<1>2. AccountsInv => TotalsMatchPositions
  BY SoundTerms DEF AccountsInv
<1>3. QED BY <1>1, <1>2, PTL

(* The contract holds, or is owed by open callbacks, the tokens that are    *)
(* supplied and not lent, and all collateral.                               *)
THEOREM TokensBacked == Spec => []Backed
<1>1. Spec => []AccountsInv
  BY InitAccounts, NextAccounts, PTL DEF Spec
<1>2. AccountsInv => Backed
  BY SoundTerms DEF AccountsInv
<1>3. QED BY <1>1, <1>2, PTL

(* No account owes anything without collateral: what may lower it or raise  *)
(* the debt is refused, or written off.                                     *)
THEOREM DebtsCovered == Spec => []DebtHasCollateral
<1>1. Spec => []AccountsInv
  BY InitAccounts, NextAccounts, PTL DEF Spec
<1>2. AccountsInv => DebtHasCollateral
  BY DEF AccountsInv
<1>3. QED BY <1>1, <1>2, PTL

-----------------------------------------------------------------------------
(* What no step does.                                                       *)

PriceOrLoss == SuppliersKept(market, market') \/ SeizesAll

(* The price of a supply share falls only when the last collateral of a     *)
(* borrower is seized.                                                      *)
LEMMA StepsKeepPrice ==
  ASSUME AccountsInv, MorphoInv', MarketStep \/ CollateralStep \/ QuietStep
  PROVE  PriceOrLoss
<1>1. /\ MorphoInv /\ market \in Totals /\ market' \in Totals
      /\ position \in [Accounts -> Positions] /\ position' \in [Accounts -> Positions]
  BY PartTypes DEF AccountsInv, MorphoInv, TypeOK
<1> DEFINE n == market'
<1>2. ASSUME Fits(AccruedMarket), SuppliersKept(AccruedMarket, n)
      PROVE  SuppliersKept(market, n)
  <2> DEFINE m == AccruedMarket
  <2>1. m \in Totals /\ SuppliersKept(market, m) /\ n \in Totals /\ SuppliersKept(m, n)
    BY <1>1, <1>2, AccruedTotals, AccrualKeepsPrices
  <2> HIDE DEF m, n
  <2>2. QED BY <1>1, <2>1, PricesKeptTwice
<1>3. CASE MarketStep
  <2>1. PICK u \in Accounts, bs \in Int, c \in Int, loan \in Int :
          /\ Fits(AccruedMarket)
          /\ Spares(u, bs, c) \/ Examines(u, c) \/ Liquidates(u, bs, c, loan)
    BY <1>3 DEF MarketStep
  <2>2. CASE Spares(u, bs, c) \/ Examines(u, c)
    BY <1>2, <2>1, <2>2 DEF Spares, Examines, PriceOrLoss
  <2>3. CASE Liquidates(u, bs, c, loan) /\ position'[u].collateral # 0
    BY <1>2, <2>1, <2>3 DEF Liquidates, PriceOrLoss
  <2>4. CASE Liquidates(u, bs, c, loan) /\ position'[u].collateral = 0
    <3> DEFINE m == AccruedMarket
               p == AccruedPosition
    <3>1. /\ m \in Totals /\ p \in [Accounts -> Positions]
          /\ p[u].borrowShares = position[u].borrowShares
      BY <1>1, <2>1, AccruedTotals, AccruedTypes
    <3>2. u \in Users /\ ~IsHealthy(p, m, u) /\ position'[u].borrowShares = 0
      BY <2>4 DEF Liquidates
    <3> HIDE DEF m, p
    <3>3. p[u].borrowShares > 0
      BY <1>1, <3>1, <3>2, HealthMeans
    <3>4. position[u].borrowShares > 0 /\ position[u].collateral > 0
      BY <3>1, <3>3 DEF AccountsInv, DebtHasCollateral
    <3>5. QED BY <2>4, <3>2, <3>4 DEF PriceOrLoss, SeizesAll
  <2>5. QED BY <2>1, <2>2, <2>3, <2>4
<1>4. CASE CollateralStep \/ QuietStep
  BY <1>1, <1>4, StillKept DEF CollateralStep, QuietStep, PriceOrLoss
<1>5. QED BY <1>3, <1>4

(* No rounding of any operation favours its caller at the expense of the    *)
(* suppliers: only bad debt lowers the price of a share.                    *)
THEOREM PriceOfSharesKept == Spec => SharePriceKept
<1>1. AccountsInv /\ [Next]_vars => [PriceOrLoss]_vars
  <2> SUFFICES ASSUME AccountsInv, [Next]_vars PROVE PriceOrLoss
    OBVIOUS
  <2>1. MorphoInv /\ MorphoInv'
    BY NextMorphoInv DEF AccountsInv
  <2>2. QED BY <2>1, Steps, StepsKeepPrice
<1>2. [PriceOrLoss]_vars =>
        [\/ (market'.totalSupplyAssets + VIRTUAL_ASSETS)
              * (market.totalSupplyShares + VIRTUAL_SHARES)
             >= (market.totalSupplyAssets + VIRTUAL_ASSETS)
                  * (market'.totalSupplyShares + VIRTUAL_SHARES)
         \/ SeizesAll]_vars
  BY DEF PriceOrLoss, SuppliersKept, NotBelow
<1>3. QED BY <1>1, <1>2, InitAccounts, NextAccounts, PTL DEF Spec, SharePriceKept

(* Without interest and at the same price of the collateral, a healthy      *)
(* account stays healthy.                                                   *)
LEMMA StepsKeepHealth ==
  ASSUME AccountsInv, AccountsInv', MarketStep \/ CollateralStep \/ QuietStep, growth = 0,
         NEW v \in Accounts, IsHealthy(position, market, v)
  PROVE  IsHealthy(position', market', v)
<1> DEFINE q == position'
           n == market'
<1>1. /\ MorphoInv /\ market \in Totals /\ position \in [Accounts -> Positions]
      /\ n \in Totals /\ q \in [Accounts -> Positions]
  BY PartTypes DEF AccountsInv, MorphoInv, TypeOK
<1>2. q[v].borrowShares <= n.totalBorrowShares
  <2>1. n.totalBorrowShares = Total(q, "borrowShares")
    BY DEF AccountsInv, Sound
  <2> HIDE DEF q, n
  <2>2. QED BY <1>1, <2>1, TotalNat DEF Fields
<1>3. CASE MarketStep
  <2>1. AccruedMarket = market /\ AccruedPosition = position
    BY <1>1, NoGrowth
  <2>2. PICK u \in Accounts, ss \in Int, bs \in Int, c \in Int, loan \in Int :
          /\ PositionMoves(position, q, u, ss, bs, c)
          /\ DebtorsKept(market, n)
          /\ Spares(u, bs, c) \/ Examines(u, c) \/ Liquidates(u, bs, c, loan)
    BY <1>3, <2>1 DEF MarketStep, Effect
  <2>3. CASE u = v /\ Examines(u, c)
    BY <2>3 DEF Examines
  <2>4. CASE u = v /\ Liquidates(u, bs, c, loan)
    BY <2>1, <2>4 DEF Liquidates
  <2>5. CASE u # v \/ Spares(u, bs, c)
    <3>1. u # v \/ (bs <= 0 /\ c >= 0)
      BY <2>5 DEF Spares
    <3> HIDE DEF q, n
    <3>2. /\ q[v].borrowShares <= position[v].borrowShares
          /\ q[v].collateral >= position[v].collateral
      <4>1. position[v].borrowShares \in Nat /\ position[v].collateral \in Nat
        BY <1>1, <2>2, MovedAccounts
      <4>2. CASE u # v
        BY <1>1, <2>2, <4>1, <4>2, MovedAccounts
      <4>3. CASE u = v /\ bs <= 0 /\ c >= 0
        BY <1>1, <2>2, <4>1, <4>3, MovedAccounts
      <4>4. QED BY <3>1, <4>2, <4>3
    <3>3. IsHealthy(q, n, v)
      BY <1>1, <1>2, <2>2, <3>2, HealthCarried
    <3>4. QED BY <3>3 DEF q, n
  <2>6. QED BY <2>2, <2>3, <2>4, <2>5
<1>4. CASE CollateralStep
  <2>1. PICK u \in Accounts, c \in Nat : PositionMoves(position, q, u, 0, 0, c) /\ n = market
    BY <1>4 DEF CollateralStep
  <2> HIDE DEF q, n
  <2>2. /\ q[v].borrowShares <= position[v].borrowShares
        /\ q[v].collateral >= position[v].collateral
    BY <1>1, <2>1, MovedAccounts
  <2>3. DebtorsKept(market, n)
    BY <1>1, <2>1, StillKept
  <2>4. IsHealthy(q, n, v)
    BY <1>1, <1>2, <2>2, <2>3, HealthCarried
  <2>5. QED BY <2>4 DEF q, n
<1>5. CASE QuietStep
  BY <1>5 DEF QuietStep
<1>6. QED BY <1>3, <1>4, <1>5

(* No operation of anybody, on any position, makes a healthy position       *)
(* unhealthy: rounding never makes a debt of others dearer, and what acts   *)
(* on a position looks at its health.                                       *)
THEOREM HealthOfOthersKept == Spec => HealthKept
<1>1. AccountsInv /\ [Next]_vars =>
        [growth = 0 /\ price' = price =>
           \A u \in Users : IsHealthy(position, market, u) => IsHealthy(position', market', u)]_vars
  <2> SUFFICES ASSUME AccountsInv, [Next]_vars, growth = 0,
                      NEW u \in Users, IsHealthy(position, market, u)
               PROVE  IsHealthy(position', market', u)
    OBVIOUS
  <2>1. MorphoInv /\ AccountsInv' /\ u \in Accounts
    BY NextAccounts DEF AccountsInv, Accounts
  <2>2. QED BY <2>1, Steps, StepsKeepHealth
<1>2. QED BY <1>1, InitAccounts, NextAccounts, PTL DEF Spec, HealthKept

-----------------------------------------------------------------------------
(* The suppliers together.                                                  *)

(* What each of several owners of all s shares is worth, rounded down, adds *)
(* up to no more than the assets.                                           *)
LEMMA SharesWorth ==
  ASSUME NEW shares \in [Accounts -> Nat], NEW a \in Nat,
         NEW s, s = SumFunctionOnSet(shares, Accounts)
  PROVE  SumFunctionOnSet([u \in Accounts |-> ToAssetsDown(shares[u], a, s)], Accounts) <= a
<1> DEFINE worth == [u \in Accounts |-> ToAssetsDown(shares[u], a, s)]
<1>1. IsFiniteSet(Accounts) /\ s \in Nat
  <2>1. \A u \in Accounts : shares[u] \in Nat
    OBVIOUS
  <2>2. QED BY <2>1, AccountsFinite, SumNat
<1>2. PICK A \in Nat \ {0}, S \in Nat \ {0} : A = a + 1 /\ S = s + VIRTUAL_SHARES /\ S > s
  <2>1. a + 1 \in Nat \ {0} /\ s + VIRTUAL_SHARES \in Nat \ {0} /\ s + VIRTUAL_SHARES > s
    BY <1>1, MorphoAssumption
  <2>2. QED BY <2>1
<1>3. \A u \in Accounts : /\ shares[u] \in Nat /\ worth[u] \in Nat
                          /\ worth[u] * S <= shares[u] * A
  <2>1. ASSUME NEW u \in Accounts
        PROVE  /\ shares[u] \in Nat /\ ToAssetsDown(shares[u], a, s) \in Nat
               /\ ToAssetsDown(shares[u], a, s) * S <= shares[u] * A
    BY <1>1, <1>2, ConversionNat, ConversionBounds DEF VIRTUAL_ASSETS
  <2>2. QED BY <2>1
<1> HIDE DEF worth
<1>4. PICK w \in Nat : w = SumFunctionOnSet(worth, Accounts)
  BY <1>1, <1>3, SumNat
<1>5. w * S <= s * A
  BY <1>1, <1>2, <1>3, <1>4, SumScaled
<1>6. w <= a
  <2>1. SUFFICES ASSUME A <= w PROVE FALSE
    BY <1>2
  <2>2. A * S <= w * S
    BY <2>1, ProductOrder
  <2>3. PICK d \in Nat \ {0} : S = s + d
    <3>1. S - s \in Nat \ {0} /\ S = s + (S - s)
      BY <1>1, <1>2
    <3>2. QED BY <3>1
  <2>4. A * S = s * A + A * d /\ s * A \in Nat
    BY <1>1, <2>3
  <2>5. A * d \in Nat \ {0}
    OBVIOUS
  <2>6. w * S \in Nat /\ A * S \in Nat
    OBVIOUS
  <2>7. QED BY <1>5, <2>2, <2>4, <2>5, <2>6
<1>7. QED BY <1>4, <1>6 DEF worth

(* What the suppliers can claim together is held or lent, and no tokens of  *)
(* other markets are needed: the totals are the sums of the positions, and  *)
(* what is held covers what is supplied and not lent.                       *)
THEOREM SuppliersAreCovered == Spec => []SuppliersCovered
<1>1. Spec => []AccountsInv
  BY InitAccounts, NextAccounts, PTL DEF Spec
<1>2. AccountsInv => SuppliersCovered
  <2> SUFFICES ASSUME AccountsInv PROVE SuppliersCovered
    OBVIOUS
  <2> DEFINE shares == [u \in Accounts |-> position[u].supplyShares]
             claims == [u \in Accounts |-> ToAssetsDown(shares[u], market.totalSupplyAssets,
                                                        market.totalSupplyShares)]
  <2>1. /\ market.totalSupplyAssets \in Nat /\ market.totalBorrowAssets \in Nat
        /\ OtherMarkets \in Nat /\ shares \in [Accounts -> Nat]
    BY PartTypes, MorphoAssumption DEF AccountsInv, Totals, Positions
  <2>2. market.totalSupplyShares = SumFunctionOnSet(shares, Accounts)
    BY DEF AccountsInv, Sound, Total
  <2>3. SumFunctionOnSet(claims, Accounts) <= market.totalSupplyAssets
    BY <2>1, <2>2, SharesWorth
  <2>4. SumFunctionOnSet(claims, Accounts) \in Int
    <3>1. \A u \in Accounts : shares[u] \in Nat
      BY <2>1
    <3>2. market.totalSupplyShares \in Nat
      BY <2>2, <3>1, AccountsFinite, SumNat
    <3> HIDE DEF shares
    <3>3. \A u \in Accounts : claims[u] \in Int
      <4>1. ASSUME NEW u \in Accounts
            PROVE  ToAssetsDown(shares[u], market.totalSupplyAssets, market.totalSupplyShares)
                     \in Nat
        BY <2>1, <3>1, <3>2, ConversionNat
      <4>2. QED BY <4>1
    <3> HIDE DEF claims
    <3>4. QED BY <3>3, AccountsFinite, SumType
  <2>5. claims = [u \in Accounts |-> SuppliedAssets(u)]
    BY DEF SuppliedAssets
  <2>6. HeldIn(balance, calls, "loan") = balance.loan[MorphoAddress] + Owed("loan")
    BY DEF HeldIn, OwedIn, OwedBy, Owed
  <2>7. /\ HeldIn(balance, calls, "loan") \in Nat
        /\ HeldIn(balance, calls, "loan")
             >= OtherMarkets + market.totalSupplyAssets - market.totalBorrowAssets
    BY HeldNat DEF AccountsInv, Sound
  <2> HIDE DEF claims, shares
  <2>8. QED BY <2>1, <2>3, <2>4, <2>5, <2>6, <2>7 DEF SuppliersCovered
<1>3. QED BY <1>1, <1>2, PTL

-----------------------------------------------------------------------------
(* Seizures.                                                                *)

(* Whoever is unhealthy loses collateral only to a liquidator, which pays.  *)
LEMMA StepsPaySeizures ==
  ASSUME MorphoInv, MarketStep \/ CollateralStep \/ QuietStep,
         NEW v \in Accounts, ~IsHealthy(AccruedPosition, AccruedMarket, v),
         position'[v].collateral < position[v].collateral
  PROVE  PaidFor(position[v].collateral - position'[v].collateral,
                 HeldIn(balance', calls', "loan") - HeldIn(balance, calls, "loan"))
<1>1. position \in [Accounts -> Positions]
  BY PartTypes
<1>2. CASE MarketStep
  <2> DEFINE p == AccruedPosition
  <2>1. PICK u \in Accounts, ss \in Int, bs \in Int, c \in Int, sa \in Int, ba \in Int,
             loan \in Int :
          /\ Effect(u, ss, bs, c, sa, ba, loan)
          /\ Spares(u, bs, c) \/ Examines(u, c) \/ Liquidates(u, bs, c, loan)
    BY <1>2 DEF MarketStep
  <2>2. p \in [Accounts -> Positions] /\ p[v].collateral = position[v].collateral
    BY AccruedTypes
  <2>3. PositionMoves(p, position', u, ss, bs, c) /\ TokensMove(loan, c)
    BY <2>1 DEF Effect
  <2> HIDE DEF p
  <2>4. /\ p[v].collateral \in Nat
        /\ v # u => position'[v].collateral = p[v].collateral
        /\ v = u => position'[v].collateral = p[v].collateral + c
    BY <2>2, <2>3, MovedAccounts
  <2>5. v = u /\ c < 0 /\ position[v].collateral - position'[v].collateral = -c
    BY <2>2, <2>4
  <2>6. /\ PaidFor(-c, loan)
        /\ HeldIn(balance', calls', "loan") = HeldIn(balance, calls, "loan") + loan
    BY <2>1, <2>5 DEF Spares, Examines, Liquidates
  <2>7. HeldIn(balance', calls', "loan") - HeldIn(balance, calls, "loan") = loan
    BY <2>1, <2>6, HeldNat
  <2>8. QED BY <2>5, <2>6, <2>7
<1>3. CASE CollateralStep
  <2>1. PICK u \in Accounts, c \in Nat : PositionMoves(position, position', u, 0, 0, c)
    BY <1>3 DEF CollateralStep
  <2>2. /\ position[v].collateral \in Nat
        /\ v # u => position'[v].collateral = position[v].collateral
        /\ v = u => position'[v].collateral = position[v].collateral + c
    BY <1>1, <2>1, MovedAccounts
  <2>3. QED BY <2>2
<1>4. CASE QuietStep
  <2>1. position[v].collateral \in Nat
    BY <1>1, MorphoAssumption DEF Positions
  <2>2. QED BY <1>4, <2>1 DEF QuietStep
<1>5. QED BY <1>2, <1>3, <1>4

(* A liquidator pays for all that it seizes, now or when its callback       *)
(* returns: whichever amount it names, the other is rounded against it, and *)
(* an unhealthy user loses collateral in no other way.                      *)
THEOREM SeizuresArePaid == Spec => SeizedIsPaid
<1>1. MorphoInv /\ [Next]_vars =>
        [\A u \in Users :
           Unhealthy(u) /\ position'[u].collateral < position[u].collateral =>
             (position[u].collateral - position'[u].collateral) * price * WAD
               <= (Collected' - Collected) * LiquidationIncentiveFactor * ORACLE_PRICE_SCALE]_vars
  <2> SUFFICES ASSUME MorphoInv, [Next]_vars, NEW u \in Users, Unhealthy(u),
                      position'[u].collateral < position[u].collateral
               PROVE  (position[u].collateral - position'[u].collateral) * price * WAD
                        <= (Collected' - Collected) * LiquidationIncentiveFactor
                             * ORACLE_PRICE_SCALE
    OBVIOUS
  <2>1. PaidFor(position[u].collateral - position'[u].collateral,
                HeldIn(balance', calls', "loan") - HeldIn(balance, calls, "loan"))
    BY Steps, StepsPaySeizures DEF Unhealthy, Accounts
  <2>2. /\ HeldIn(balance, calls, "loan") = Collected
        /\ HeldIn(balance', calls', "loan") = Collected'
    BY DEF HeldIn, OwedIn, OwedBy, Collected, Owed
  <2>3. QED BY <2>1, <2>2 DEF PaidFor
<1>2. QED BY <1>1, InitMorphoInv, NextMorphoInv, PTL DEF Spec, SeizedIsPaid

=============================================================================
