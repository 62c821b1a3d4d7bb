CONSTANTS
  alice = alice
  bob = bob
  Users = {alice, bob}
  ZeroAddress = zero
  MorphoAddress = morpho
  InitialLoan <- MCInitialLoanFew
  InitialCollateral <- MCInitialCollateral
  VIRTUAL_SHARES = 1
  OtherMarkets = 1
  WAD = 20
  ORACLE_PRICE_SCALE = 2
  MAX_UINT128 = 3
  LLTV = 16
  Prices = {1, 4}
  Growths = {}
  Fees = {}
  MaxAssets = 1
  MaxShares = 1
  MaxDepth = 1
  Grants <- MCGrants
  FeeRecipients = {}
  Receivers = {alice, bob}
SPECIFICATION Spec
INVARIANTS TotalsMatchPositions Backed DebtHasCollateral
