CONSTANTS
  alice = alice
  bob = bob
  Users = {alice, bob}
  ZeroAddress = zero
  MorphoAddress = morpho
  InitialLoan <- MCInitialLoan
  InitialCollateral <- MCInitialCollateral
  VIRTUAL_SHARES = 1
  OtherMarkets = 0
  WAD = 20
  ORACLE_PRICE_SCALE = 2
  MAX_UINT128 = 19
  LLTV = 16
  Prices = {3}
  Growths = {160}
  Fees = {5}
  MaxAssets = 2
  MaxShares = 1
  MaxDepth = 0
  Grants = {}
  FeeRecipients = {bob}
  Receivers = {alice, bob, morpho}
SPECIFICATION Spec
INVARIANTS TypeOK TotalsMatchPositions BorrowWithinSupply Backed SuppliersCovered
PROPERTIES SharePriceKept HealthKept SeizedIsPaid
