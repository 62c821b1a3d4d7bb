CONSTANTS
  Users = {"regular", "owner", "supplier", "borrower", "liquidator", "supplier2", "test contract"}
  ZeroAddress = "zero"
  MorphoAddress = "morpho"
  InitialLoan <- NoTokens
  InitialCollateral <- NoTokens
  OtherMarkets = 0
  VIRTUAL_SHARES = 1
  WAD = 100
  ORACLE_PRICE_SCALE = 100
  MAX_UINT128 = 1000000
  LLTV = 80
  Prices = {80, 100}
  Growths = {1, 2}
  Fees = {}
  MaxAssets = 0
  MaxShares = 0
  MaxDepth = 1
  Grants = {}
  FeeRecipients = {}
  Receivers = {}
  Unlimited = 1000000
  Signers = {"supplier", "borrower"}
  Deadlines = {1}
  MaxSignatures = 2
  MaxTimestamp = 2
  Owners = {"owner", "regular", "zero"}
  FirstOwner = "owner"
  Irms = {"irm", "zero"}
  Lltvs = {0, 80, 100}
  c1 = c1
  c2 = c2
  c3 = c3
  Chains = {c1, c2}
  NumValidators = 3
  Files <- ChainsFiles
  BigDiff = 2
  StaleAge = 0
  MaxBlocks = 2
  MaxDiverged = 1
  MaxClock = 2
  Keys = {k1, k2}
  Values = {x, y}
  NumPairs = 3
  NumDatabases = 3
  MaxApplications = 2
  Modulus = 8
  Amounts = {0, 3, 5}
  NativeChains = {c1, c2, c3}
  Creator = c1
  NativeOwners = {o1}
  InitialFunds <- OneNativeToken
  ChainFunds = 0
  NativeAmounts = {1}
  MaxBundles = 3
SPECIFICATION ToolsSpec
INVARIANTS FailuresExplained ChecksSeeLatestBlock PassedClean SignaturesUsedOnce HealthyMeansClose IssuesAreReal AgreeMeansSame WaysAgree SavesDecide DeployedWhereCredited
CHECK_DEADLOCK FALSE
