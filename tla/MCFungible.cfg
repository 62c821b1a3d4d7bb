CONSTANTS
  alice = alice
  bob = bob
  c1 = c1
  c2 = c2
  Chains = {c1, c2}
  Owners = {alice, bob}
  Slots = {m1, m2}
  CreationChain = c1
  InitialAccounts <- MCInitialAccounts
  MaxAmount = 2
  OperationAmounts = {1, 2}
  MaxAuthorised = 3
SPECIFICATION Spec
INVARIANTS TypeOK OwnerAccounting SupplyConserved SpendingAuthorised
PROPERTY ImplementsLedger
SYMMETRY SlotSymmetry
CHECK_DEADLOCK FALSE
