CONSTANTS
  alice = alice
  bob = bob
  Chains = {alice, bob}
  Times = {0, 1}
  MaxPosts = 2
  MaxEvents = 3
  MaxMessages = 1
  TypedKeys = {}
SPECIFICATION Spec
INVARIANTS TypeOK ReactionsFollowPosts ReceivedMatchesStream NewsNeverPanics IndexCountsPosts
SYMMETRY ChainSymmetry
