CONSTANTS
  alice = alice
  bob = bob
  Chains = {alice, bob}
  Times = {0}
  MaxPosts = 2
  MaxEvents = 2
  MaxMessages = 1
  TypedKeys = {}
SPECIFICATION FairSpec
PROPERTY PostsDelivered
