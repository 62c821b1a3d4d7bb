CONSTANTS
  alice = alice
  bob = bob
  Chains = {alice, bob}
  Times = {0, 1}
  MaxPosts = 2
  MaxEvents = 2
  MaxMessages = 1
  TypedKeys <- MistypedKeys
SPECIFICATION FairSpec
PROPERTY PostsDelivered
