SPECIFICATION Spec
CONSTANTS
  r1 = r1  r2 = r2  r3 = r3  p1 = p1  w1 = w1  vk1 = vk1  pk1 = pk1  pk2 = pk2
  NoWallet = NoWallet
  NoRoute = NoRoute
  Requests = {r1, r2, r3}
  Projects = {p1}
  Wallets = {w1}
  VirtualKeys = {vk1}
  ProviderKeys = {pk1}
  ProjectOf <- MCProjectOf
  WalletOf <- MCWalletOf
  Credit <- MCCreditTwo
  KeyOf <- MCKeyOf
  VkLimit <- MCNoVkLimit
  Rank <- MCRank
  PkLimit <- MCNoPkLimit
  Budget <- MCBudget
  ReserveAmount = 1
  FixedCost = 1
  Costs = {0, 1}
  MaxAttempts = 1
  Chat = {r1}
  Streaming = {r3}
  OptedIn = {vk1}
  MaxFaults = 0
  MaxDrops = 1
  MaxToggles = 0
INVARIANTS
  WalletSolvent
PROPERTIES
  ImplementsContract
CHECK_DEADLOCK FALSE
