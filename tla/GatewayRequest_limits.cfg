SPECIFICATION Spec
CONSTANTS
  r1 = r1  r2 = r2  r3 = r3  p1 = p1  w1 = w1  vk1 = vk1  pk1 = pk1  pk2 = pk2
  NoWallet = NoWallet
  NoRoute = NoRoute
  Requests = {r1, r2}
  Projects = {p1}
  Wallets = {w1}
  VirtualKeys = {vk1}
  ProviderKeys = {pk1, pk2}
  ProjectOf <- MCProjectOf
  WalletOf <- MCWalletOf
  Credit <- MCCredit
  KeyOf <- MCKeyOf
  VkLimit <- MCVkLimit
  Rank <- MCRank
  PkLimit <- MCPkLimit
  Budget <- MCBudget
  ReserveAmount = 1
  FixedCost = 1
  Costs = {2}
  MaxAttempts = 2
  Chat = {r1, r2}
  Streaming = {r2}
  OptedIn = {vk1}
  MaxFaults = 1
  MaxDrops = 1
  MaxToggles = 1
INVARIANTS
  TypeOK SlotsCounted SlotsReturned LeasesCounted PaidCallIsReserved
  ChargedOnlyForSuccess ReserveReturned DoneIsLogged
CHECK_DEADLOCK FALSE
