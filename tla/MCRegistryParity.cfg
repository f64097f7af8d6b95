\* Both registries under the same calls: three resolvers, a minimum stake
\* that moves between 0 and 2, slashes larger than the stake.  The legacy
\* contract: two orders, a token that reverts and one that returns false.  The factory: two escrows,
\* deposits of one or two units against a minimum of one.
SPECIFICATION MCSpec
CONSTANTS
  r1 = r1  r2 = r2  r3 = r3
  Accounts = {r1, r2, r3}
  NoAddress = NoAddress
  Registry = Registry
  Stakes = {0, 1, 2}
  InitialTokens <- MCTokens
  Ether = ETH
  StrictTokens = {USDC}
  LaxTokens = {LAX}
  Creators = {c1}
  Keys = {p1, p2}
  MinTimelock = 1
  MaxTimelock = 1
  MaxLegacy = 2
  LegacyEnd = 3
  NoToken = NoToken
  AllowanceTokens = {USDC}
  FreeTokens = {FREE}
  Locks = {p1, p2}
  MinDeposit = 1
  MaxDeposit = 1
  MaxValue = 2
  MinLock = 1
  MaxLock = 2
  MaxEscrows = 2
  FactoryEnd = 3
SYMMETRY Resolvers
INVARIANTS ContractsTypeOK ListsExact StakesBacked 
PROPERTIES LegacyFollowsV2
CHECK_DEADLOCK FALSE
