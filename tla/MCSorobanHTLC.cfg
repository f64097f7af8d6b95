\* The Stellar escrow: two orders, a payee that is the contract itself, an
\* admin that reconfigures at will, values on both sides of each bound.
SPECIFICATION FairSpec
CONSTANTS
  user = user  resolver = resolver  secret = secret  usdc = USDC
  Accounts = {user, resolver}
  Contract = Contract
  NoAddress = NoAddress
  Assets = {USDC}
  EmptyBytes = EmptyBytes
  Preimages = {secret}
  Hashlocks <- MCHashlocks
  Sha256 <- MCSha256
  Bind <- MCBind
  Registry = Registry
  NoTrustline <- MCNoTrustline
  Payees = {user, Contract}
  Amounts = {0, 1}
  Deposits <- MCDeposits
  Durations = {0, 1, 2}
  MIN_TIMELOCK_SECONDS = 1
  MAX_TIMELOCK_SECONDS = 1
  InitialBalance <- MCBalance
  MaxOrders = 2
  MaxTime = 3
INVARIANTS TypeOK Solvent OneClaimPerHashlock
PROPERTIES ImplementsHashTimelock FundedOrdersSettle
CHECK_DEADLOCK FALSE
