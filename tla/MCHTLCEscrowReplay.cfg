\* Safety of the Ethereum escrow: two orders, every payee including the
\* escrow itself and address(0), a registry that changes its mind, and values
\* on both sides of each bound of createOrder.
SPECIFICATION Spec
CONSTANTS
  user = user  resolver = resolver  secret = secret
  Accounts = {user, resolver}
  ZeroAddress = ZeroAddress
  Escrow = Escrow
  Native = ETH
  Tokens = {USDC}
  Preimages <- MCPreimages
  NoPreimage = NoPreimage
  Hashlocks <- MCHashlocks
  ZeroHash = ZeroHash
  Sha256 <- MCSha256
  Payees = {user, resolver}
  Amounts = {0, 1}
  Deposits = {0, 1}
  Durations = {0, 1, 2}
  MIN_TIMELOCK = 1
  MAX_TIMELOCK = 1
  minSafetyDeposit = 0
  RegistrySet = TRUE
  RejectsNative = {}
  InitialBalance <- MCBalance
  MaxOrders = 2
  MaxTime = 3
INVARIANT PreimageOpensOneOrder
CHECK_DEADLOCK FALSE
