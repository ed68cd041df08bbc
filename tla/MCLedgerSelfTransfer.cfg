SPECIFICATION Spec
CONSTANTS
  Accounts = {auth, p}
  GenesisAuthority = auth
  Channels = {red}
  MaxToken = 3
  MaxMint = 1
  Amounts = {1}
  Nonces = {0, 1, 2}
  NoRow = NoRow
  Workers = {w1}
  NoWorker = NoWorker
  NoReq = NoReq
  MaxTxs = 2
INVARIANT TokensAlwaysBacked
