SPECIFICATION FairSpec
CONSTANTS
  Accounts = {auth, p}
  GenesisAuthority = auth
  Channels = {red}
  MaxToken = 3
  MaxMint = 1
  Amounts = {1, 2}
  Nonces = {0, 1}
  NoRow = NoRow
  Workers = {w1, w2}
  NoWorker = NoWorker
  NoReq = NoReq
  MaxTxs = 3
INVARIANTS TypeOK WorkersConsistent ReplayNeedsStaleWrite TokensBacked
PROPERTIES ImplementsAbstract WholeCommits EveryCallAnswered
