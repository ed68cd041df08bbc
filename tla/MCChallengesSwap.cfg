SPECIFICATION Spec
CONSTANTS
  Accounts = {auth, p}
  GenesisAuthority = auth
  Channels = {red}
  MaxToken = 3
  MaxMint = 1
  Amounts = {1}
  Nonces = {0, 1, 2, 3}
  NoRow = NoRow
  ChallengeIds = {x1}
  Calls = {c1}
  NoReq = NoReq
  Faults = FALSE
  MaxTxs = 5
  MaxLag = 1
SYMMETRY Symmetry
INVARIANT SwapSettlesBothLegs
