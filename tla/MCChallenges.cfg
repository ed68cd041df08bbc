SPECIFICATION Spec
CONSTANTS
  Accounts = {auth, p}
  GenesisAuthority = auth
  Channels = {red}
  MaxToken = 3
  MaxMint = 1
  Amounts = {1}
  Nonces = {0, 1, 2}
  NoRow = NoRow
  ChallengeIds = {x1}
  Calls = {c1, c2}
  NoReq = NoReq
  Faults = TRUE
  MaxTxs = 5
  MaxLag = 1
SYMMETRY Symmetry
INVARIANTS TypeOK LegsSettleOnce ProposerPaysFirst CompletedIsSwapped
PROPERTY OutcomeIsFinal
