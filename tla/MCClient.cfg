SPECIFICATION Spec
CONSTANTS
  Accounts = {auth, p}
  GenesisAuthority = auth
  Me = p
  NoOne = NoOne
  Channels = {red}
  MaxToken = 2
  MaxMint = 1
  Amounts = {1}
  Nonces <- MCNonces
  NoRow = NoRow
  NoOrder = NoOrder
  NoAnswer = NoAnswer
  HistoryMax = 2
  HistoryDefault = 1
  PageMax = 2
  PageDefault = 1
  TopMax = 2
  TopDefault = 1
  Wrap = 4
  Limits = {0, 2}
  Pages = {0, 1, 2}
  FirstHeight = 1
  Asked = {2}
  ListSize = 2
  MaxTxs = 4
  MaxSigned = 2
  MaxLag = 1
  MaxBlocks = 2
CONSTRAINT AsksOrSigns
INVARIANTS TypeOK StatsAccountFor HistoryHolds BlocksHold SettledInSigningOrder
           PrintedIsSettled
CHECK_DEADLOCK FALSE
