SPECIFICATION AllSpec
CONSTANTS
  Accounts = {auth, p}
  GenesisAuthority = auth
  Channels = {red}
  MaxToken = 255
  MaxMint = 127
  Amounts <- MCAmounts
  Nonces = {0}
  NoRow = NoRow
  SenderBalances <- MCSenderBalances
  ReceiverBalances <- MCReceiverBalances
  Unsettled = Unsettled
  Hashes = {1, 2, 3, 4, 5, 6}
INVARIANTS BooksBalance RootIsDescribedTree RootIdentifiesSet
CHECK_DEADLOCK FALSE
