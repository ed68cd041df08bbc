SPECIFICATION FairSpec
CONSTANTS
  Txs <- ThreeTxs
  FirstHeight = 1
  MaxBlocks = 3
  NoBlock = NoBlock
INVARIANTS TypeOK Consistent ChainIntegrity BlamesGenesisAlone
PROPERTIES AppendOnly ImplementsAbstractChain PendingIsSealed
