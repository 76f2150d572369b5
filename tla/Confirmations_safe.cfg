\* Two transactions of an NFT, of any kind, whatever the NFT was before and whenever
\* it is written.
SPECIFICATION FairSpec
CONSTANTS
  t1 = t1  t2 = t2
  NoTx = NoTx
  Txs <- TwoTxs
\* Every transaction may have ended.
CHECK_DEADLOCK FALSE
INVARIANTS
  TypeOK
  VerdictsAreKept
PROPERTIES
  CacheNeverGoesBack
  CachedAfterTheWrite
