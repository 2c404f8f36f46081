CONSTANTS
  c1 = c1
  c2 = c2
  c3 = c3
  NoIP = NoIP
  Conns <- MCConnsPair
  MaxHosts <- MCMaxHosts
SPECIFICATION FairSpec
INVARIANT ServerTypeOK
INVARIANT RegisteredConnOpen
INVARIANT PoolMatchesHandlers
INVARIANT TunWritesLiveSession
INVARIANT StoppedClean
PROPERTY AllocatesFirstFreeInCycle
PROPERTY ImplementsSessionAbstract
 
