CONSTANTS
  AutoReconnectValues <- MCBothConfigs
  MaxConns <- MCMaxConns
SPECIFICATION FairSpec
INVARIANT SingleConnectInFlight
INVARIANT RunClientDisconnectReleases
PROPERTY RunClientDisconnectCompletes
