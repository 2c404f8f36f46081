CONSTANTS
  AutoReconnectValues <- MCBothConfigs
  MaxConns <- MCMaxConns
SPECIFICATION FairSpec
PROPERTY ReleasedWhenUnused
