CONSTANTS
  AutoReconnectValues <- MCBothConfigs
  MaxConns <- MCMaxConns
SPECIFICATION Spec
INVARIANT SingleWriter
