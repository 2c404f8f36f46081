CONSTANTS
  c1 = c1
  c2 = c2
  c3 = c3
  NoIP = NoIP
  Conns <- MCConns
  MaxHosts <- MCMaxHosts
SYMMETRY ConnSymmetry
SPECIFICATION Spec
INVARIANT FirstFrameIsResponse
