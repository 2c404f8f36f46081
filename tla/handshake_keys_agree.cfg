CONSTANTS
  A = A
  B = B
  Z = Z
  SaltR = SaltR
  SaltZero = SaltZero
  d1 = d1
  ClientPub <- A
  ServerPub <- B
  LowOrder = {Z}
  Salts <- MCSalts
  ZeroSalt <- SaltZero
  Datagrams <- MCDatagrams
  MaxSeals <- MCMaxSeals
SPECIFICATION Spec
INVARIANT KeysAgree
CHECK_DEADLOCK FALSE
