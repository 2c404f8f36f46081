CONSTANTS
  w1 = w1
  w2 = w2
  Keys <- MCKeys
  Msgs <- MCMsgs
  Writers <- MCWriters
  MaxWrites <- MCMaxWrites
SPECIFICATION Spec
INVARIANT MessageContract
CHECK_DEADLOCK FALSE
