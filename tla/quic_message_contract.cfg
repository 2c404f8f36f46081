CONSTANTS
  Frames <- MCFrames
  BufSize <- MCBufSize
  MaxWrites <- MCMaxWrites
SPECIFICATION Spec
INVARIANT EveryFrameDelivered
CHECK_DEADLOCK FALSE
