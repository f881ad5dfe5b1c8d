SPECIFICATION FairSpec
CONSTANTS
  Uins = {u1}
  NoUin = NoUin
  Fds = {f1, f2}
  NoFd = NoFd
  Kinds = {"request", "heartbeat"}
  MaxConns = 2
  MaxPackets = 2
  MaxBatch = 2
  MaxRefusals = 1
  MaxBreaks = 0
INVARIANTS InOrder
PROPERTIES LoginIsAnswered
CHECK_DEADLOCK FALSE
