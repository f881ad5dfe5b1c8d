SPECIFICATION Spec
CONSTANTS
  Uins = {u1}
  NoUin = NoUin
  Fds = {f1, f2}
  NoFd = NoFd
  Kinds = {"request", "heartbeat", "garbage", "badsize"}
  MaxConns = 2
  MaxPackets = 1
  MaxBatch = 1
  MaxRefusals = 0
  MaxBreaks = 0
INVARIANTS NewestHasSession
CHECK_DEADLOCK FALSE
