SPECIFICATION Spec
CONSTANTS
  Uins = {u1, u2}
  NoUin = NoUin
  Fds = {f1, f2}
  NoFd = NoFd
  Kinds = {"request", "heartbeat", "garbage", "badsize"}
  MaxConns = 3
  MaxPackets = 1
  MaxBatch = 1
  MaxRefusals = 0
  MaxBreaks = 1
INVARIANTS TypeOK OwnAnswers OwnSessions SessionsExplained
SYMMETRY Symmetry
CHECK_DEADLOCK FALSE
