SPECIFICATION FairSpec
CONSTANTS
    f1 = f1
    f2 = f2
    f3 = f3
    u1 = u1
    u2 = u2
    Fds = {f1}
    ListenFd = ListenFd
    Servers = {1}
    Uins = {u1}
    MergeTo <- Merged
    NoPeer = NoPeer
    NoUin = NoUin
    MSG_PROCESSOR_NUM = 2
    MaxMessages = 2
PROPERTIES
    ShutdownCompletes
    RequestsAnswered
