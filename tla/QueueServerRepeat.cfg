SPECIFICATION Spec
CONSTANTS
    f1 = f1
    f2 = f2
    f3 = f3
    u1 = u1
    u2 = u2
    Fds = {f1, f2, f3}
    ListenFd = ListenFd
    Servers = {1, 2}
    Uins = {u1}
    MergeTo <- Separate
    NoPeer = NoPeer
    NoUin = NoUin
    MSG_PROCESSOR_NUM = 1
    MaxMessages = 0
PROPERTIES
    OnlyRepeatsClosed
