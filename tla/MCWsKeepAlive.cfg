SPECIFICATION KSpec
CONSTANTS
    f1 = f1
    f2 = f2
    NoFd = NoFd
    Fds = {f1, f2}
    Capacity = 1
    PingInterval = 2
    PongTimeout = 2
    TimerLag = 1
    TickMod = 10
    MaxCounter = 1
    Handshake = FALSE
    Encryption = FALSE
SYMMETRY FdSymmetry
INVARIANT DeadClientEvicted
PROPERTY TimeoutOnlyAfterSilence
