SPECIFICATION Spec
CONSTANTS
    f1 = f1
    f2 = f2
    NoFd = NoFd
    Fds = {f1, f2}
    Capacity = 2
    PingInterval = 1
    PongTimeout = 1
    TimerLag = 0
    TickMod = 2
    MaxCounter = 2
    Handshake = TRUE
    Encryption = TRUE
SYMMETRY FdSymmetry
INVARIANT TypeOK
INVARIANT UniqueFds
INVARIANT RegisteredSessionsOpen
INVARIANT HandlerSlotOwned
INVARIANT NoOrphanSession
INVARIANT ReplayStateExact
