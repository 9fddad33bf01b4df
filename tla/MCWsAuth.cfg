SPECIFICATION Spec
CONSTANTS
    n1 = n1
    n2 = n2
    n3 = n3
    Nonces = {n1, n2, n3}
    NoNonce = NoNonce
    CacheSize = 2
    TTL = 2
    TickMod = 6
    MaxIdle = 3
    MaxBurst = 2
    Period = 2
    Window = 1
    MaxTime = 4
SYMMETRY NonceSymmetry
INVARIANT ReplayNeedsFullCache
INVARIANT TotpTolerance
PROPERTY OnlyReplaysRefused
