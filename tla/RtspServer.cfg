CONSTANTS
    Names = {f1}
    Sms = {m1, m2, m3}
    Ids = {s1, s2}
    Conns = {c1, c2}
    Socks = {k1, k2}
    Tracks = {t1}
    Moves = {}
    MaxLoops = 2
    NULL = NULL
SPECIFICATION Spec
SYMMETRY Symmetry
INVARIANTS
    NoDanglingSession
    TcpStreamsKnown
    DescriptorsLive
    NeverDeaf
