CONSTANTS
    home = home
    dacha = dacha
    x = x
    y = y
    c1 = c1
    c2 = c2
    c3 = c3
    Waters = {home, dacha}
    Tolerant = {x, y}
    Nets = {{home, x, y}, {home, dacha}}
    Conns = {c1, c2}
    MaxPeers = 1
    MaxPending = 1
    Crashes = TRUE
    None = none
SPECIFICATION FairSpec
INVARIANTS TypeOK HeardWhenGone IncomingOvershoot
PROPERTIES HandshakeHandled
CHECK_DEADLOCK FALSE
