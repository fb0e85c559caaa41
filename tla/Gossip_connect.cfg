CONSTANTS
    home = home
    dacha = dacha
    x = x
    y = y
    c1 = c1
    c2 = c2
    c3 = c3
    Waters = {home, dacha}
    Tolerant = {}
    Nets = {{home, dacha}}
    Conns = {c1, c2}
    MaxPeers = 1
    MaxPending = 1
    Crashes = FALSE
    None = none
SPECIFICATION FairSpec
PROPERTIES ConnectReturns
CHECK_DEADLOCK FALSE
