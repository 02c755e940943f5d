CONSTANTS
    Conns = {c1, c2}
    agent = agent
    lab = lab
    k1 = k1
    k2 = k2
    NoKey = NoKey
    NoConn = NoConn
    Names <- MCNames
    Keys = {k1, k2}
    Hellos <- AllHellos
    StartConfig <- MCStart
    Configs <- MCConfigs
    MaxReloads = 1
    MaxEnrols = 1
    Stalls = TRUE
SPECIFICATION FairSpec
PROPERTIES
    HandlerEnds
    RevocationTakesEffect
CHECK_DEADLOCK FALSE
