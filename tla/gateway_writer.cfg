CONSTANTS
    Conns = {c1, c2, c3}
    agent = agent
    lab = lab
    k1 = k1
    k2 = k2
    NoKey = NoKey
    NoConn = NoConn
    Names <- MCNames
    Keys = {k1, k2}
    Hellos <- OneAgent
    StartConfig <- MCStart
    Configs <- MCConfigs
    MaxReloads = 0
    MaxEnrols = 0
    Stalls = FALSE
SPECIFICATION Spec
SYMMETRY Symmetry
INVARIANT
    SubscribedForSession
CHECK_DEADLOCK FALSE
