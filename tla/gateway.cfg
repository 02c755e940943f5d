CONSTANTS
    Conns = {c1, c2, c3}
    agent = agent
    lab = lab
    k1 = k1
    k2 = k2
    NoKey = NoKey
    NoConn = NoConn
    Names <- MCNames
    Keys = {k1, k2}
    Hellos <- OneAgent
    StartConfig <- MCStart
    Configs <- MCConfigs
    MaxReloads = 1
    MaxEnrols = 0
    Stalls = TRUE
SPECIFICATION Spec
SYMMETRY Symmetry
INVARIANTS
    TypeOK
    OneBridgePerName
    RegistryExact
    WriterServesTarget
    NoOrphanHandler
    BridgeAnsweredFirst
CHECK_DEADLOCK FALSE
