SPECIFICATION RecoverySpec
CONSTANTS
    p = p
    n1 = n1
    n2 = n2
    Procs = {p}
    Requests <- AllOrClean
    Inis <- OneIni
    Archives <- BothArchives
    TopDir <- SameDir
    Nodes = {n1, n2}
    Ports = {1}
    Here = {n1}
    NoIni = NoIni
    NoList = NoList
    MaxFaults = 2
INVARIANT ThroughIsComplete
PROPERTIES
    NeverRefused
    Recovers
CHECK_DEADLOCK FALSE
