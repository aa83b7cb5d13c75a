SPECIFICATION Spec
CONSTANTS
    p = p
    q = q
    n1 = n1
    n2 = n2
    Procs = {p}
    Requests <- NeverClean
    Inis <- OneIni
    Archives <- AllArchives
    TopDir <- SameDir
    Nodes = {n1, n2}
    Ports = {1, 2}
    Here = {n1}
    NoIni = NoIni
    NoList = NoList
PROPERTY RefusesExistingHome
