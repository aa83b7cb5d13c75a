SPECIFICATION Spec
CONSTANTS
    p = p
    q = q
    n1 = n1
    n2 = n2
    Procs = {p}
    Requests <- CleansAny
    Inis <- CleaningInis
    Archives <- AllArchives
    TopDir <- SameDir
    Nodes = {n1, n2}
    Ports = {1, 2}
    Here = {n1}
    NoIni = NoIni
    NoList = NoList
VIEW Shape
ACTION_CONSTRAINT OneStage
INVARIANTS
    TypeOK
    BuildSound
    ConfigSound
    HomeSound
PROPERTIES
    DeployedHomeKept
    ImplementsStages
