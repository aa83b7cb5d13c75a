SPECIFICATION StopSpec
CONSTANTS
    s1 = s1
    s2 = s2
    d1 = d1
    d2 = d2
    d3 = d3
    Scripts = {s1}
    PortList <- TwoPorts
    Pids = {d1, d2, d3}
    NoPid = NoPid
    Careful = TRUE
    MaxFaults = 1
PROPERTY ShutsDownAll
CHECK_DEADLOCK FALSE
