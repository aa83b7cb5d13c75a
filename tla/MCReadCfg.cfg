SPECIFICATION Spec
CONSTANTS
    n1 = n1
    n2 = n2
    v1 = v1
    v2 = v2
    Sections = {n1, n2}
    Keys <- PortKeys
    Values = {v1, v2}
    Absent = Absent
    Inside <- PortsInside
    Repeats <- PortsRepeats
    MaxLines = 5
INVARIANT ReadsOnlyTheSection
SYMMETRY Symmetry
